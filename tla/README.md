# mcpsnoop in TLA+

mcpsnoop records the traffic between an MCP client and an MCP server and shows
it.  A **shim** (`internal/proxy`) sits between the two, on stdio or as an HTTP
reverse proxy, forwards every byte and turns each message into an `Envelope`
with a sequence number.  **Sinks** carry envelopes away: a file, a socket to the
hub, an OTLP collector.  The **hub** (`internal/hub`) reads the session logs,
then the live stream, drops what it has seen, and hands the rest to the
**store** (`internal/store`), which correlates requests and answers, judges them
and bounds its memory.  The **terminal interface**, **metrics**, **exports** and
the commands (`check`, `stats`, `inventory`, `clients`, `diff`, `baseline`,
`wrap`, `prune`, `replay`, `mock`) read the store or the logs.

This directory holds TLA+ modules that model these parts, TLC configurations
that check them on small instances, and TLAPS proofs of the theorems that
matter most.  `PROJECT.json` is the index: components, runs, the mutants that
show each property can fail, the source lines behind each definition, findings,
hazards and theorems.

## The system

| component | code | state | operations | talks to |
|---|---|---|---|---|
| stdio shim, recorder | `internal/proxy/stdio.go`, `frame.go` | `places`, `settled`, `emitted`, `seq` under one mutex; three pumps | `take`, `settle`, `drop`, `flush`; forward, observe | client, server process, sinks |
| file sink | `internal/proxy/sink.go` | bounded channel, `closed` under an RWMutex, `quit`, `done`, drop count | `Emit`, `Close`, the goroutine's loop | recorder, file |
| live sink | `internal/proxy/socketsink.go` | bounded channel, context, connection, drop count | `Emit`, `Close`, dial, backoff, pump | recorder, hub socket |
| OTLP sink | `internal/otlpsink/sink.go` | buffer, cancelled calls waiting for an answer, recently sent set | `Emit`, `Close`, post with retries | recorder or hub, collector |
| HTTP proxy | `internal/proxy/http.go` | one exchange per request: tapped bodies, answered and abandoned flags; sequence numbers | request, response, error and event stream taps | client, upstream, sinks |
| redaction | `internal/proxy/redact.go` | none | rewrite of JSON trees and headers | recorder, HTTP proxy |
| hub | `internal/hub/hub.go` | one high-water mark per session, connections, `closed` | backfill, accept, gate, sweep, shut down | logs, shims, store |
| store: calls | `internal/store/store.go`, `duplicates.go` | per session: calls by id, pending count, tasks, subscriptions, retries awaited, attempts | `Ingest` of a frame | hub, UI, metrics |
| store: memory | `store.go` | frames, body bytes, eviction cursor, what dropped frames said | admit, release bodies, drop the oldest frame | |
| store: listings | `store.go`, `cache.go`, `outputschema.go` | tool definitions, page state, lifetimes and scopes, compiled schemas | fold a page, judge a reuse, judge a result | |
| store: rounds | `elicitation.go`, `interaction.go` | hops, times, questions and answers of an operation | ask, retry, answer, cancel | |
| store: streams, headers | `conformance.go`, `extensions.go`, `paramheader.go`, `transportheaders.go` | tokens, subscriptions, capabilities | judge a frame | |
| replay engine | `internal/replay` | steps, waits, deadlines, report | send, await, carry ids over, give up; over HTTP post, listen, close a stream, end the session | live server |
| one-shot replay | `internal/replay/replay.go`, `http.go` | the server it starts, what it awaits | shake hands or describe itself, ask once, show the answer | live server |
| mock server | `internal/mock` | queue of recorded answers per match key | match, answer | client |
| metrics | `internal/metrics` | open operations, cancelled list, bounded series | observe, prime, scrape | hub |
| baselines | `internal/toolbaseline` | one file per server | observe, accept, reset | file system, diff |
| wrapping | `cmd/mcpsnoop/wrap.go` | a client's configuration and its backup | back up, rewrite, restore | file system |
| prune, scan | `prune.go`, `sessionscan.go` | session logs | list, ask, remove | file system |
| terminal interface | `internal/tui` | snapshots, cursors, panels, prompts, replays under way | keys, ticks, messages | store, replay |
| check | `cmd/mcpsnoop/check*.go` | none | gate, assertions, three reports | store |
| export | `exporter`, `main.go` | a temporary file, the destination | open, write, commit, abort | file system |
| stats, inventory, clients | `stats.go`, `inventory.go`, `clients.go`, `clientprofile` | rows per server, tool or client | fold logs | logs |
| diff | `internal/sessiondiff` | none | compare definitions and calls | store |

What makes it hard:

* **Concurrency.**  Three pumps settle places out of turn while the peers
  already answer what was forwarded; emitters race the close of every sink; a
  hub's goroutines race its shutdown; processes race for one socket path, one
  baseline, one configuration, one export.
* **Delivery.**  Frames reach the hub twice (log and live) or not at all (a
  full buffer, a broken connection); gaps must be visible as jumps in `Seq`
  and never be invented.  A collector answers, fails or hangs.
* **Ordering.**  Every later component assumes that a session's frames arrive
  in causal order with contiguous numbers.  Messages to the terminal interface
  arrive after the reader has moved on.
* **Protocol sequences.**  Ids are reused, requests are cancelled, answered
  late or twice, turned into tasks, or parked for another round trip; listings
  come in pages while the server's list changes.
* **Bounds.**  Every buffer, map and history is capped; the cap must not break
  the answer the structure exists to give.
* **Judgement.**  mcpsnoop accuses peers of breaking rules; a conforming peer
  must not be accused because of what the capture lost, redacted or reordered.

What makes each component correct:

* *recorder*: the capture is gapless, in the order of places, an answer never
  precedes its cause, and nothing forwarded is skipped while the sink is open;
* *sinks*: an `Emit` never waits, every envelope is accounted for, a close
  flushes what was queued, a hub sees each envelope at most once and in order,
  a finished operation is posted once and whole;
* *hub*: each frame is handed on once and in order, only frames seen before
  are turned away, it stops when told, the path leads to the hub that serves;
* *store*: the pending count is the number of pending calls, a call ends once
  and never comes back, an answer settles the call it belongs to, the weights
  match what is held, dropping a frame changes no summary;
* *HTTP proxy*: each body is captured once and each exchange is closed exactly
  once, answered or abandoned;
* *replay*: a step is sent once, after what it waits for, with this server's
  ids, the report counts each step exactly once, and nothing it started is left;
* *baselines, wrapping, prune*: the first trust stands, no edit of the client's
  is lost, nothing written today is pruned;
* *interface*: a key acts on what is shown when it is pressed;
* *reports*: exit code, counts and lists say the same.

`PROJECT.json` lists under `hazards`, line by line, where each of these can go
wrong.

## Modules

Modules of one layer are checked by one MC module, whose variable `area` picks,
in the initial state, the part a behaviour is about; the other parts stay in one
initial state.  No part reads another's variables, so this is the union of their
state spaces and not a product.  An invariant of such a module says of each
part what must hold in that part's behaviours.

### Recorder, CausalCapture, RecorderProofs

`Recorder` models `RunStdio`: the pumps `client`, `server` and `stderr`, each
reading a line, taking a place under the mutex, forwarding, then settling the
place, filled or let go; `settle` with its loop, which emits under the mutex,
one sink call per step; the wait for the two server pumps; `flush` with its
deadline.  A line that answers another may be read only after the other one
was forwarded to the peer that answers, not after it was *observed*: that gap is
the race the places exist for.  `pc`, `settled`, `emitted`, `seq` are the
code's; `log` is what the sink got.  Contents of a line are abstracted to the
line it answers and whether it holds a frame at all: a pump of frames lets the
place of an empty line go, while the pump of stderr records empty lines too.

`CausalCapture` is the abstract promise: lines cross, and a capture lists lines
that crossed, each once, causes first.  `Recorder` implements it with `crossed`
the forwarded lines and `capture` the places in the log.

### AsyncSink, AsyncSinkProofs 

The file sink, with `sync.RWMutex` as it works: a waiting writer makes
`TryRLock` fail, which is why `Emit` uses it.  The write to the file may fail
or last for ever.

### SocketSink, HubSocket, OtlpSink, Metrics, Correlator, LiveProofs (MCLive)

`SocketSink` is the live sink and, as its environment, a hub that starts, reads,
stalls or goes away with what the socket held.  A write ends only when the
socket has room or the connection breaks: cancelling the context does not
interrupt it.

`HubSocket` is `listen` and the shutdown path of several hub processes, a system
call at a time, on one socket path.  The constant `Overlap` says how careful
the user is: two hubs start at once only where no socket is (`fresh`), anywhere
(`start`), or also while another one stops (`stop`).

`Correlator` is what `Ingest` tells an observer of one session about the call a
frame points at, as the frame leaves it; it forgets nothing, which the OTLP
sink's store of 8192 frames comes to within the bound its assumption names.  `OtlpSink` follows the code's one
goroutine: `TakesFrame`, the tick that ends the grace of a cancelled call, the
flush when the channel closes, `send` with the set of operations already sent
(capped, oldest forgotten), `deliver` with its attempts and sleeps, and a `Close`
that waits half a second before it cancels.  `Metrics` follows `Observe`:
operations begun, recorded, ended, cancelled ones held up to a cap, series up to
a cap, and the change from priming on logs to live frames.  Its store holds one
frame (`store.NewBounded(1, 1)`), so `Stores` keeps the wire's calls (`heard`)
apart from what that store knows (`calls`): `Replaces` is `dropOldestFrame`, which
forgets a finished call with the frame that pointed at it, and an answer to a
call it forgot matches nothing (`Unmatched`).

### Hub, HubProofs (MCHub)

`Run`, `backfill`, `emitFrom`, `sweepSeen`, `handleConn` and the goroutine that
closes listener and connections.  A log and a shim's buffer hold arbitrary
subsets of a session's frames, so a log may have holes and may overlap the live
stream.  The gate and the handler are two steps, as in the code, where the
handler runs outside the lock.

### CallLifecycle, CallStore, CallStoreProofs (MCCallStore)

`CallStore` models what `Ingest` does to the calls of one session: `calls`,
`held` (`sess.calls`), `tasks`, `attempts` (`openAttempts`), `awaiting` and
`pending` are the code's.  One action is one frame: a request that opens a call
or, if it carries what an earlier answer asked for, continues one
(`matchRetry`); an answer (`completeCall`, `answerCall`), which settles its
call, parks it, hands it to a task, is late or is ignored; a cancellation; a
task's notification; an exchange that its client abandons, that fails, or that
ends with an error naming no request.  The calls a frame is *about* are known
to the model and not to the store: `over`, `answered`, `lost`, `misled` and
`posts` keep that truth, and the invariants compare it with what the store made
of direction, id, connection and exchange.

The peers are bounded by `Scene`, the topologies and requests of a session:
repeated calls with reused and null ids on stdio; task handles and requests
about the task; one client on two connections, with batches or with streams
whose close cancels; two clients that count from the same number; rounds of
input with conforming and other retries; listings of tools between a call, its
repeat and their answers.  A client never uses an id on two of
its connections, and batches are not mixed with closes or retries, which belong
to other protocol revisions.  With two connections of one client and a third of
another the store may take an id for the wrong client's, which its comments say
(`findCall`); no scene has three.

`CallLifecycle` is the abstract promise: a call is opened once, ends once and
keeps its outcome; a cancelled one may be answered late, once; one is displaced
only by a request that opens another.  `OneEnd`, a part of `EndsOnce`, checks
that `CallStore` implements it.  The other part, `VerdictStands`, is about the
report of repeated calls (`duplicateOf`): once it says that a tool ran twice, no
answer, cancellation or failure takes that back.  A listing does, if it declares
the tool read-only or idempotent, for calls made before it too
(`mayRepeatEffects` reads the newest one): `harmless`, what the listings declare,
may become anything with an answer to `tools/list`, late ones included.

### BoundedStore, HeaderRules, ToolListing, Streams, Chains, HttpExchange, SessionProofs (MCSession)

`BoundedStore` is `appendEvent`: admit a frame, release the oldest bodies, drop
the oldest frames, one frame or body per step under the store's lock (`phase`).
Its point is what a summary still says when the frames it came from are gone, of
calls cancelled and answered all the same too.

`HeaderRules` reads which headers a tool's schema asks for, judges the headers
that came, and places the shim's redaction before the store, so that a conforming
client is judged on what the capture left of its request.

`ToolListing` folds pages of `tools/list` from several clients and judges reuse
of a listing by its lifetime and scope, while the server's tools change.
Its last part judges results by the schema compiled at first use.  `Streams`
holds what takes more than one frame to judge: progress tokens, listen streams,
extensions, the directions and the input a revision allows.  Peers may break
these rules; the model keeps the truth about them and compares verdicts with it.

`Chains` follows one operation through its rounds of input: `markHop`, the
breakdown that `Interactions` reads back, and the ledger of questions.

`HttpExchange` is the reverse proxy: the transport's goroutine reads the request
through a tap, the handler's goroutine waits, copies the answer through another
tap and decides at the end whether the client gave up.  Whoever of the two ends
the body first takes a snapshot of its copy under the tap's lock and delivers it
outside, frame by frame, each waiting for the emitter that all exchanges share.

### ReplayPlan, ReplayEngine, HttpSide, OneShot, ReplayProofs (MCReplay)

`ReplayPlan` turns a recording into steps: order, what a step waits for, which
are skipped and why, which ids and values are carried over.  `ReplayEngine` runs
them against a server that answers late, in any order, asks, exits or refuses,
over stdio or HTTP.  The mock server, at the end of `ReplayPlan`, serves the
same recording back; replaying a recording against it must reproduce it.  Time is
a deadline that may pass whenever it is waited for.

`HttpSide` is what lies below the engine over HTTP: a goroutine for each request,
the session id and revision a response may change while later frames are on
their way, streams closed to cancel, the GET stream, and how it starts and stops
with a server of its own or one that runs already.  A request is waited for only
when the recording has an answer to it; one without may be left open at the end,
and is reported only when its POST comes to nothing.  `OneShot` is `Replay` and
`ReplayHTTP`: a server that answers `initialize` with an error is taken for
stateless, and the one answer shown must be the answer to the call, whatever the
server says besides.

### WrapConfig, Baselines, SavedLogs, ToolDrift, DeskProofs (MCDesk)

`WrapConfig` is `wrap` and `unwrap`: read, back up, check that nothing changed,
write; each write is a temporary file and a rename.  A step may fail, a command
may be killed by never moving again, and the client edits both files.
`Baselines` is trust on first use between processes that share a directory;
atomic is what the file system makes atomic.  `SavedLogs` is `prune`, with its
prompt, and the walk of the newest logs, with int64 ages that wrap around.
`ToolDrift`, annotations included, is pure: two pairs of blocks, definitions or
sessions are compared in one step, and the result is judged against what the
blocks say to a client.

### StreamView, ReplayDesk, Verdict, ExportTarget, Rollups, ClientProfiles (MCScreen)

`StreamView` is the `Model` of the terminal interface as a record and its
methods as operators: snapshots on ticks, cursors that are row numbers, filter,
sort, follow, inspector, a deletion that waits for an answer.  `ReplayDesk` is
the life of replays started from it, whose results arrive as messages; its proof
is in `ReplayProofs`.
`StreamView` also has the panels over the tables, which may be rebuilt while
they are searched.  What the filter of the sessions looks for is part of a label,
and a session's label may change with a later frame.

`Verdict` is `check`: the counts `Ingest` made, the gate, and three reports that
list the findings anew from the frames.  `ExportTarget` is where an export is
written, a system call at a time (in place, in two parts), by several at once if
need be; its proof is in `DeskProofs`.  `Rollups` folds a directory of logs that
come and go: `stats` stats each entry, reads each head when there are labels, and
folds what it selected, `inventory` goes through the entries once.
`ClientProfiles` folds the sessions `clients` read; a call ends by an answer, by
its client giving up, or by a request that takes its id.

## Runs

| run | question | bounds, and why they are enough |
|---|---|---|
| `recorder` | Is the capture gapless, causal and complete, and does the shim return? | 4 places: two lines in flight between two peers, one on stderr and the meta frame, so that a place can be settled before, between and after others |
| `async_sink` | Do racing emits and closes keep the account exact, and does `Close` flush? | 2 emitters (one holds the read lock while another tries it), 2 closers (one waits in the `Once`), buffer 1, 3 emits: full, drained and refilled |
| `live` | Is what is sent onward sent once, in order and counted, and does the feed recover? | live sink: buffer 2, socket buffer 2, 4 emits, any number of breaks. Hubs: 4, killed at any point, at most two starting at once and only where no socket is. OTLP: 2 ids of the two directions and a frame after both ended, sent set of 1, 2 attempts. Metrics: 1 series and 1 cancelled call held, so that each cap is met |
| `hub` | Do backfill, gate and sweep hand each frame on once, and does the hub stop? | 4 logs and a dedup map of 3 (its quarter is then one entry), so that the map overflows; the oldest session has two frames and a live shim |
| `call_store` | Does the store end exactly the calls the peers ended, and do its counters and lists agree with them? | eight scenes of 2 or 3 calls, enough for a repeat of a repeat, a listing before, between and after a call and its repeat, a batch beside another exchange, and an ambiguous or a capped retry; 3 exchanges; 3 ids |
| `replay` | Does a replay keep order, ids and account, and does it end? | seven recordings, each the smallest that has its case: answers out of order, a cancelled request, an issued value, a server's request, a skipped step, two HTTP exchanges, a repeated id. HTTP side: five scripts of up to 3 frames, one with a request the recording has no answer to, two POSTs under way at once. One call: servers of both revisions that say up to 2 lines of their own |
| `desk` | Do the commands beside the capture keep what they share? | 3 commands over 2 servers and 2 edits of the client; 2 observers and 2 labels; 2 logs, ages on both sides of the wrap-around; all pairs of annotation blocks, pairs of tool lists and sessions of up to 2 |
| `session` | Does one session over HTTP end as captured, weigh what it holds and accuse fairly? | 1 exchange with up to 2 lines and a tap that holds 1; 2 sessions that share a budget of 3 bytes and 2 frames, for 4 frames; 2 listing clients, 2 pages, 2 runs; 2 versions of a schema; 2 progress notes on a token; 2 questions in 3 hops |
| `screen` | Do keys act on what is shown, and do reports and files say what happened? | 2 sessions, 2 frames held of 3, so that a cursor sees its row leave; 2 replays; panels of 2 held blocks; findings that overflow a report; 2 exporters; 2 logs with one append; a client with calls that overlap |
| `call_store_refused` | Is every request that an HTTP failure answered settled? Violated | one scene with a tasks request |
| `live_tasks` | Is every finished operation sent? Violated | as `live` |
| `panel_search` | Are the marked lines lines with a match? Violated | as `screen`, without symmetry |

Symmetry is used where permuted values are only told apart by equality: the
sessions shown and captured (`screen`), the commands and the observers (`desk`).

Deadlock is not checked: the peers of a session may fall silent, the shim, the
sinks, the hubs and the commands end, and the bounds (`MaxEmits`, `MaxPlaces`,
`MaxFrames`, `MaxArrivals` and their like) limit how long they go on.

### Fairness

Fairness is asked only of goroutines of the program and of time where the code
sets a timer: the recorder's pumps where they are not blocked on a peer; the
emitters and loops of the sinks; a stopping hub's own steps; the hub's
connections; the OTLP goroutine, its grace ticks and the half second of `Close`;
the replay engine and a single call, whose waits have deadlines.  Peers, the user, the collector
and, seen from the live sink, the hub owe nothing; a property that needs more of
them says so on its left side (`AlwaysRedials` speaks of a hub that stays up and
reads).  `CloseFlushes` assumes in its statement that file writes return;
`EveryLineRecorded` that no forward blocks for ever.  The code sets no deadline on
a POST that carries a note or an answer: `ReplayEnds` assumes (`PostsEnd`) that
the server takes or refuses it, and a server that holds it open holds the replay
for ever.  Go's scheduler runs every
runnable goroutine eventually, which is what weak fairness of a step that stays
enabled says.  `select` among ready cases is random, not fair, and no property
depends on it.  `StaleReclaimed` lets the starting hub be killed, or another one
serve, in the place of serving itself.

## Findings

Three runs expect a violation and show where the code does not do what a comment
says: `call_store_refused`, `live_tasks`, `panel_search` (`findings` in
`PROJECT.json`).

More statements of comments or docs were found not to hold.  Each has a
definition, marked in its module; naming it in the run's cfg in the place of an
`INVARIANTS` or `PROPERTIES` entry shows the counterexample.

| definition | run | what happens |
|---|---|---|
| `LateEmitDropped` (SocketSink) | live | an `Emit` after `Close` is queued and never counted as dropped |
| `NeverSteals`, `ReachableUntilCancelled` (HubSocket), with `Overlap` `start` or `stop` | live | two hubs that start at once each remove the other's socket; a stopping hub unlinks the path twice, once from under a hub started in between |
| `NeverTwice` (Hub) | hub | a live session evicted from the dedup map is handed on twice |
| `AbandonedByClient` (HttpExchange) | session | the abandoned mark is written for a client that stayed |
| `EachAfterAll` (ReplayEngine) | replay | a step is sent although an answer it followed has not come: a frame that is skipped drops what it would have waited for |
| `ByteForByte` (WrapConfig) | desk | `"args": []` is lost over wrap and unwrap |
| `LooseningNeverHidden` (MCDesk) | desk | a dropped explicit `destructiveHint` is not called a loosening; nor is a `null` hint, which `comparableAnnotations` takes for `false` (`toolcompare.go:97`, against the comment there that what is no boolean never matches a well-formed value) while `hintBool` calls it unreadable and `CompareToolHints` a loosening: `LooseningIsSeen` excepts a null beside a false, or beside a default false, and says so (`NullHides`) |
| `ResultsJudgedByListing` (ToolListing) | session | a result is judged by the schema of an earlier listing, which stays compiled |
| `TrustedIsWhole` (ToolListing) | session | pages of two clients' listings are taken for one whole list |
| `EveryAnswerCounts` (BoundedStore) | session | a call cancelled and forgotten (`dropOldestFrame`) is answered after all: the bounded summary lacks that result, against "the whole tool summary stay exact" (`store.go:485`), while an unbounded store counts it; `SummaryExact` excepts such answers and shows that no call is forgotten while its request frame is held |
| `BudgetIsHeld` (BoundedStore) | session | once every body is released, bytes of late results still count against the budget |
| `NobodyAccused` (Streams) | session | with two clients in one session, one is reported for the other's token |
| `ResendIsNoHop` (Chains) | session | a result sent again on one id that asks no questions is counted as another hop |
| `EditsGoHome`, `RepeatsCarryTheirHeaders` (ReplayDesk) | screen | an edit is sent to the session open when the editor returns; a repeat carries the headers of the frame selected now |
| `InspectorKeepsItsFrame`, `AlwaysDeletesWhatWasAsked` (StreamView) | screen | under another order the inspector acts on, and a deletion removes, the row that is in that place by then; so does a deletion from a filtered list when a label changed |
| `SourceSurvives` (ExportTarget) | screen | an export onto the log it reads truncates it when no temporary file could be made |
| `OnlyAnsweredMeasured` (ClientProfiles) | screen | a call whose id was used again while it was open is measured as in flight until then (`openCall` gives it an end), against "Only calls the server answered are measured" (`activity.go:40`); so are calls whose exchange failed |
| `EveryFindingListed` (Verdict) | screen | a frame behind a failing signal is listed by neither report, each of which points at the other |

Seen while modelling, and left to the module's exceptions or comments:

* *Hub.*  `OnlySeenRefused` excepts frames a log lacks while it holds later ones:
  replaying it raises the mark past the hole, and the gate then drops the frame
  when the shim sends it, unseen.
* *Live sink.*  `SocketSink.Close` does not return while its goroutine is inside
  a write to a hub that neither reads nor goes away, and the sinks closed after
  it are not flushed.
* *Call store.*  An operation the cap let go of, or whose id a request took while
  it was parked, can have its retry taken for the one other that fits
  (`LinksItsOwn` excepts both).  `RefusedIsSettled` fails also for retries, which
  keep the exchange of their first request.  An error without an id, on the
  exchange of a cancelled call, is counted as no error.  A call whose request
  frame is dropped while it is pending stays counted.
* *Summaries.*  A second response on one call overwrites what was released of the
  first, so a summary shrinks.  `ToolUsage` and `Elicitations` forget dropped
  calls.  Redacting `params/_meta` makes the store report a client for
  capabilities it did declare; redacting a key whose argument is null does so for
  its header.
* *Listings.*  Two runs with different scopes whose cursors are equal are
  reported.
* *Streams, chains.*  A retry's own progress token is never noted, and tokens of
  cancelled calls stay open.  A question identical to the last, after a retry
  that answered nothing, counts as sent again; a cancel while the client is asked
  charges the wait to the server.
* *OTLP, metrics.*  An operation that the sent set forgot is sent again by a
  duplicate answer.  Operations never answered stay in `operations` for ever.
  The collector holds up to 1024 cancelled calls for a late answer
  (`trimCancelled`), but the one-frame store it correlates in forgets a cancelled
  call with the frame that cancelled it: the answer is counted only in the very
  next frame of the session, and not even then if the frame before the
  cancellation was about the same call.  `CountsExact` says so, with `missed` for
  the answers no counter sees; the list of 1024 is of use to no other.
* *Replay.*  Over HTTP a step may be reported missing twice; a server that exits
  during the last waits is not reported as having done so.  A GET opened after a
  handshake that was answered late names no revision.  When the server listens
  but the proxy in front of it cannot, `startHTTP` returns without stopping it: it
  is sent an interrupt as `ReplaySession` returns, which nobody waits for, and may
  outlive the replay (`StartFails`; `LeavesNothing` excepts it).
* *One-shot replay.*  A redacted header is refused although the body it mirrors
  was edited.  A legacy server that answers `initialize` with an error is taken
  for stateless.  Params that are no object go out without `_meta`, though over
  HTTP the header names the revision.
* *Desk.*  Between a wrap that saw the backup and its write, an unwrap may remove
  that backup.  Prune deletes a log that was written to while its prompt waited.
* *Interface.*  Sorted by time descending, follow pins the cursor to the oldest
  frame; paging in an empty stream turns follow off; an editor that returns
  replaces a pending delete prompt.
* *Check, folds.*  A `tasks/get` answer that is an error and says `failed` counts
  two errors, the reports list one.  A call answered in the instant it was sent
  is never counted in flight; `Merge` sorts by lower-cased name, unstably.

## Proofs

TLAPS checks, for every value of the constants:

* **RecorderProofs.**  `Invariance` proves the inductive invariant of
  `Recorder`: places below `emitted` are settled or let go exactly as the log
  says, places at or above it that are settled carry a frame, at most one pump
  is inside `settle`, an answer's cause has a smaller place.  The
  type invariant alone says nothing of who holds the mutex or where a place
  that is being settled stands; without those parts the step that emits cannot
  be shown to keep the order.  From it follow `TypeCorrect`, `FramesInTurn`,
  `AnswersFollowCauses`, `NoForwardedLineSkipped`, `NothingHeldBack`,
  `FlushIsComplete`, and, step by step (`StepRefines`),
  `RefinesCausalCapture`: the recorder implements `CausalCapture`.
* **AsyncSinkProofs.**  `Invariance` relates the reader set, the writer, the
  closers and the loop; `NobodyQueuesForNobody` needs that an emitter that saw
  the sink open still holds the read lock and therefore that `Close` has not
  told the loop to drain.  `AccountIsExact` adds the arithmetic, one
  cardinality step per `Emit`.
* **LiveProofs.**  `LiveFeedIsExact`: what a hub reads is in the order it was
  emitted, nothing is read twice, what is not read is accounted for, and the
  socket path leads to the hub that serves.  For the sink the strengthening is
  the order of everything still on its way, read, on the wire, being written and
  queued (`Ordered`), and that only the current connection holds anything
  (`OneConnection`): without it a redial could let old envelopes be read after
  new ones.  For the sockets it is which hubs may be at which step together
  (`StartsApart`, `StopsAlone`).  The theorem has the hypothesis `Overlap =
  "fresh"`; without it `ReachableUntilCancelled` fails (Findings).
* **HubProofs.**  `HubInvariance`, and from it `HandledOnceInOrder` and
  `MarksAreExact`.  What was handed on or is carried stays at or below its
  session's mark (`BelowMark`); where a mark may have come from, a log of which
  everything was passed or is still to be replayed, or the session's own
  connection (`Replaying`, `MarksFromLogs`); and backfill and connections never
  hand on at once (`Phases`).
* **LiveProofs, the OTLP sink.**  `SettledCallsAreSent`: when it ended in its own time,
  every call the store settled went out.  A call that settles is accounted for
  from then on, sent or waiting for an answer (`Covered`), and what waits still
  has the answer it began to wait with (`Waits`, `Superseding`).
  `SentOnceAndWhole`: an operation goes out again only after as many others as
  are remembered; what is remembered is the end of what was sent, without
  repetition (`Window`).
* **LiveProofs, the metrics.**  `MetricsAreExact`: a call that is held is the
  newest of its id, which is in flight for it (`HeldById`), and is open or one of
  the cancelled calls remembered (`HeldOpen`, `LateOnes`).  The errors counted
  are those of the calls whose end was recorded, and a call that is neither held
  nor recorded has none: it was overtaken by a call of its id, or cancelled and
  forgotten by the store before an answer came (`Recorded`).  A cancelled call
  without an answer is in the one-frame store only between its cancellation and
  the next frame (`Remembers`), and the store knows every call as the wire has it
  but for the answers it missed (`Apart`).  A call's end goes to the series its
  beginning went to, although labels may run out in between (`Labelled`).
* **CallStoreProofs.**  `StoreInvariance`, and from it `BooksBalance`: the
  pending and error counts, the attempts and the parked list agree with the
  calls.  The
  strengthening is what the store's pointers mean: an id, a task, an attempt and
  a parked entry name a call there is (`StoreFormed`), the marks of an outcome go
  with the state they are on (`Marks`), a call a task stands for was handed off
  (`HandlesGiven`), and the attempt kept for a signature is its newest call
  exactly while that is undecided (`AttemptsKept`).  `StoreStep` says what any
  frame can do: it opens one call (`Opening`), or moves the calls there are as
  `Becomes` allows (`Frame`).  `CallsEndOnce` follows from that: no outcome is
  taken back, so neither is the verdict that a tool ran twice, but by a listing
  that declares the tool harmless to repeat (`VerdictKept`); and `CallStore`
  implements `CallLifecycle`.
* **DeskProofs.**  `ConfigIsSafe`: while a command works, what it is about to
  write tells the client the same as what it read (`Ready`), and what it read or
  compared with is still in its file, or it was overtaken (`Seen`).  `Ready`
  rests on lemmas about entries: wrapping puts a wrapper before the line that was
  there, unwrapping leaves the line behind it, also of an entry wrapped twice, and
  a backup that is the same JSON says the same.  `TrustStands`: the file of a
  label is the one first observed or last accepted.  `PruneIsSparing`: no log
  written today is listed.  `ExportsStayWhole`: a temporary file belongs to one
  export, holds what that one has written and becomes the target only when it is
  whole.
* **SessionProofs, the exchanges.**  `ExchangeIsSound`, and from it `BodiesInOrder` and
  `ExchangesEndOneWay`, for any number of exchanges that share the emitter.  A
  message of a body is in one of three places, once: the copy taken, a frame that
  waits for the emitter, the sink (`Single`).  Whoever holds the lock of a body
  knows how much of it was read (`Reading`), so that a whole copy has all its
  messages (`Whole`) and a refused request is shown before its refusal
  (`Refusing`).  Which frame the handler can be waiting with depends on where it
  is (`Waiting`); with what the answered mark has seen (`Ending`) it follows that
  a given-up mark and an answer exclude each other.  What the goroutine in the
  emitter still owes the sink (`Turns`) gives the order.  All but `Turns` is about
  one exchange, so each action is looked at for its own and leaves the others
  alone.
* **SessionProofs, the store.**  `ListingIsSound`, and from it `CompleteListsAreWhole` and
  `NobodyIsAccused`, for any number of clients and pages.  While no two listings
  overlapped, the store holds the first pages of one, one tool of each, and
  whoever is past its first page asks for the page after those
  (`PagesInOrder`); a cursor has the scope of the listing that issued it, and no
  two clients are in one (`ScopesKept`); what is held fresh is the last result of
  its page, and nothing was announced since (`FreshKept`).  `OperationIsSound`,
  and from it `SidesAreCharged` and `LedgerIsTrue`, for any number of rounds:
  the mark is the frame the turn began with (`Charges`), the last questions
  recorded are those of the newest round in their order, so a result sent again
  is recognised and one that asks otherwise is not (`Newest`, `SameRound`), and
  a question is of one round, the newest for the last ones (`Rows`).  Both need
  `~odd`: in the cases Findings describes the store charges or files otherwise.
* **SessionProofs, the memory.**  `MemoryIsExact`, for any number of sessions,
  calls and frames and any limits.  A session's summary remembers the calls whose
  first frame has left (`Hidden`), each opened once and before any frame about it
  (`OpensOnce`), and the frames still held tell of the others (`Openings`).  A call
  whose request is held was neither forgotten nor missed an answer, and a settled
  one is kept no longer than that (`AnsweredOnce`), so a late answer either finds
  its request still to be counted or is excepted.  Of a call answered once, the
  answer is still held, or its frame is behind the cursor and its size was kept
  when its body was released (`Weighed`), so releasing early costs the summary
  nothing.  The counters are sums over the sessions (`Sums`), which every step
  changes for one session (`SessionChanges`), and a phase ends only within its
  limit (`Limits`).  A fold of the community modules is here the one solution of
  its own equation (`SumIs`, `SummaryIs`): what holds of a set when it holds of it
  without any one element holds of every finite set (`SubsetInduction`), which
  needs no induction theorem, since a least counterexample is enough.
* **ReplayProofs.**  `ReplayShowsTheAnswer` and `NoServerIsLeft`: which lines of
  the server can wait to be read at each place of a single replay (`Waiting`),
  that the call is asked once and every answer still to be read is the one given
  (`AnsweredOnce`), and that handshake and revision go together
  (`HandshakeFirst`).  `SideSettles`: a request posted over HTTP is in flight,
  answered, closed or missing, in one of these unless it was waited for in vain
  (`OnePlaceEach`).  `SideKeepsItsSession`: one answer to `initialize` assigned
  the session, before any post that must carry it set its headers
  (`OneSession`).  `RepliesAreExact` combines them to what the run checks.
  `ReplaysAreAsShown`: at most one run has the newest token, and it carries the
  request that `r` would send; there is nothing to run before a stream was
  entered.

The assumptions are the modules' named `ASSUME`s, which TLC evaluates in every
run, and the hypothesis on `Overlap` above.  They ask for no more than the code
gives: buffers and caps are at least one, those of the metrics
are numbers, finitely many hubs and sessions exist, a scene's
requests come from its own connections, a listing has a page and a time to live
is a number, the keys of questions are finitely many, a document's entries are
made of the words there are, a body's messages are told apart by their kinds, a
client's request ids are distinct within its script, as MCP requires, and nobody
is the exporter `NoExporter`.

Model-checked only:

* *Liveness and anything about `ENABLED`*: `RecordsAndReturns`, `NobodyHangs`,
  `FeedRecovers`, `RunsItsCourse`, `ReplayEnds` and their like.
* *What a fold or a recursive definition computes over a whole log or session*:
  `ReportedFairly`, `OutputsExact`, `CursorsHold`, what `OperationsExact` says of
  the breakdown and of the number of rows (`BrokenDown`, `RowsAreAll`), and what
  `ReplaysFaithfully` says of the account and of the mock server.  The library's
  induction theorems cannot be instantiated by the installed provers; the least
  counterexamples that `MemoryIsExact` uses instead work for sums, and these
  define lists, by recursion on what they have built so far.
* *`ReachesItsOwn`*: an answer reaches the call it was for only because a scene
  keeps clients, ids and connections apart in the ways the topologies do.  It is
  no theorem of all scenes, as the comments of `findCall` say of the code.
* *What a sort or a comparison of lists returns*: `WalkReadsNewest`, and in
  `ComparesFairly` what is said of reports (`ReportsTheTrusted`); the community
  modules define sorting by a choice of which no theorem is installed.
* *Comparisons of two small inputs*: the rest of `ComparesFairly`; TLC enumerates
  its inputs and there is no step to prove.

## Plan

Modelled, checked and proved: what the sections above say.  What is left is to
prove more of the parts whose data is plain, above all that keys act on the row
that is shown (`DeletesWhatWasAsked`, parts of `CursorsHold`).

The modules are written for it: no `RECURSIVE` operator in a module with
theorems, invariants as conjunctions of named parts, one action per operation.

## Not modelled

* *Teardown of a replayed stdio server*: its input closed, then a grace, then a
  kill; the model has the server's exit.
* *Command line, npm packaging, wire helpers*: flags, wiring, archives,
  stateless text conversions.
* *Rendering*: what `view.go` draws and what `exporter.go` writes; both copy
  fields of the store's views into text, and nothing that has a history depends
  on them.
* *Tables*: the schema linter, the list of deprecated features, the methods and
  fields of each revision.  A model of them would restate them.
* *Encoding*: JSON, SSE lines, spans and scrapes appear as the records they
  carry, unless a property is about their bytes (`WrapConfig`).
* *Real time*: timers that may fire, instants only where durations are compared.

A component with status `partly` in `PROJECT.json` says in its note which
operations are left out.
