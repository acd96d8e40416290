--------------------------------- MODULE Metrics ---------------------------------
(***************************************************************************)
(* The counters mcpsnoop serves to Prometheus (internal/metrics): each     *)
(* live frame of a session is counted by what it does to the call it is    *)
(* about, and the calls that may still end are held until they do.         *)
(*                                                                         *)
(* The collector correlates in a store of its own that holds one frame:    *)
(* with every frame the one before it goes, and the call that one was      *)
(* about with it, if it is over.  A call the client cancelled is over, so  *)
(* the server's late answer finds it only in the frame after the           *)
(* cancellation, and not even then if the frame before was about it too.   *)
(*                                                                         *)
(* One session of one server, so a series is named by its tool.  Write     *)
(* reads the counters under the same mutex Observe holds.                  *)
(***************************************************************************)
EXTENDS Correlator

CONSTANTS
  MaxSeries,     \* distinct series before calls are counted under one
  MaxCancelled,  \* cancelled calls held for a late answer
  MaxObserved    \* bound: frames

ASSUME MetricsAssumption == MaxSeries \in Nat /\ MaxCancelled \in Nat \ {0}

OverflowTool == "(over-series-cap)"

VARIABLES
  heard,       \* environment: the session's calls as the wire has them
  calls,       \* the calls c.store has had, as it knew them last
  pointing,    \* the call its only frame is about, 0 for none
  forgotten,   \* calls that are no longer in its map
  live,        \* the backfill is over
  history,     \* how many calls it left behind
  taken,       \* frames primed or observed
  series,      \* counters by tool
  operations,  \* calls counted and not finished: their series, id, and whether a cancellation was seen
  inflight,    \* the open call of an id
  cancelledCalls, \* c.cancelled, oldest first
  prompt,      \* history: the call the last frame cancelled while the frame before was about another, or 0
  missed       \* history: cancelled calls that were answered in any other frame than the next
storeVars   == <<heard, calls, pointing, forgotten, prompt, missed>>
countVars   == <<series, operations, inflight, cancelledCalls>>
metricsVars == <<storeVars, live, history, taken, countVars>>

Counters == {"calls", "tool", "protocol", "count"}
NoSeries == [counter \in Counters |-> 0]

MetricsInit ==
  /\ heard = <<>> /\ calls = <<>> /\ pointing = 0 /\ forgotten = {} /\ prompt = 0 /\ missed = {}
  /\ live = FALSE /\ history = 0 /\ taken = 0
  /\ series = <<>> /\ operations = <<>> /\ inflight = <<>> /\ cancelledCalls = <<>>

Put(f, k, v) == [x \in DOMAIN f \cup {k} |-> IF x = k THEN v ELSE f[x]]
Without(f, k) == Restrict(f, DOMAIN f \ {k})

Bump(counters, label, field) ==
  LET at == IF label \in DOMAIN counters THEN counters[label] ELSE NoSeries
  IN  Put(counters, label, [at EXCEPT ![field] = @ + 1])

(* A label there is no room for is counted under one that always fits. *)
SeriesFor(counters, label) ==
  IF label \in DOMAIN counters \/ Cardinality(DOMAIN counters) < MaxSeries THEN label ELSE OverflowTool

RequestKey(id) == id

(* c is the collector, key a call. *)
Finish(c, key) ==
  LET request == RequestKey(c.operations[key].id)
  IN  [c EXCEPT !.operations = Without(@, key),
                !.inflight = IF request \in DOMAIN @ /\ @[request] = key THEN Without(@, request) ELSE @]

(* Faulty variant: the list is cut and what it held stays. *)
CutsList(c) == IF Len(c.cancelled) <= MaxCancelled THEN c ELSE [c EXCEPT !.cancelled = Tail(@)]

TrimCancelled(c) ==
  LET old == Head(c.cancelled)
  IN  IF Len(c.cancelled) <= MaxCancelled THEN c
      ELSE [(IF old \in DOMAIN c.operations THEN Finish(c, old) ELSE c) EXCEPT !.cancelled = Tail(@)]

(* A request takes the id over from the call that held it, and a tool call starts to count. *)
Begins(c, st, key) ==
  LET call    == st[key]
      request == RequestKey(call.id)
      held    == request \in DOMAIN c.inflight
      free    == CASE held /\ c.inflight[request] \in DOMAIN c.operations -> Finish(c, c.inflight[request])
                   [] held /\ c.inflight[request] \notin DOMAIN c.operations -> [c EXCEPT !.inflight = Without(@, request)]
                   [] OTHER -> c
  IN  IF ~IsTool(call) THEN free
      ELSE [free EXCEPT !.operations = Put(@, key, [tool |-> call.name, id |-> call.id, cancelled |-> FALSE]),
                        !.inflight = Put(@, request, key),
                        !.series = Bump(@, SeriesFor(@, call.name), "calls")]

(* How a call ended, in its series: an error by its kind, and a duration unless there was no answer. *)
Records(counters, call, label) ==
  LET failed == IF call.err = Nothing THEN counters ELSE Bump(counters, label, call.err)
  IN  IF call.state = "superseded" \/ (call.taskEnd = "cancelled" /\ call.err = Nothing) THEN failed
      ELSE Bump(failed, label, "count")

Ends(c, st, key) ==
  LET call == st[key]
      op   == c.operations[key]
  IN  IF call.state = "cancelled" /\ ~call.late
      THEN IF op.cancelled THEN c
           ELSE TrimCancelled([c EXCEPT !.operations[key].cancelled = TRUE, !.cancelled = Append(@, key)])
      ELSE Finish([c EXCEPT !.series = Records(@, call, SeriesFor(@, op.tool))], key)

Collector == [series |-> series, operations |-> operations, inflight |-> inflight, cancelled |-> cancelledCalls]

(* An answer to a call the store has forgotten matches none. *)
Unmatched(f) == f.kind = "response" /\ Latest(calls, f.id) \in forgotten
StoreCall(f) == IF Unmatched(f) THEN 0 ELSE EventCall(calls, f)

(* dropOldestFrame, for a frame about call i that takes the place of the last. *)
Replaces(i) ==
  /\ pointing' = i
  /\ forgotten' = forgotten \cup {j \in {pointing} : j # 0 /\ Done(calls'[j])}

LateAnswers(f) ==
  {j \in DOMAIN heard : f.kind = "response" /\ j = Latest(heard, f.id) /\ heard[j].state = "cancelled" /\ ~heard[j].late}

Stores(f) ==
  /\ heard' = Ingest(heard, f)
  /\ calls' = IF Unmatched(f) THEN calls ELSE Ingest(calls, f)
  /\ Replaces(StoreCall(f))
  /\ prompt' = IF f.kind = "cancel" /\ StoreCall(f) # pointing THEN StoreCall(f) ELSE 0
  /\ missed' = missed \cup (LateAnswers(f) \ {prompt})

Observe(f) ==
  LET key == Max({StoreCall(f), EventTaskCall(f)})
      c   == IF f.kind = "request" THEN Begins(Collector, calls', key) ELSE Collector
      d   == IF key \in DOMAIN c.operations /\ Done(calls'[key]) THEN Ends(c, calls', key) ELSE c
  IN  series' = d.series /\ operations' = d.operations /\ inflight' = d.inflight /\ cancelledCalls' = d.cancelled

Takes == taken < MaxObserved /\ taken' = taken + 1

(* What the log already held says whose answers are to come, and counts for nothing. *)
Primes ==
  /\ ~live /\ Takes /\ \E f \in Frames(heard) : Stores(f)
  /\ UNCHANGED <<live, history, countVars>>
GoesLive ==
  /\ ~live /\ live' = TRUE /\ history' = Len(calls)
  /\ UNCHANGED <<storeVars, taken, countVars>>
ObservesLive(f) == live /\ Takes /\ Stores(f) /\ Observe(f) /\ UNCHANGED <<live, history>>

(* A frame of the session that is about no call, live or of the log. *)
TakesOther ==
  /\ Takes /\ calls' = calls /\ Replaces(0) /\ prompt' = 0
  /\ UNCHANGED <<heard, missed, live, history, countVars>>

MetricsNext == Primes \/ GoesLive \/ TakesOther \/ \E f \in Frames(heard) : ObservesLive(f)

-----------------------------------------------------------------------------
Counted == {i \in DOMAIN calls : live /\ i > history /\ IsTool(calls[i])}
Units(counters, field) == UNION {{t} \X (1 .. counters[t][field]) : t \in DOMAIN counters}
Total(field) == Cardinality(Units(series, field))

(* Each live tool call is counted once, its duration at most once, and its error exactly once, whatever
   order answers, cancellations, task updates and reused ids come in: all but the error that answers a
   call after its cancellation, which counts only in the very next frame, and if the frame before the
   cancellation was about something else (Observe, dropOldestFrame). *)
CountsExact ==
  /\ Total("calls") = Cardinality(Counted)
  /\ \A err \in {"tool", "protocol"} : Total(err) = Cardinality({i \in Counted \ missed : heard[i].err = err})
  /\ \A t \in DOMAIN series : series[t].tool + series[t].protocol <= series[t].count /\ series[t].count <= series[t].calls

(* Only what may still end is held: an open call, or one of the last cancelled ones (finish,
   trimCancelled). *)
HoldsOnlyOpen ==
  \A i \in DOMAIN operations :
    /\ calls[i].state = "pending" \/ (calls[i].state = "cancelled" /\ Contains(cancelledCalls, i))
    /\ RequestKey(calls[i].id) \in DOMAIN inflight
=============================================================================
