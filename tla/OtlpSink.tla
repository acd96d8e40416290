--------------------------------- MODULE OtlpSink ---------------------------------
(***************************************************************************)
(* The live feed of finished calls to an OTLP collector                    *)
(* (internal/otlpsink/sink.go): a bounded queue, one goroutine that        *)
(* correlates, waits a moment for the answer to a cancelled call and posts *)
(* with retries, and a Close that gives it half a second.                  *)
(***************************************************************************)
EXTENDS Correlator

CONSTANTS
  Limit,       \* cfg.Buffer: the queue, the operations remembered as sent, the cancelled ones waiting
  MaxAttempts, \* maxDeliveryAttempts
  MaxFrames    \* bound: frames observed

(* sinkFrames: as long as the goroutine's own store holds every frame, it forgets no call. *)
StoreFrames == 8192

ASSUME OtlpAssumption == Limit \in Nat \ {0} /\ MaxFrames \in 0 .. StoreFrames

VARIABLES
  traffic,   \* environment: the session's calls as the wire has them
  observed,  \* environment: frames observed so far
  feed,      \* s.ch
  shut,      \* s.closed, and s.ch with it
  closer,    \* where the caller of Close is
  stopped,   \* the context of run is cancelled
  overflow,  \* s.dropped by Emit
  at,        \* where run is
  known,     \* run's store
  awaiting,  \* cancelled calls held for an answer already on its way
  posted,    \* recent, oldest first
  todo,      \* of awaiting, those a loop over the map has still to send
  span,      \* what deliver is posting, and its attempt
  sent,      \* history: operations handed to deliver, in order
  givenUp    \* s.dropped by deliver
environment == <<traffic, observed>>
closing == <<shut, closer, stopped>>
otlpVars == <<environment, closing, feed, overflow, at, known, awaiting, posted, todo, span, sent, givenUp>>

NoSpan == [op |-> 0, attempt |-> 0]

OtlpInit ==
  /\ traffic = <<>> /\ observed = 0 /\ feed = <<>> /\ overflow = 0
  /\ shut = FALSE /\ closer = "out" /\ stopped = FALSE
  /\ at = "select" /\ known = <<>> /\ awaiting = {} /\ posted = <<>> /\ todo = {} /\ span = NoSpan
  /\ sent = <<>> /\ givenUp = 0

(* What the call was named and how it failed is for the span to say; an id used twice makes two calls. *)
Plain(f) ==
  IF f.kind = "request" THEN f.name = "t" /\ Latest(traffic, f.id) = 0 ELSE f.kind = "cancel" \/ f.result \in {"ok", "task"}

(* Emit: a late one, after Close, is dropped like one too many. *)
Observes ==
  /\ observed < MaxFrames /\ observed' = observed + 1
  /\ \E f \in {g \in Frames(traffic) : Plain(g)} :
       /\ traffic' = Ingest(traffic, f)
       /\ IF ~shut /\ Len(feed) < Limit THEN feed' = Append(feed, f) /\ UNCHANGED overflow
          ELSE overflow' = overflow + 1 /\ UNCHANGED feed
  /\ UNCHANGED <<closing, at, known, awaiting, posted, todo, span, sent, givenUp>>

-----------------------------------------------------------------------------
(* run. *)

Holding == {a.op : a \in awaiting}
Waiting(op, i) == [op |-> i, answered |-> op.late, due |-> FALSE]
Remembered(i) == (IF Len(posted) >= Limit THEN Tail(posted) ELSE posted) \o <<i>>

(* send: an operation not remembered is posted; the loop it came from goes on after. *)
Send(i, answered) ==
  IF Contains(posted, i) THEN at' = "loop" /\ UNCHANGED <<posted, span, sent>>
  ELSE /\ posted' = Remembered(i) /\ span' = [op |-> i, attempt |-> 1] /\ at' = "post"
       /\ sent' = Append(sent, [op |-> i, answered |-> answered])

Passes == UNCHANGED <<posted, span, sent, at>>

(* Faulty variant: a cancelled call that waits is left to wait. *)
LeavesWaiting(i) ==
  IF i \in Holding THEN UNCHANGED awaiting /\ Passes ELSE UNCHANGED awaiting /\ Send(i, TRUE)

(* An answer ends the wait. *)
Answered(i) == awaiting' = {a \in awaiting : a.op # i} /\ Send(i, TRUE)

Cancelled(op, i) ==
  IF i \in Holding \/ Contains(posted, i) THEN UNCHANGED awaiting /\ Passes
  ELSE IF Cardinality(awaiting) >= Limit THEN UNCHANGED awaiting /\ Send(i, op.late)
  ELSE awaiting' = awaiting \cup {Waiting(op, i)} /\ Passes

TakesFrame ==
  /\ at = "select" /\ feed # <<>> /\ feed' = Tail(feed)
  /\ LET f  == Head(feed)
         i  == EventCall(known, f)
     IN  /\ known' = Ingest(known, f)
         /\ IF i = 0 \/ ~Done(known'[i]) THEN UNCHANGED awaiting /\ Passes
            ELSE IF f.kind = "response" THEN Answered(i)
            ELSE IF known'[i].state = "cancelled" THEN Cancelled(known'[i], i)
            ELSE UNCHANGED awaiting /\ Passes
  /\ UNCHANGED <<environment, closing, overflow, todo, givenUp>>

GraceEnds ==
  /\ \E a \in awaiting : ~a.due /\ awaiting' = (awaiting \ {a}) \cup {[a EXCEPT !.due = TRUE]}
  /\ UNCHANGED <<environment, closing, feed, overflow, at, known, posted, todo, span, sent, givenUp>>

(* The ticker's loop over awaiting, and the one when the queue is closed and empty; the goroutine ends
   when that leaves nothing. *)
Ticks ==
  /\ at = "select" /\ \E a \in awaiting : a.due
  /\ todo' = {a.op : a \in {b \in awaiting : b.due}} /\ at' = "loop"
  /\ UNCHANGED <<environment, closing, feed, overflow, known, awaiting, posted, span, sent, givenUp>>

(* Faulty variant: no answer is coming, so what waits for one is let go. *)
FlushesNone == {}

Flushed == Holding

Drained ==
  /\ at = "select" /\ shut /\ feed = <<>> /\ todo' = Flushed /\ at' = IF Flushed = {} THEN "over" ELSE "loop"
  /\ UNCHANGED <<environment, closing, feed, overflow, known, awaiting, posted, span, sent, givenUp>>

LoopSends ==
  /\ at = "loop" /\ todo # {}
  /\ \E a \in awaiting : a.op \in todo /\ awaiting' = awaiting \ {a} /\ todo' = todo \ {a.op} /\ Send(a.op, a.answered)
  /\ UNCHANGED <<environment, closing, feed, overflow, known, givenUp>>
LoopEnds ==
  /\ at = "loop" /\ todo = {}
  /\ at' = "select"
  /\ UNCHANGED <<environment, closing, feed, overflow, known, awaiting, posted, todo, span, sent, givenUp>>

Delivered == at' = "loop" /\ span' = NoSpan

PostSucceeds ==
  /\ at = "post" /\ Delivered
  /\ UNCHANGED <<environment, closing, feed, overflow, known, awaiting, posted, todo, sent, givenUp>>

Exhausted == span.attempt >= MaxAttempts

PostFails ==
  /\ at = "post"
  /\ CASE stopped -> at' = "over" /\ UNCHANGED <<span, givenUp>>
       [] ~stopped /\ Exhausted -> Delivered /\ givenUp' = givenUp + 1
       [] OTHER -> at' = "backoff" /\ UNCHANGED <<span, givenUp>>
  /\ UNCHANGED <<environment, closing, feed, overflow, known, awaiting, posted, todo, sent>>

(* sleep: both its cases may be ready. *)
BacksOff ==
  /\ at = "backoff"
  /\ \/ at' = "post" /\ span' = [span EXCEPT !.attempt = IF @ < MaxAttempts THEN @ + 1 ELSE @]
     \/ stopped /\ at' = "over" /\ UNCHANGED span
  /\ UNCHANGED <<environment, closing, feed, overflow, known, awaiting, posted, todo, sent, givenUp>>

StopsAtOnce ==
  /\ at = "select" /\ stopped /\ at' = "over"
  /\ UNCHANGED <<environment, closing, feed, overflow, known, awaiting, posted, todo, span, sent, givenUp>>

-----------------------------------------------------------------------------
(* Close. *)

Running == UNCHANGED <<environment, feed, overflow, at, known, awaiting, posted, todo, span, sent, givenUp>>
ShutsFeed     == closer = "out" /\ closer' = "waits" /\ shut' = TRUE /\ UNCHANGED stopped /\ Running
HalfASecond   == closer = "waits" /\ ~stopped /\ stopped' = TRUE /\ UNCHANGED <<shut, closer>> /\ Running
CloserReturns == closer = "waits" /\ at = "over" /\ closer' = "returned" /\ UNCHANGED <<shut, stopped>> /\ Running

Runs == TakesFrame \/ Ticks \/ Drained \/ LoopSends \/ LoopEnds \/ PostSucceeds \/ PostFails \/ BacksOff \/ StopsAtOnce

OtlpNext ==
  \/ Observes \/ GraceEnds \/ ShutsFeed \/ HalfASecond \/ CloserReturns
  \/ TakesFrame \/ Ticks \/ Drained \/ LoopSends \/ LoopEnds \/ PostSucceeds \/ PostFails \/ BacksOff \/ StopsAtOnce

-----------------------------------------------------------------------------
SentOps == {sent[i].op : i \in DOMAIN sent}

(* An operation goes out again only when as many others went out since as the sink remembers, and
   never without an answer the sink had taken in (recent, awaitingCancel). *)
Again(i, j) == sent[i].op = sent[j].op => Cardinality({sent[k].op : k \in i + 1 .. j - 1}) >= Limit
HasAnswer(c) == c.late \/ c.state = "done"
OnceAndWhole ==
  [][sent' # sent =>
       /\ \A i \in DOMAIN sent : Again(i, Len(sent))'
       /\ Last(sent').answered = HasAnswer(known'[Last(sent').op])]_otlpVars

(* Closed in time, the sink has sent every call a response or a cancellation finished: none is left in
   the queue or waiting (Close, run). *)
SettledAreSent ==
  at = "over" /\ ~stopped =>
    feed = <<>> /\ \A i \in DOMAIN known : known[i].state \in {"done", "cancelled"} /\ known[i].taskEnd = Nothing => i \in SentOps

(* "Sink delivers each finished MCP operation to a collector": those a task finished too.  Does not
   hold: see README. *)
FinishedAreSent == at = "over" /\ ~stopped => \A i \in DOMAIN known : known[i].state \in {"done", "cancelled"} => i \in SentOps

(* Whatever the collector does, a finished call goes out while the sink lives and Close returns
   (deliver, sleep). *)
GoesOut ==
  /\ \A i \in 1 .. Cardinality(Ids) :
       (i \in DOMAIN known /\ known[i].state \in {"done", "cancelled"} /\ known[i].taskEnd = Nothing) ~> (i \in SentOps \/ stopped)
  /\ shut ~> closer = "returned"
=============================================================================
