------------------------------ MODULE BoundedStore ------------------------------
(***************************************************************************)
(* The live store's memory: NewBounded keeps at most PayloadLimit bytes of  *)
(* observed bodies and FrameLimit frames, across every session a hub        *)
(* carries.  appendEvent counts a frame in, then releases the oldest bodies *)
(* and drops the oldest frames; the tool summary must not notice.           *)
(*                                                                         *)
(* phase is where Ingest is while it holds the store's lock: "idle" when    *)
(* nobody does, else the loop of appendEvent it runs.  What the frames say  *)
(* of calls is CallStore's business: here a call only opens, waits for its  *)
(* client, is cancelled and answered late, settles, and has a size.  at[s]  *)
(* are the results that reached each call, which no state of the store is   *)
(* computed from.                                                           *)
(***************************************************************************)
EXTENDS Integers, Sequences, FiniteSets, SequencesExt, Functions

CONSTANTS
  Session,
  PayloadLimit,     \* NewBounded's bodyBytes, zero for no limit
  FrameLimit,       \* NewBounded's frames, zero for no limit
  Sizes,            \* what a result may weigh
  AwaitingKept,     \* maxAwaiting: operations that await their retry
  MaxFrames,        \* bound: frames ingested
  MaxTime           \* bound: time stamps

ASSUME BoundedStoreAssumption ==
  /\ IsFiniteSet(Session)
  /\ PayloadLimit \in Nat /\ FrameLimit \in Nat /\ AwaitingKept \in Nat \ {0}
  /\ Sizes \subseteq Nat /\ MaxFrames \in Nat /\ MaxTime \in Nat

VARIABLES
  sessions,      \* by id; Unknown when the store has none
  order,         \* session ids, first seen first
  payloadBytes, frames,
  phase, ingested
boundVars == <<sessions, order, payloadBytes, frames, phase, ingested>>

Unknown == [events |-> <<>>, calls |-> <<>>, evictCursor |-> 0, bodyBytes |-> 0, dropped |-> 0,
            toolStats |-> [calls |-> 0, pending |-> 0, bytes |-> 0], last |-> 1, at |-> <<>>]
(* A parked call awaits its client's retry; retired, it no longer can.  kept: sess.calls finds it;
   unseen: it settled after its request frame had left, or by a frame that does not point at it;
   missed: an answer came after the store had forgotten it, which the store does not know. *)
NewCall == [state |-> "pending", parked |-> FALSE, retired |-> FALSE, kept |-> TRUE, params |-> 1,
            result |-> 0, releasedResultBytes |-> 0, unseen |-> FALSE, late |-> FALSE, missed |-> FALSE]

BoundInit ==
  /\ sessions = [s \in Session |-> Unknown] /\ order = <<>>
  /\ payloadBytes = 0 /\ frames = 0 /\ phase = "idle" /\ ingested = 0

-----------------------------------------------------------------------------
(* What a frame weighs, and letting go of it. *)

BodyWeight(sess, ev) ==
  ev.raw + IF ev.call = 0 THEN 0
           ELSE CASE ev.kind = "request"  -> sess.calls[ev.call].params
                  [] ev.kind = "response" -> sess.calls[ev.call].result
                  [] OTHER                -> 0

ReleaseBody(sess, i) ==
  LET ev == sess.events[i]
  IN  [sess EXCEPT !.events[i].raw = 0, !.events[i].released = TRUE,
         !.calls = [c \in DOMAIN @ |->
            CASE c = ev.call /\ ev.kind = "request"  -> [@[c] EXCEPT !.params = 0]
              [] c = ev.call /\ ev.kind = "response" ->
                   [@[c] EXCEPT !.releasedResultBytes = sess.calls[c].result, !.result = 0]
              [] OTHER -> @[c]]]

(* Of the sessions among the candidates the one whose next frame is the oldest; of several, the one
   the store saw first. *)
Oldest(s, candidates, stamp) ==
  /\ s \in candidates
  /\ \A t \in candidates :
       \/ stamp[s] < stamp[t]
       \/ stamp[s] = stamp[t] /\ IndexFirstSubSeq(<<s>>, order) <= IndexFirstSubSeq(<<t>>, order)

Retained == {s \in Session : sessions[s].evictCursor < Len(sessions[s].events)}
OldestRetained(s) ==
  Oldest(s, Retained, [t \in Retained |-> sessions[t].events[sessions[t].evictCursor + 1].ts])

Holding == {s \in Session : sessions[s].events # <<>>}
OldestSession(s) == Oldest(s, Holding, [t \in Holding |-> sessions[t].events[1].ts])

(* The next frame of the session that weighs anything; the cursor passes it and all before it. *)
NextBody(sess) ==
  LET heavy == {i \in sess.evictCursor + 1 .. Len(sess.events) : BodyWeight(sess, sess.events[i]) > 0}
  IN  IF heavy = {} THEN 0 ELSE CHOOSE i \in heavy : \A j \in heavy : i <= j

Releases ==
  /\ phase = "bodies"
  /\ PayloadLimit > 0 /\ payloadBytes > PayloadLimit /\ Retained # {}
  /\ \E s \in Session :
       LET sess == sessions[s]
           i    == NextBody(sess)
           n    == IF i = 0 THEN 0 ELSE BodyWeight(sess, sess.events[i])
       IN
         /\ OldestRetained(s)
         /\ sessions' = [sessions EXCEPT ![s] =
              IF i = 0 THEN [sess EXCEPT !.evictCursor = Len(sess.events)]
              ELSE [ReleaseBody(sess, i) EXCEPT !.evictCursor = i, !.bodyBytes = @ - n]]
         /\ payloadBytes' = payloadBytes - n
  /\ UNCHANGED <<order, frames, phase, ingested>>

BodiesFit ==
  /\ phase = "bodies" /\ ~(PayloadLimit > 0 /\ payloadBytes > PayloadLimit /\ Retained # {})
  /\ phase' = "frames"
  /\ UNCHANGED <<sessions, order, payloadBytes, frames, ingested>>

-----------------------------------------------------------------------------
(* The tool summary: over the frames still held, and over each frame as it leaves. *)

FoldToolCall(stats, sess, ev) ==
  IF ev.kind # "request" \/ ev.call = 0 \/ ev.continues THEN stats
  ELSE LET c == sess.calls[ev.call]
           n == IF c.result > c.releasedResultBytes THEN c.result ELSE c.releasedResultBytes
       IN  IF c.state = "pending" THEN [stats EXCEPT !.calls = @ + 1, !.pending = @ + 1]
           ELSE IF c.state = "cancelled" /\ ~c.late THEN [stats EXCEPT !.calls = @ + 1]
           ELSE [stats EXCEPT !.calls = @ + 1, !.bytes = @ + n]

ToolSummary(sess) ==
  FoldLeft(LAMBDA stats, ev : FoldToolCall(stats, sess, ev), sess.toolStats, sess.events)

(* Faulty variant: what a frame says of a call leaves with it. *)
FoldsNothing(sess, ev) == sess.toolStats

Folded(sess, ev) == FoldToolCall(sess.toolStats, sess, ev)

(* The call goes with its frame once nothing can still come of it. *)
LetsGo(sess, ev) ==
  [c \in DOMAIN sess.calls |->
     IF c = ev.call /\ (sess.calls[c].retired \/ sess.calls[c].state # "pending")
     THEN [sess.calls[c] EXCEPT !.kept = FALSE] ELSE sess.calls[c]]

DropOldestFrame ==
  /\ phase = "frames" /\ FrameLimit > 0 /\ frames > FrameLimit /\ Holding # {}
  /\ \E s \in Session :
       LET sess == sessions[s]
           gone == [ev |-> sess.events[1], weight |-> BodyWeight(sess, sess.events[1])]
       IN
         /\ OldestSession(s)
         /\ sessions' = [sessions EXCEPT ![s] =
              [sess EXCEPT !.events = Tail(@), !.dropped = @ + 1, !.bodyBytes = @ - gone.weight,
                 !.toolStats = Folded(sess, gone.ev), !.calls = LetsGo(sess, gone.ev),
                 !.evictCursor = IF @ > 0 THEN @ - 1 ELSE 0]]
         /\ payloadBytes' = payloadBytes - gone.weight
  /\ frames' = frames - 1
  /\ UNCHANGED <<order, phase, ingested>>

FramesFit ==
  /\ phase = "frames" /\ ~(FrameLimit > 0 /\ frames > FrameLimit /\ Holding # {})
  /\ phase' = "idle"
  /\ UNCHANGED <<sessions, order, payloadBytes, frames, ingested>>

-----------------------------------------------------------------------------
(* Frames. *)

Frame(kind, c, continues) ==
  [kind |-> kind, call |-> c, continues |-> continues, raw |-> 1, released |-> FALSE, ts |-> 0]

(* appendEvent up to its loops, once the call is as the frame left it.  A session's stamps only rise;
   those of two shims need not arrive in order. *)
AppendEvent(s, sess, frame) ==
  /\ phase = "idle" /\ ingested < MaxFrames
  /\ \E ts \in sess.last .. MaxTime :
       LET ev == [frame EXCEPT !.ts = ts]
           n  == BodyWeight(sess, ev)
       IN  /\ sessions' = [sessions EXCEPT ![s] =
                [sess EXCEPT !.events = Append(@, ev), !.bodyBytes = @ + n, !.last = ts]]
           /\ payloadBytes' = payloadBytes + n
  /\ order' = IF s \in ToSet(order) THEN order ELSE Append(order, s)
  /\ frames' = frames + 1 /\ phase' = "bodies" /\ ingested' = ingested + 1

Pending(sess) == {c \in DOMAIN sess.calls : sess.calls[c].kept /\ sess.calls[c].state = "pending"}
Shown(sess, c) == \E i \in DOMAIN sess.events :
  sess.events[i].kind = "request" /\ sess.events[i].call = c /\ ~sess.events[i].continues

(* The call as a frame settled it, and what the server gave it. *)
Settled(sess, c, state, size, pointed) ==
  [sess EXCEPT !.calls[c] = [@ EXCEPT !.state = state, !.parked = FALSE, !.result = size,
                               !.unseen = ~Shown(sess, c) \/ ~pointed],
     !.at[c] = Append(@, size)]

Requests(s) ==
  LET sess == [sessions[s] EXCEPT !.calls = Append(@, NewCall), !.at = Append(@, <<>>)]
  IN  AppendEvent(s, sess, Frame("request", Len(sess.calls), FALSE))

Answers(s) ==
  \E c \in Pending(sessions[s]), size \in Sizes :
    AppendEvent(s, Settled(sessions[s], c, "completed", size, TRUE), Frame("response", c, FALSE))

(* An answer to a settled call points at it and changes nothing of it. *)
Repeats(s) ==
  \E c \in DOMAIN sessions[s].calls :
    /\ sessions[s].calls[c].kept
    /\ sessions[s].calls[c].state \in {"completed", "failed"} \/ sessions[s].calls[c].late
    /\ AppendEvent(s, [sessions[s] EXCEPT !.at[c] = Append(@, 0)], Frame("response", c, FALSE))

(* An InputRequiredResult: the call is parked, and of too many parked the oldest is retired. *)
Asks(s) ==
  \E c \in Pending(sessions[s]), size \in Sizes :
    LET sess   == [sessions[s] EXCEPT !.calls[c].result = size, !.calls[c].parked = TRUE,
                     !.at[c] = Append(@, size)]
        parked == {d \in Pending(sess) : sess.calls[d].parked /\ ~sess.calls[d].retired}
        retire == IF Cardinality(parked) <= AwaitingKept THEN {}
                  ELSE {CHOOSE d \in parked : \A e \in parked : d <= e}
    IN  AppendEvent(s, [sess EXCEPT !.calls = [d \in DOMAIN @ |->
                          IF d \in retire THEN [@[d] EXCEPT !.retired = TRUE] ELSE @[d]]],
                    Frame("response", c, FALSE))

Retries(s) ==
  \E c \in Pending(sessions[s]) :
    /\ sessions[s].calls[c].parked /\ ~sessions[s].calls[c].retired
    /\ AppendEvent(s, [sessions[s] EXCEPT !.calls[c].parked = FALSE, !.at[c] = Append(@, 0)],
                   Frame("request", c, TRUE))

(* The client gives the call up. *)
GivenUp(sess, c) ==
  [sess EXCEPT !.calls[c] = [@ EXCEPT !.state = "cancelled", !.parked = FALSE, !.unseen = ~Shown(sess, c)]]

Cancels(s) ==
  \E c \in Pending(sessions[s]) :
    AppendEvent(s, GivenUp(sessions[s], c), Frame("notification", c, FALSE))

(* The server answers it all the same: the answer is the call's, which stays cancelled, or, when the
   store no longer has the call, a frame about nothing. *)
AnswersLate(s) ==
  \E c \in DOMAIN sessions[s].calls, size \in Sizes \cup {0} :
    LET sess == sessions[s] IN
    /\ sess.calls[c].state = "cancelled" /\ ~sess.calls[c].late /\ ~sess.calls[c].missed
    /\ \/ /\ sess.calls[c].kept
          /\ AppendEvent(s, [sess EXCEPT !.calls[c].late = TRUE, !.calls[c].result = size,
                                         !.at[c] = Append(@, size)],
                         Frame("response", c, FALSE))
       \/ /\ ~sess.calls[c].kept
          /\ AppendEvent(s, [sess EXCEPT !.calls[c].missed = TRUE], Frame("response", 0, FALSE))

(* A frame that is about a call without pointing at it: a failed exchange, or the notification that
   ends a task with its result. *)
EndsElsewhere(s) ==
  \E c \in Pending(sessions[s]), size \in Sizes \cup {0} :
    AppendEvent(s, Settled(sessions[s], c, "failed", size, FALSE), Frame("transport", 0, FALSE))

Notifies(s) == AppendEvent(s, sessions[s], Frame("notification", 0, FALSE))

GivenBack(s) == [bytes |-> sessions[s].bodyBytes, frames |-> Len(sessions[s].events)]

Delete(s) ==
  /\ phase = "idle" /\ s \in ToSet(order)
  /\ payloadBytes' = payloadBytes - GivenBack(s).bytes /\ frames' = frames - GivenBack(s).frames
  /\ sessions' = [sessions EXCEPT ![s] = Unknown]
  /\ order' = SelectSeq(order, LAMBDA t : t # s)
  /\ UNCHANGED <<phase, ingested>>

BoundNext ==
  \/ Releases \/ BodiesFit \/ DropOldestFrame \/ FramesFit
  \/ \E s \in Session :
       \/ Requests(s) \/ Answers(s) \/ Repeats(s) \/ Asks(s) \/ Retries(s) \/ Cancels(s)
       \/ AnswersLate(s) \/ EndsElsewhere(s) \/ Notifies(s) \/ Delete(s)

BoundSpec == BoundInit /\ [][BoundNext]_boundVars

-----------------------------------------------------------------------------
(* A frame leaves the store within its limits, over the byte budget only with nothing left to
   release, and between two frames the counters are the sums they stand for (appendEvent, Delete). *)
WithinLimits ==
  /\ phase = "frames" /\ PayloadLimit > 0 => payloadBytes <= PayloadLimit \/ Retained = {}
  /\ phase = "idle" =>
    /\ FrameLimit > 0 => frames <= FrameLimit
    /\ frames = FoldFunction(+, 0, [s \in Session |-> Len(sessions[s].events)])
    /\ payloadBytes = FoldFunction(+, 0, [s \in Session |-> sessions[s].bodyBytes])
    /\ \A s \in Session : sessions[s].evictCursor \in 0 .. Len(sessions[s].events)

(* A session whose calls were each answered at most once, by a frame that names them. *)
Plain(sess) == \A c \in DOMAIN sess.calls : Len(sess.at[c]) <= 1 /\ ~sess.calls[c].unseen

(* Its answer reached the call: as its completion, or after the client gave it up. *)
Landed(call) == call.state = "completed" \/ call.late

(* The tool summary is the one an unbounded store gives: every call counted and, of calls answered
   once, every byte, an answer after the cancellation included.  The one answer it loses is that of a
   call cancelled and forgotten, and a call is forgotten only once its request frame has left
   (foldInto, dropOldestFrame, answerCall). *)
SummaryExact ==
  \A s \in Session :
    LET sess == sessions[s]
        sum  == ToolSummary(sess)
    IN  /\ sum.calls = Len(sess.calls)
        /\ Plain(sess) =>
             /\ sum.pending = Cardinality({c \in DOMAIN sess.calls : sess.calls[c].state = "pending"})
             /\ sum.bytes = FoldFunction(+, 0, [c \in DOMAIN sess.calls |->
                  IF Landed(sess.calls[c]) THEN sess.at[c][1] ELSE 0])
        /\ \A c \in DOMAIN sess.calls : sess.calls[c].missed => ~Shown(sess, c)

(* A settled call no frame points at is forgotten, so that the map of calls is bounded by the frames,
   unless it settled with no frame of its own left to leave (dropOldestFrame). *)
CallsLeaveToo ==
  \A s \in Session : \A c \in DOMAIN sessions[s].calls :
    LET call == sessions[s].calls[c] IN
    call.kept /\ call.state # "pending" /\ ~call.unseen =>
       \E i \in DOMAIN sessions[s].events : sessions[s].events[i].call = c

(* The store stays within its limits while frames and calls come and go, and what it answers from a
   summary is what the dropped frames said (evict, releaseBody, foldInto). *)
MemoryExact == WithinLimits /\ SummaryExact /\ CallsLeaveToo

(* With every body released nothing weighs on the budget ("payloadBytes is what those bodies
   currently weigh").  Does not hold: see README. *)
BudgetIsHeld ==
  phase = "idle" /\ (\A s \in Session : \A i \in DOMAIN sessions[s].events : sessions[s].events[i].released)
    => payloadBytes = 0

(* No answer is lost on the summary (NewBounded: "the whole tool summary stay exact").  Does not hold
   of a call cancelled, forgotten and then answered: see README. *)
EveryAnswerCounts ==
  \A s \in Session : \A c \in DOMAIN sessions[s].calls : ~sessions[s].calls[c].missed
=============================================================================
