----------------------------------- MODULE Hub -----------------------------------
(***************************************************************************)
(* The collector of internal/hub/hub.go: Run backfills the saved session   *)
(* logs, then accepts shims, one goroutine each, until its context is      *)
(* cancelled.  Every envelope passes the gate of emitFrom, a high-water    *)
(* mark of Seq per session, and reaches the handler outside the lock.      *)
(*                                                                         *)
(* Sessions are numbered in the order of their logs' modification times.   *)
(* The marks are kept with the order in which they were last touched, which *)
(* is all sweepSeen reads of the touch times.                              *)
(***************************************************************************)
EXTENDS Integers, FiniteSets, SequencesExt

CONSTANTS Frames,         \* bound: Frames[s], how many frames session s has
          Shims,          \* the sessions whose shim is still running
          BackfillLimit,  \* Options.BackfillLimit, 0 for all logs
          SeenCap         \* seenCap

ASSUME HubAssumption ==
  /\ Frames \in Seq(Nat \ {0}) /\ Shims \subseteq DOMAIN Frames
  /\ BackfillLimit \in Nat /\ SeenCap \in Nat /\ SeenCap >= 3

Sessions == Len(Frames)
Session  == 1 .. Sessions
FrameNo  == UNION {1 .. Frames[s] : s \in Session}
None     == 0
NoEnv   == [session |-> None, seq |-> None]
Envelope == [session : Session, seq : FrameNo]

(* Who calls emitFrom: Run itself while it backfills, then one goroutine for
   each connected shim. *)
Backfiller == 0
Source     == {Backfiller} \cup Session

VARIABLES
  disk,       \* disk[s]: the frames the saved log of s holds when it is read
  queue,      \* queue[s]: the frames the shim of s still has to send
  shim,       \* shim[s]: the shim's end of its connection
  main,       \* where Run is
  files,      \* the logs still to replay
  rest,       \* the frames of the log being replayed still to emit
  accepted,   \* the connection Accept returned last
  conns,      \* the connections Run would hang up on
  hungUp,     \* the connections the hub closed
  goroutine,  \* goroutine[s]: where handleConn of s is
  ctx,        \* the context is cancelled
  canceller,  \* where the goroutine that waits for it is
  closed,     \* closed, the flag under connMu
  carried,    \* carried[x]: the envelope source x is handing on
  marks,      \* marks[s]: h.seen[s].seq, 0 for no entry
  recency,    \* the sessions in h.seen, least recently touched first
  swept,      \* history: the sessions sweepSeen evicted
  passed,     \* history: the envelopes the gate let through
  refused,    \* history: the envelopes it turned away
  handled     \* history: handled[s]: the frames of s the handler got, in order

lifeVars == <<main, accepted, conns, hungUp, ctx, canceller, closed>>
seenVars == <<marks, recency, swept, passed, refused>>
vars == <<disk, queue, shim, files, rest, goroutine, carried, handled,
          lifeVars, seenVars>>

TypeOK ==
  /\ disk \in [Session -> SUBSET FrameNo]
  /\ queue \in [Session -> SUBSET FrameNo]
  /\ shim \in [Session -> {"out", "dialled", "open"}]
  /\ main \in {"backfill", "accept", "accepted", "wait", "returned"}
  /\ files \subseteq Session
  /\ rest \subseteq Envelope
  /\ accepted \in Session \cup {None}
  /\ conns \subseteq Session /\ hungUp \subseteq Session
  /\ goroutine \in [Session -> {"none", "decode", "gate", "handle"}]
  /\ ctx \in BOOLEAN /\ closed \in BOOLEAN
  /\ canceller \in {"waiting", "listenerClosed", "done"}
  /\ carried \in [Source -> Envelope \cup {NoEnv}]
  /\ marks \in [Session -> FrameNo \cup {0}]
  /\ swept \subseteq Session
  /\ recency \in Seq(Session) /\ Len(recency) <= SeenCap
  /\ \A s \in Session : marks[s] # 0 <=> \E i \in DOMAIN recency : recency[i] = s
  /\ passed \subseteq Envelope /\ refused \subseteq Envelope
  /\ handled \in [Session -> Seq(FrameNo)]

Least(S)  == CHOOSE n \in S : \A m \in S : n <= m

(* backfill: the newest BackfillLimit logs. *)
Chosen == IF BackfillLimit > 0
          THEN {s \in Session : s > Sessions - BackfillLimit} ELSE Session

(* A log and a shim's buffer each hold some of a session's frames: either may
   have dropped any of them, and neither may have got the latest yet. *)
Init ==
  /\ disk \in [Session -> SUBSET FrameNo]
  /\ queue \in [Session -> SUBSET FrameNo]
  /\ \A s \in Session : disk[s] \cup queue[s] \subseteq 1 .. Frames[s]
  /\ \A s \in Session \ Shims : queue[s] = {}
  /\ shim = [s \in Session |-> "out"]
  /\ main = "backfill"
  /\ files = Chosen
  /\ rest = {}
  /\ accepted = None
  /\ conns = {} /\ hungUp = {}
  /\ goroutine = [s \in Session |-> "none"]
  /\ ctx = FALSE /\ closed = FALSE /\ canceller = "waiting"
  /\ carried = [x \in Source |-> NoEnv]
  /\ marks = [s \in Session |-> 0]
  /\ recency = <<>>
  /\ swept = {} /\ passed = {} /\ refused = {}
  /\ handled = [s \in Session |-> <<>>]

-----------------------------------------------------------------------------
(* sweepSeen: the least recently touched quarter goes. *)
Sweep(r) == IF Len(r) > SeenCap THEN SubSeq(r, Len(r) \div 4 + 1, Len(r)) ELSE r

Kept(r, s) == \E i \in DOMAIN r : r[i] = s

Touch(r, s) == Append(IF Kept(r, s) THEN RemoveAt(r, CHOOSE i \in DOMAIN r : r[i] = s) ELSE r, s)

(* Faulty variant: a Seq equal to the mark passes. *)
SeenBelow(e) == e.seq < marks[e.session]

Seen(e) == e.seq <= marks[e.session]

(* emitFrom up to its unlock, called by source x. *)
Gate(x, e) ==
  IF Seen(e)
  THEN /\ refused' = refused \cup {e}
       /\ UNCHANGED <<marks, recency, swept, passed, carried>>
  ELSE /\ recency' = Sweep(Touch(recency, e.session))
       /\ LET gone == {s \in Session : marks[s] # 0 /\ ~Kept(recency', s)}
          IN  /\ marks' = [s \in Session |-> IF s \in gone THEN 0
                                             ELSE IF s = e.session THEN e.seq
                                             ELSE marks[s]]
              /\ swept' = swept \cup gone
       /\ passed' = passed \cup {e}
       /\ carried' = [carried EXCEPT ![x] = e]
       /\ UNCHANGED refused

(* emitFrom after it: the handler gets the envelope. *)
Hand(x) ==
  /\ carried[x] # NoEnv
  /\ handled' = [handled EXCEPT ![carried[x].session] = Append(@, carried[x].seq)]
  /\ carried' = [carried EXCEPT ![x] = NoEnv]

-----------------------------------------------------------------------------
(* backfill turns to the next log, the least recently modified first, unless
   the context was cancelled. *)
OpenLog ==
  /\ carried[Backfiller] = NoEnv /\ rest = {}
  /\ files # {} /\ ~ctx
  /\ files' = files \ {Least(files)}
  /\ rest' = {[session |-> Least(files), seq |-> n] : n \in disk[Least(files)]}
  /\ UNCHANGED <<disk, queue, shim, goroutine, carried, handled, lifeVars, seenVars>>

(* replayFile emits the log's frames in order. *)
ReplayFrame ==
  /\ carried[Backfiller] = NoEnv
  /\ \E e \in rest : /\ \A f \in rest : e.seq <= f.seq
                     /\ Gate(Backfiller, e)
                     /\ rest' = rest \ {e}
  /\ UNCHANGED <<disk, queue, shim, files, goroutine, handled, lifeVars>>

HandReplayed ==
  /\ Hand(Backfiller)
  /\ UNCHANGED <<disk, queue, shim, files, rest, goroutine, lifeVars, seenVars>>

(* Faulty variant: Run accepts while logs are still being replayed. *)
BackfillAnyTime == TRUE

BackfillOver == rest = {} /\ (files = {} \/ ctx)

StartAccepting ==
  /\ main = "backfill"
  /\ carried[Backfiller] = NoEnv
  /\ BackfillOver
  /\ main' = "accept"
  /\ UNCHANGED <<disk, queue, shim, files, rest, goroutine, carried, handled,
                 accepted, conns, hungUp, ctx, canceller, closed, seenVars>>

-----------------------------------------------------------------------------
(* A shim dials; the kernel completes that while the listener is open. *)
Dial(s) ==
  /\ s \in Shims
  /\ shim[s] = "out" /\ canceller = "waiting" /\ goroutine[s] = "none"
  /\ s \notin hungUp
  /\ shim' = [shim EXCEPT ![s] = "dialled"]
  /\ UNCHANGED <<disk, queue, files, rest, goroutine, carried, handled,
                 lifeVars, seenVars>>

Accept(s) ==
  /\ main = "accept"
  /\ shim[s] = "dialled" /\ canceller = "waiting"
  /\ accepted' = s
  /\ main' = "accepted"
  /\ shim' = [shim EXCEPT ![s] = "open"]
  /\ UNCHANGED <<disk, queue, files, rest, goroutine, carried, handled, conns,
                 hungUp, ctx, canceller, closed, seenVars>>

(* Accept fails once the listener is closed, which only follows the context. *)
AcceptFails ==
  /\ main = "accept"
  /\ canceller # "waiting"
  /\ main' = "wait"
  /\ UNCHANGED <<disk, queue, shim, files, rest, goroutine, carried, handled,
                 accepted, conns, hungUp, ctx, canceller, closed, seenVars>>

(* Faulty variant: the flag is not read again under connMu. *)
NeverTooLate == FALSE

TooLate == closed

(* Under connMu: the connection is registered and served. *)
Register ==
  /\ main = "accepted" /\ ~TooLate
  /\ conns' = conns \cup {accepted}
  /\ goroutine' = [goroutine EXCEPT ![accepted] = "decode"]
  /\ accepted' = None
  /\ main' = "accept"
  /\ UNCHANGED <<disk, queue, shim, files, rest, carried, handled, hungUp, ctx,
                 canceller, closed, seenVars>>

(* The cancellation landed between Accept and here. *)
Discard ==
  /\ main = "accepted" /\ TooLate
  /\ hungUp' = hungUp \cup {accepted}
  /\ accepted' = None
  /\ main' = "wait"
  /\ UNCHANGED <<disk, queue, shim, files, rest, goroutine, carried, handled,
                 conns, ctx, canceller, closed, seenVars>>

(* wg.Wait: every handleConn returned. *)
Return ==
  /\ main = "wait"
  /\ \A s \in Session : goroutine[s] = "none"
  /\ main' = "returned"
  /\ UNCHANGED <<disk, queue, shim, files, rest, goroutine, carried, handled,
                 accepted, conns, hungUp, ctx, canceller, closed, seenVars>>

-----------------------------------------------------------------------------
(* handleConn decodes the shim's next envelope and passes the gate.  What was
   read before the hub hung up may still be decoded. *)
Receive(s) ==
  /\ goroutine[s] = "decode"
  /\ queue[s] # {} /\ carried[s] = NoEnv
  /\ queue' = [queue EXCEPT ![s] = @ \ {Least(@)}]
  /\ Gate(s, [session |-> s, seq |-> Least(queue[s])])
  /\ UNCHANGED <<disk, shim, files, rest, goroutine, handled, lifeVars>>

HandReceived(s) ==
  /\ Hand(s)
  /\ UNCHANGED <<disk, queue, shim, files, rest, goroutine, lifeVars, seenVars>>

DecodeFails(s) == shim[s] = "out" \/ s \in hungUp

(* Decode fails: the shim is gone or the hub hung up. *)
EndConn(s) ==
  /\ goroutine[s] = "decode" /\ carried[s] = NoEnv
  /\ DecodeFails(s)
  /\ conns' = conns \ {s}
  /\ goroutine' = [goroutine EXCEPT ![s] = "none"]
  /\ UNCHANGED <<disk, queue, shim, files, rest, carried, handled, main,
                 accepted, hungUp, ctx, canceller, closed, seenVars>>

(* A shim that has sent what it had may end.  One that ends earlier is a shim
   whose queue was shorter. *)
ShimEnds(s) ==
  /\ shim[s] = "open" /\ queue[s] = {}
  /\ shim' = [shim EXCEPT ![s] = "out"]
  /\ UNCHANGED <<disk, queue, files, rest, goroutine, carried, handled,
                 lifeVars, seenVars>>

-----------------------------------------------------------------------------
Cancel ==
  /\ ~ctx
  /\ ctx' = TRUE
  /\ UNCHANGED <<disk, queue, shim, files, rest, goroutine, carried, handled,
                 main, accepted, conns, hungUp, canceller, closed, seenVars>>

(* The goroutine that waits for the context exists once backfill is over. *)
CloseListener ==
  /\ ctx /\ main # "backfill" /\ canceller = "waiting"
  /\ canceller' = "listenerClosed"
  /\ UNCHANGED <<disk, queue, shim, files, rest, goroutine, carried, handled,
                 main, accepted, conns, hungUp, ctx, closed, seenVars>>

HangUpOn == conns

HangUp ==
  /\ canceller = "listenerClosed"
  /\ closed' = TRUE
  /\ hungUp' = hungUp \cup HangUpOn
  /\ canceller' = "done"
  /\ UNCHANGED <<disk, queue, shim, files, rest, goroutine, carried, handled,
                 main, accepted, conns, ctx, seenVars>>

RunStep == \/ OpenLog \/ ReplayFrame \/ HandReplayed \/ StartAccepting
           \/ (\E s \in Session : Accept(s)) \/ AcceptFails \/ Register
           \/ Discard \/ Return
ConnStep(s) == Receive(s) \/ HandReceived(s) \/ EndConn(s)

Next ==
  \/ OpenLog \/ ReplayFrame \/ HandReplayed \/ StartAccepting
  \/ AcceptFails \/ Register \/ Discard \/ Return
  \/ \E s \in Session : \/ Dial(s) \/ Accept(s) \/ ShimEnds(s)
                        \/ Receive(s) \/ HandReceived(s) \/ EndConn(s)
  \/ Cancel \/ CloseListener \/ HangUp

Spec == Init /\ [][Next]_vars

(* The hub's goroutines run; nothing is asked of the shims or of the user. *)
FairSpec == /\ Spec
            /\ WF_vars(RunStep)
            /\ WF_vars(CloseListener \/ HangUp)
            /\ \A s \in Session : WF_vars(ConnStep(s))

-----------------------------------------------------------------------------
Ascending(s) == \A i \in 1 .. Len(handled[s]) - 1 : handled[s][i] < handled[s][i + 1]

(* The handler gets each frame of a session at most once and in Seq order,
   from the log and the live stream together, unless the dedup map had to
   forget the session meanwhile (emitFrom, sweepSeen). *)
OnceInOrder == \A s \in Session \ swept : Ascending(s)

(* The package's claim: "the rest of the system never sees a frame twice".
   Does not hold: see README. *)
NeverTwice == \A s \in Session : Ascending(s)

(* The gate turns away a frame it has not let through only if the session's log
   lacks that frame and holds a later one.  No live frame overtakes the history
   in the log and makes the gate drop that history (Run backfills first). *)
OnlySeenRefused ==
  \A e \in refused \ passed :
    e.seq \notin disk[e.session] /\ \E n \in disk[e.session] : n > e.seq

(* Once the context is cancelled Run returns, whatever the connected shims do
   and whichever connection was being accepted meanwhile. *)
ShutsDown == ctx ~> main = "returned"

(* What a connected shim sends is handed on or was seen before, until the hub
   is told to stop. *)
LiveFramesHandled ==
  \A s \in Session, n \in FrameNo :
    n \in queue[s] /\ goroutine[s] # "none"
      ~> \/ \E i \in DOMAIN handled[s] : handled[s][i] = n
         \/ [session |-> s, seq |-> n] \in refused
         \/ ctx
=============================================================================
