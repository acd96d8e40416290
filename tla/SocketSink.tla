------------------------------- MODULE SocketSink -------------------------------
(***************************************************************************)
(* The live sink of internal/proxy/socketsink.go: a bounded channel, and   *)
(* one goroutine that dials the hub's socket, writes envelopes to the      *)
(* connection until a write fails, and dials again.                        *)
(*                                                                         *)
(* The hub is the environment: it may listen or not, stop reading, or go   *)
(* away with what is still in the socket's buffer.                         *)
(***************************************************************************)
EXTENDS Integers, Sequences, FiniteSets

CONSTANTS Buffer,      \* capacity of s.ch
          Wire,        \* capacity of the socket's buffer
          MaxEmits     \* bound: Emit calls in one run

ASSUME SocketSinkAssumption ==
  Buffer \in Nat \ {0} /\ Wire \in Nat \ {0} /\ MaxEmits \in Nat

Envelope == 1 .. MaxEmits
None     == 0

VARIABLES
  ch,         \* s.ch
  dropped,    \* s.dropped
  cancelled,  \* the context of run is cancelled
  run,        \* where the goroutine is
  writing,    \* the envelope Encode is writing
  close,      \* where the caller of Close is
  listening,  \* environment: a hub accepts connections
  wire,       \* what the connection holds and the hub has not read
  broken,     \* the hub's end of the connection is gone
  emits,      \* history: Emit calls so far
  lost,       \* history: how many envelopes a broken connection took with it
  got         \* history: what a hub read, in order

vars == <<ch, dropped, cancelled, run, writing, close, listening, wire, broken,
          emits, lost, got>>

TypeOK ==
  /\ ch \in Seq(Envelope) /\ Len(ch) <= Buffer
  /\ dropped \in Nat
  /\ cancelled \in BOOLEAN
  /\ run \in {"dial", "backoff", "select", "write", "done"}
  /\ writing \in Envelope \cup {None}
  /\ close \in {"out", "wait", "returned"}
  /\ listening \in BOOLEAN
  /\ wire \in Seq(Envelope) /\ Len(wire) <= Wire
  /\ broken \in BOOLEAN
  /\ emits \in 0 .. MaxEmits
  /\ lost \in Nat
  /\ got \in Seq(Envelope)

Init ==
  /\ ch = <<>> /\ dropped = 0
  /\ cancelled = FALSE
  /\ run = "dial" /\ writing = None
  /\ close = "out"
  /\ listening = FALSE /\ wire = <<>> /\ broken = FALSE
  /\ emits = 0 /\ lost = 0 /\ got = <<>>

hubVars == <<listening, wire, broken, got>>

-----------------------------------------------------------------------------
(* Faulty variant: the buffer is not bounded. *)
QueuedAnyway == Append(ch, emits + 1)

(* The queue after Emit: a full channel stays as it is. *)
Queued == IF Len(ch) < Buffer THEN Append(ch, emits + 1) ELSE ch

(* Emit: the select queues the envelope or counts it. *)
Emit ==
  /\ emits < MaxEmits
  /\ emits' = emits + 1
  /\ ch' = Queued
  /\ dropped' = IF Len(ch) < Buffer THEN dropped ELSE dropped + 1
  /\ UNCHANGED <<cancelled, run, writing, close, hubVars, lost>>

(* Close cancels the context and waits for the goroutine. *)
Close ==
  /\ close = "out"
  /\ cancelled' = TRUE
  /\ close' = "wait"
  /\ UNCHANGED <<ch, dropped, run, writing, hubVars, emits, lost>>

CloseReturn ==
  /\ close = "wait"
  /\ run = "done"
  /\ close' = "returned"
  /\ UNCHANGED <<ch, dropped, cancelled, run, writing, hubVars, emits, lost>>

-----------------------------------------------------------------------------
(* run: the dial succeeds; a cancelled context fails it. *)
Dialled ==
  /\ run = "dial"
  /\ ~cancelled /\ listening
  /\ run' = "select"
  /\ wire' = <<>> /\ broken' = FALSE
  /\ UNCHANGED <<ch, dropped, cancelled, writing, close, listening, emits, lost, got>>

DialFails ==
  /\ run = "dial"
  /\ cancelled \/ ~listening
  /\ run' = IF cancelled THEN "done" ELSE "backoff"
  /\ UNCHANGED <<ch, dropped, cancelled, writing, close, hubVars, emits, lost>>

(* sleep: the backoff is over, or the context was cancelled meanwhile. *)
Wakes ==
  /\ run = "backoff"
  /\ run' = IF cancelled THEN "done" ELSE "dial"
  /\ UNCHANGED <<ch, dropped, cancelled, writing, close, hubVars, emits, lost>>

(* pump: the select chooses either ready case. *)
PumpTakes ==
  /\ run = "select"
  /\ ch # <<>>
  /\ writing' = Head(ch)
  /\ ch' = Tail(ch)
  /\ run' = "write"
  /\ UNCHANGED <<dropped, cancelled, close, hubVars, emits, lost>>

PumpStops ==
  /\ run = "select"
  /\ cancelled
  /\ run' = "done"
  /\ UNCHANGED <<ch, dropped, cancelled, writing, close, hubVars, emits, lost>>

(* Encode returned: the socket had room.  Nothing else ends a write to a hub
   that does not read, the context least of all. *)
Written ==
  /\ run = "write"
  /\ ~broken /\ Len(wire) < Wire
  /\ wire' = Append(wire, writing)
  /\ writing' = None
  /\ run' = "select"
  /\ UNCHANGED <<ch, dropped, cancelled, close, listening, broken, emits, lost, got>>

(* Faulty variant: the goroutine stops at the first connection that breaks. *)
StopsAfterFailure == "done"

ChAfterFailure == ch
RunAfterFailure == IF cancelled THEN "done" ELSE "dial"

(* Encode failed: the hub went away, and the envelope with it. *)
WriteFails ==
  /\ run = "write"
  /\ broken
  /\ writing' = None
  /\ ch' = ChAfterFailure
  /\ run' = RunAfterFailure
  /\ lost' = lost + 1
  /\ UNCHANGED <<dropped, cancelled, close, hubVars, emits>>

-----------------------------------------------------------------------------
HubStarts == /\ ~listening
             /\ listening' = TRUE
             /\ UNCHANGED <<ch, dropped, cancelled, run, writing, close, wire,
                            broken, emits, lost, got>>

HubReads == /\ wire # <<>> /\ ~broken
            /\ got' = Append(got, Head(wire))
            /\ wire' = Tail(wire)
            /\ UNCHANGED <<ch, dropped, cancelled, run, writing, close,
                           listening, broken, emits, lost>>

(* A connection that ends takes what the hub had not read with it, and the hub
   may be gone altogether. *)
HubStops == /\ listening \/ ~broken
            /\ listening' \in {FALSE, listening}
            /\ broken' = TRUE
            /\ wire' = <<>>
            /\ lost' = lost + Len(wire)
            /\ UNCHANGED <<ch, dropped, cancelled, run, writing, close, emits, got>>

Goroutine == \/ Dialled \/ DialFails \/ Wakes \/ PumpTakes \/ PumpStops
             \/ Written \/ WriteFails

Next == \/ Emit \/ Close \/ CloseReturn
        \/ Dialled \/ DialFails \/ Wakes \/ PumpTakes \/ PumpStops
        \/ Written \/ WriteFails
        \/ HubStarts \/ HubReads \/ HubStops

Spec == Init /\ [][Next]_vars

(* The goroutine runs and Close goes on; the hub owes nothing. *)
FairSpec == Spec /\ WF_vars(Goroutine) /\ WF_vars(CloseReturn)

-----------------------------------------------------------------------------
(* A hub sees each envelope at most once and in the order they were emitted,
   over any number of connections: what a break loses is never sent later
   (pump, run). *)
InOrder == \A i \in 1 .. Len(got) - 1 : got[i] < got[i + 1]

(* What a hub is missing beyond the dropped count is still on its way or was
   lost with a connection: nothing is lost twice, resent or miscounted (Emit,
   pump). *)
Accounted ==
  emits = dropped + lost + Len(ch) + Len(wire) + Len(got)
          + (IF writing = None THEN 0 ELSE 1)

(* A hub that stays up and keeps reading drains the sink, however often an
   earlier one went away: the sink always dials again (run). *)
AlwaysRedials ==
  <>[](listening /\ ~cancelled) /\ []<>(wire = <<>>) => []<>(ch = <<>>)

(* The comment on Close: a late Emit drops into the default case.  Does not hold: see README. *)
LateEmitDropped == [][run = "done" /\ emits' # emits => dropped' = dropped + 1]_vars
=============================================================================
