-------------------------------- MODULE Recorder --------------------------------
(***************************************************************************)
(* The stdio shim of internal/proxy/stdio.go: RunStdio, its three pumps    *)
(* and the recorder they share.                                            *)
(*                                                                         *)
(* A pump takes a place in the capture just before it forwards a line, and *)
(* settles the place afterwards: filled with the frame, or dropped when    *)
(* its forward failed or the line was one of the protocol's and empty.     *)
(* Whoever settles a place hands the sink every frame now in turn, holding *)
(* the recorder's mutex.                                                   *)
(* A line is identified with the place it takes.  A place is 0-based, as   *)
(* in the code, so the recorder's three counters mean what they mean there.*)
(*                                                                         *)
(* The process's reads and writes are steps of their own, so that the      *)
(* other peer may answer a line as soon as it was written and before the   *)
(* pump that wrote it has observed it.                                     *)
(***************************************************************************)
EXTENDS Integers, Sequences, FiniteSets

CONSTANT MaxPlaces        \* bound: places handed out in one run

ASSUME MaxPlacesAssumption == MaxPlaces \in Nat \ {0}

Place   == 0 .. MaxPlaces - 1
NoPlace == -1

Pump   == {"client", "server", "stderr"}
Nobody == "nobody"

(* Those that run pumpFrames.  The third runs pumpLines, which records an empty line like any other. *)
FramePumps == {"client", "server"}

(* Whose lines a pump's lines may answer. *)
Peer(p) == CASE p = "client" -> "server"
             [] p = "server" -> "client"
             [] OTHER        -> Nobody

VARIABLES
  pc,          \* pc[p]: where pump p is in its loop
  held,        \* held[p]: the place p took and has not settled, or NoPlace
  last,        \* the pumps that return once they settled what they hold
  next,        \* recorder.next
  emitted,     \* recorder.emitted
  seq,         \* recorder.seq
  settled,     \* the keys of recorder.settled
  let_go,      \* those of them that hold a nil frame
  mu,          \* who holds recorder.mu
  main,        \* where RunStdio itself is
  target,      \* what flush waits for
  timedOut,    \* flush ran out of patience
  log,         \* what the sink received before it was closed
  late,        \* frames handed to the sink after it was closed
  from,        \* history: from[n], the pump that took place n
  cause,       \* history: cause[n], the place of the line that n's line answers
  blank,       \* history: the places of the frame pumps' empty lines
  forwarded    \* history: the places of lines whose bytes reached the peer

pumpVars == <<pc, held, last>>
recVars  == <<next, emitted, seq, settled, let_go>>
mainVars == <<main, target, timedOut>>
sinkVars == <<log, late>>
history  == <<from, cause, blank, forwarded>>
vars     == <<pumpVars, recVars, mu, mainVars, sinkVars, history>>

Frame == [place : Place, seq : Nat]

TypeOK ==
  /\ pc \in [Pump -> {"read", "forward", "tail", "settle", "emit", "done"}]
  /\ held \in [Pump -> Place \cup {NoPlace}]
  /\ last \subseteq Pump
  /\ next \in 0 .. MaxPlaces
  /\ emitted \in 0 .. MaxPlaces
  /\ seq \in Nat
  /\ settled \subseteq Place
  /\ let_go \subseteq settled
  /\ mu \in Pump \cup {Nobody}
  /\ main \in {"serve", "flush", "closed"}
  /\ target \in 0 .. MaxPlaces
  /\ timedOut \in BOOLEAN
  /\ log \in Seq(Frame)
  /\ late \in Nat
  /\ from \in [Place -> Pump \cup {Nobody}]
  /\ cause \in [Place -> Place \cup {NoPlace}]
  /\ blank \subseteq Place
  /\ forwarded \subseteq Place

(* RunStdio records the session meta before any pump starts: place 0, Seq 1. *)
Init ==
  /\ pc = [p \in Pump |-> "read"]
  /\ held = [p \in Pump |-> NoPlace]
  /\ last = {}
  /\ next = 1 /\ emitted = 1 /\ seq = 1
  /\ settled = {} /\ let_go = {}
  /\ mu = Nobody
  /\ main = "serve" /\ target = 0 /\ timedOut = FALSE
  /\ log = <<[place |-> 0, seq |-> 1]>> /\ late = 0
  /\ from = [n \in Place |-> Nobody]
  /\ cause = [n \in Place |-> NoPlace]
  /\ blank = {} /\ forwarded = {}

-----------------------------------------------------------------------------
(* The lines a peer has whole.  An unterminated last line is whole for its
   reader when the stream ends, which is after the pump returned. *)
Answerable(p) ==
  {n \in forwarded \ blank :
      /\ from[n] = Peer(p)
      /\ ~ \E q \in last : held[q] = n}

Room == next + Cardinality({q \in Pump : pc[q] = "tail"}) < MaxPlaces

(* recorder.take, for a line of pump p that answers c. *)
Take(p, c) ==
  /\ mu = Nobody
  /\ next < MaxPlaces
  /\ next' = next + 1
  /\ held' = [held EXCEPT ![p] = next]
  /\ from' = [from EXCEPT ![next] = p]
  /\ cause' = [cause EXCEPT ![next] = c]

(* A pump read the chunk that ends a line and takes the line's place. *)
ReadLine(p, c) ==
  /\ pc[p] = "read"
  /\ Room
  /\ Take(p, c)
  /\ pc' = [pc EXCEPT ![p] = "forward"]
  /\ UNCHANGED <<last, emitted, seq, settled, let_go, mu, mainVars, sinkVars,
                 blank, forwarded>>

(* The same for a line that is only a terminator, where frames are read. *)
ReadBlank(p) ==
  /\ p \in FramePumps
  /\ pc[p] = "read"
  /\ Room
  /\ Take(p, NoPlace)
  /\ blank' = blank \cup {next}
  /\ pc' = [pc EXCEPT ![p] = "forward"]
  /\ UNCHANGED <<last, emitted, seq, settled, let_go, mu, mainVars, sinkVars,
                 forwarded>>

(* dst.Write returned: the other peer has the line. *)
Forward(p) ==
  /\ pc[p] = "forward"
  /\ forwarded' = forwarded \cup {held[p]}
  /\ pc' = [pc EXCEPT ![p] = "settle"]
  /\ UNCHANGED <<held, last, recVars, mu, mainVars, sinkVars, from, cause, blank>>

(* Faulty variant: the place of a line that could not be written is forgotten. *)
ForwardFailsForgets(p) ==
  /\ pc[p] = "forward"
  /\ last' = last \cup {p}
  /\ pc' = [pc EXCEPT ![p] = "done"]
  /\ UNCHANGED <<held, recVars, mu, mainVars, sinkVars, history>>

(* dst.Write failed: the place is dropped and the pump returns. *)
ForwardFails(p) ==
  /\ pc[p] = "forward"
  /\ last' = last \cup {p}
  /\ pc' = [pc EXCEPT ![p] = "settle"]
  /\ UNCHANGED <<held, recVars, mu, mainVars, sinkVars, history>>

(* The source ended, or a chunk that ends no line could not be written. *)
EndOfInput(p) ==
  /\ pc[p] = "read"
  /\ last' = last \cup {p}
  /\ pc' = [pc EXCEPT ![p] = "done"]
  /\ UNCHANGED <<held, recVars, mu, mainVars, sinkVars, history>>

(* The source ended in the middle of a line, whose bytes are already written. *)
EndInLine(p) ==
  /\ pc[p] = "read"
  /\ Room
  /\ last' = last \cup {p}
  /\ pc' = [pc EXCEPT ![p] = "tail"]
  /\ UNCHANGED <<held, recVars, mu, mainVars, sinkVars, history>>

(* That line takes its place only when it is observed. *)
TakeTail(p, c) ==
  /\ pc[p] = "tail"
  /\ Take(p, c)
  /\ forwarded' = forwarded \cup {next}
  /\ pc' = [pc EXCEPT ![p] = "settle"]
  /\ UNCHANGED <<last, emitted, seq, settled, let_go, mu, mainVars, sinkVars, blank>>

-----------------------------------------------------------------------------
(* Faulty variant: a line that was not written is recorded all the same. *)
FillsUnsent(p) == held[p] \notin blank

(* A place is filled when its line was forwarded and is not an empty one where frames were due: an
   empty line of stderr fills its place. *)
Fills(p) == held[p] \in forwarded \ blank

(* recorder.settle takes the mutex and records the outcome: a frame, or nil. *)
Settle(p) ==
  /\ pc[p] = "settle"
  /\ mu = Nobody
  /\ mu' = p
  /\ settled' = settled \cup {held[p]}
  /\ let_go' = IF Fills(p) THEN let_go ELSE let_go \cup {held[p]}
  /\ held' = [held EXCEPT ![p] = NoPlace]
  /\ pc' = [pc EXCEPT ![p] = "emit"]
  /\ UNCHANGED <<last, next, emitted, seq, mainVars, sinkVars, history>>

(* Faulty variant: whatever is settled goes out, in turn or not. *)
OutOfTurn == IF settled = {} THEN emitted
             ELSE CHOOSE n \in settled : \A m \in settled : n <= m

(* The place whose turn it is. *)
Turn == emitted

(* Faulty variant: every place taken uses up a Seq. *)
SeqPerPlace == seq + 1

(* Seq counts the frames, not the places. *)
NextSeq == IF Turn \in let_go THEN seq ELSE seq + 1

LetGoAfterTurn == let_go \ {Turn}

(* One turn of the loop: the place leaves the map, and its frame, if it has
   one, goes to the sink. *)
EmitInTurn(p) ==
  /\ pc[p] = "emit"
  /\ Turn \in settled
  /\ settled' = settled \ {Turn}
  /\ let_go' = LetGoAfterTurn
  /\ emitted' = Turn + 1
  /\ seq' = NextSeq
  /\ \/ Turn \in let_go /\ UNCHANGED sinkVars
     \/ /\ Turn \notin let_go /\ main = "closed"
        /\ late' = late + 1
        /\ UNCHANGED log
     \/ /\ Turn \notin let_go /\ main # "closed"
        /\ log' = Append(log, [place |-> Turn, seq |-> NextSeq])
        /\ UNCHANGED late
  /\ UNCHANGED <<pumpVars, next, mu, mainVars, history>>

(* Faulty variant: the loop ends after any turn. *)
LoopEndsEarly == TRUE

LoopEnds == Turn \notin settled

(* The place in turn is not settled: the loop returns and unlocks. *)
Unlock(p) ==
  /\ pc[p] = "emit"
  /\ LoopEnds
  /\ mu' = Nobody
  /\ pc' = [pc EXCEPT ![p] = IF p \in last THEN "done" ELSE "read"]
  /\ UNCHANGED <<held, last, recVars, mainVars, sinkVars, history>>

-----------------------------------------------------------------------------
(* Faulty variant: flush waits for no place at all. *)
FlushNothing == emitted

PumpsAwaited == {"server", "stderr"}
FlushTarget  == next

(* Both server pumps returned and the server was reaped; flush reads what it
   has to wait for.  The client's pump is not awaited. *)
StartFlush ==
  /\ main = "serve"
  /\ \A p \in PumpsAwaited : pc[p] = "done"
  /\ mu = Nobody
  /\ main' = "flush"
  /\ target' = FlushTarget
  /\ UNCHANGED <<pumpVars, recVars, mu, timedOut, sinkVars, history>>

(* RunStdio returns and its caller closes the sink. *)
Flushed ==
  /\ main = "flush"
  /\ mu = Nobody
  /\ emitted >= target
  /\ main' = "closed"
  /\ UNCHANGED <<pumpVars, recVars, mu, target, timedOut, sinkVars, history>>

PatienceEnds ==
  /\ main = "flush"
  /\ mu = Nobody
  /\ emitted < target
  /\ main' = "closed"
  /\ timedOut' = TRUE
  /\ UNCHANGED <<pumpVars, recVars, mu, target, sinkVars, history>>

Observe(p) == Settle(p) \/ EmitInTurn(p) \/ Unlock(p)

Next ==
  \/ \E p \in Pump :
       \/ \E c \in Answerable(p) \cup {NoPlace} : ReadLine(p, c) \/ TakeTail(p, c)
       \/ ReadBlank(p)
       \/ Forward(p) \/ ForwardFails(p)
       \/ EndOfInput(p) \/ EndInLine(p)
       \/ Settle(p) \/ EmitInTurn(p) \/ Unlock(p)
  \/ StartFlush \/ Flushed \/ PatienceEnds

(* A pump keeps running once it has something to do that no peer can hold up,
   and RunStdio waits with a deadline.  Nothing is assumed of the peers: a
   forward may block for ever and a source may never end. *)
Fairness ==
  /\ \A p \in Pump : /\ WF_vars(Observe(p))
                     /\ WF_vars(\E c \in Answerable(p) \cup {NoPlace} : TakeTail(p, c))
  /\ WF_vars(StartFlush \/ Flushed \/ PatienceEnds)

Spec     == Init /\ [][Next]_vars
FairSpec == Spec /\ Fairness

-----------------------------------------------------------------------------
Recorded == {log[i].place : i \in DOMAIN log}

(* The sink receives frames in the order their places were taken, numbered
   1, 2, 3, ... : a place let go leaves no gap, so that a forward jump in Seq
   always means a lost frame (stdio.go, settle). *)
InTurn ==
  \A i \in DOMAIN log :
    /\ log[i].seq = i
    /\ \A j \in 1 .. i - 1 : log[j].place < log[i].place

(* A recorded answer comes after the recorded line it answers: no capture
   shows a peer answering what it had not been sent (stdio.go, recorder). *)
AnswerAfterCause ==
  \A i \in DOMAIN log :
    LET c == cause[log[i].place]
    IN c # NoPlace => \E j \in 1 .. i - 1 : log[j].place = c

(* While the sink is open, a place is passed over exactly when its line never reached the peer, or was
   an empty one of the protocol's: no other forwarded line is skipped, an empty line of stderr as
   little as a frame (settle, pumpFrames, pumpLines). *)
PassedOverOnlyWhenLetGo ==
  main # "closed" =>
    \A n \in 1 .. emitted - 1 : n \in Recorded <=> n \in forwarded \ blank

(* Nothing whose turn it is waits for another frame to arrive: between two
   calls of settle the next place in turn is unsettled (settle's loop). *)
NothingInTurnWaits == mu = Nobody => emitted \notin settled

(* When flush did not run out of patience, the capture holds every line the
   server wrote to either of its streams, although the client's pump, which
   may still hold an earlier place, is not awaited (RunStdio, flush). *)
CompleteAtClose ==
  main = "closed" /\ ~timedOut =>
    \A n \in forwarded \ blank : from[n] \in {"server", "stderr"} => n \in Recorded

(* Once the server is gone RunStdio returns, even with a client that never
   reads or never sends again. *)
Returns ==
  pc["server"] = "done" /\ pc["stderr"] = "done" ~> main = "closed"

(* Unless some forward blocks for ever, every forwarded line is recorded, or
   the sink was closed first. *)
EveryLineRecorded ==
  (\A p \in Pump : []<>(pc[p] # "forward")) =>
    \A n \in Place :
      n \in forwarded \ blank ~> n \in Recorded \/ main = "closed"

(* The recorder implements the causal capture: the meta frame aside, what the
   sink received is a capture of the lines that crossed. *)
Causal == INSTANCE CausalCapture WITH
  Line    <- Place,
  NoLine  <- NoPlace,
  crossed <- forwarded \ blank,
  cause   <- cause,
  capture <- [i \in 1 .. Len(log) - 1 |-> log[i + 1].place]

CapturesCausally == Causal!Spec

(* Every forwarded line is recorded unless some forward blocks for ever, and RunStdio returns once the
   server is gone even then (RunStdio, pumpFrames). *)
RecordsAndReturns == EveryLineRecorded /\ Returns
=============================================================================
