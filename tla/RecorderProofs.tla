----------------------------- MODULE RecorderProofs -----------------------------
(***************************************************************************)
(* Theorems about Recorder for any number of places.                       *)
(*                                                                         *)
(* The argument: a place between emitted and next is held by one pump or   *)
(* is settled, never both, so each is emitted or passed over once and in   *)
(* order (Places).  What was emitted is what was forwarded and not empty,  *)
(* and a line's cause was forwarded before the line took its place, so its *)
(* place is lower and its turn came before (Capture).  Once the server's   *)
(* pumps are done their last place lies below what flush waits for         *)
(* (Flushing).                                                             *)
(***************************************************************************)
EXTENDS Recorder, TLAPS

Lines == forwarded \ blank

(* Who holds which place, and which are settled. *)
Places ==
  /\ 1 <= emitted /\ emitted <= next
  /\ \A p \in Pump : pc[p] \in {"forward", "settle"} <=> held[p] # NoPlace
  /\ \A p \in Pump : held[p] # NoPlace =>
       /\ emitted <= held[p] /\ held[p] < next
       /\ held[p] \notin settled
       /\ from[held[p]] = p
       /\ pc[p] = "forward" => held[p] \notin forwarded
  /\ \A p \in Pump : pc[p] = "emit" <=> mu = p
  /\ \A n \in settled : emitted <= n /\ n < next
  /\ \A n \in settled : n \in let_go <=> n \notin Lines
  /\ \A n \in forwarded \cup blank : 1 <= n /\ n < next
  /\ NothingInTurnWaits

(* What the sink received. *)
Capture ==
  /\ 1 <= Len(log) /\ log[1].place = 0
  /\ \A i \in DOMAIN log : log[i].place < emitted
  /\ \A i \in DOMAIN log : i > 1 => log[i].place \in Lines
  /\ main # "closed" => seq = Len(log)
  /\ \A n \in Place : cause[n] # NoPlace =>
       cause[n] < n /\ n < next /\ cause[n] \in Lines
  /\ InTurn
  /\ PassedOverOnlyWhenLetGo
  /\ AnswerAfterCause

(* What flush waits for. *)
Flushing ==
  /\ target <= next
  /\ main \in {"flush", "closed"} => pc["server"] = "done" /\ pc["stderr"] = "done"
  /\ main = "flush" =>
       \A n \in Lines : from[n] \in {"server", "stderr"} => n < target
  /\ CompleteAtClose

IInv == TypeOK /\ Places /\ Capture /\ Flushing

-----------------------------------------------------------------------------
(* The initial state satisfies the inductive invariant. *)
LEMMA InitIInv == Init => IInv
<1> SUFFICES ASSUME Init PROVE IInv
  OBVIOUS
<1> USE MaxPlacesAssumption
<1>1. TypeOK
  <2>1. log \in Seq(Frame)
    <3>1. [place |-> 0, seq |-> 1] \in Frame
      BY DEF Frame, Place
    <3> QED BY <3>1 DEF Init
  <2>2. /\ pc \in [Pump -> {"read", "forward", "tail", "settle", "emit", "done"}]
        /\ held \in [Pump -> Place \cup {NoPlace}]
        /\ from \in [Place -> Pump \cup {Nobody}]
        /\ cause \in [Place -> Place \cup {NoPlace}]
    BY DEF Init
  <2>3. /\ last \subseteq Pump /\ settled \subseteq Place /\ let_go \subseteq settled
        /\ blank \subseteq Place /\ forwarded \subseteq Place
        /\ mu \in Pump \cup {Nobody}
        /\ main \in {"serve", "flush", "closed"}
        /\ timedOut \in BOOLEAN
    BY DEF Init
  <2>4. /\ next \in 0 .. MaxPlaces /\ emitted \in 0 .. MaxPlaces
        /\ seq \in Nat /\ target \in 0 .. MaxPlaces /\ late \in Nat
    BY DEF Init
  <2> QED BY <2>1, <2>2, <2>3, <2>4 DEF TypeOK
<1>2. Places
  BY DEF Init, Places, Lines, NothingInTurnWaits, Place, NoPlace, Pump, Nobody
<1>3. Capture
  BY DEF Init, Capture, Lines, InTurn, PassedOverOnlyWhenLetGo, AnswerAfterCause,
         Recorded, Place, NoPlace, Pump, Nobody
<1>4. Flushing
  BY DEF Init, Flushing, CompleteAtClose, Lines, Place, NoPlace, Pump, Nobody
<1> QED BY <1>1, <1>2, <1>3, <1>4 DEF IInv

(* What the log holds are frames. *)
LEMMA LogElements ==
  TypeOK => \A i \in DOMAIN log : log[i] \in Frame /\ log[i].place \in Place
<1> SUFFICES ASSUME TypeOK, NEW i \in DOMAIN log PROVE log[i] \in Frame /\ log[i].place \in Place
  OBVIOUS
<1>1. log \in Seq(Frame)
  BY DEF TypeOK
<1>2. log[i] \in Frame
  BY <1>1
<1> QED BY <1>2 DEF Frame

(* Every step keeps the types. *)
LEMMA TypeStep == IInv /\ [Next]_vars => TypeOK'
<1> SUFFICES ASSUME IInv, [Next]_vars PROVE TypeOK'
  OBVIOUS
<1> USE MaxPlacesAssumption DEF IInv, vars, pumpVars, recVars, mainVars, sinkVars, history
<1>1. ASSUME NEW p \in Pump, NEW c \in Answerable(p) \cup {NoPlace},
             ReadLine(p, c)
      PROVE  TypeOK'
  BY <1>1 DEF TypeOK, Places, Place, NoPlace, Pump, Nobody, Answerable, ReadLine, Take
<1>2. ASSUME NEW p \in Pump, NEW c \in Answerable(p) \cup {NoPlace},
             TakeTail(p, c)
      PROVE  TypeOK'
  BY <1>2 DEF TypeOK, Places, Place, NoPlace, Pump, Nobody, Answerable, TakeTail, Take
<1>3. ASSUME NEW p \in Pump, ReadBlank(p) PROVE TypeOK'
  BY <1>3 DEF TypeOK, Places, Place, NoPlace, Pump, Nobody, Answerable, ReadBlank, Take
<1>4. ASSUME NEW p \in Pump, Forward(p) PROVE TypeOK'
  <2>1. held[p] \in Place
    BY <1>4 DEF TypeOK, Places, Forward
  <2> QED BY <1>4, <2>1 DEF TypeOK, Forward
<1>5. ASSUME NEW p \in Pump, ForwardFails(p) PROVE TypeOK'
  BY <1>5 DEF TypeOK, Places, Place, NoPlace, Pump, Nobody, Answerable, ForwardFails
<1>6. ASSUME NEW p \in Pump, EndOfInput(p) PROVE TypeOK'
  BY <1>6 DEF TypeOK, Places, Place, NoPlace, Pump, Nobody, Answerable, EndOfInput
<1>7. ASSUME NEW p \in Pump, EndInLine(p) PROVE TypeOK'
  BY <1>7 DEF TypeOK, Places, Place, NoPlace, Pump, Nobody, Answerable, EndInLine
<1>8. ASSUME NEW p \in Pump, Settle(p) PROVE TypeOK'
  <2>1. held[p] \in Place
    BY <1>8 DEF TypeOK, Places, Settle
  <2>2. /\ settled' \subseteq Place /\ let_go' \subseteq settled'
    BY <1>8, <2>1 DEF TypeOK, Settle
  <2>3. /\ held' \in [Pump -> Place \cup {NoPlace}]
        /\ pc' \in [Pump -> {"read", "forward", "tail", "settle", "emit", "done"}]
        /\ mu' \in Pump \cup {Nobody}
    BY <1>8 DEF TypeOK, Settle
  <2> QED BY <1>8, <2>2, <2>3 DEF TypeOK, Settle
<1>9. ASSUME NEW p \in Pump, EmitInTurn(p) PROVE TypeOK'
  <2>1. emitted \in Place /\ emitted + 1 \in 0 .. MaxPlaces
    BY <1>9 DEF TypeOK, Places, EmitInTurn, Turn, Place
  <2>2. settled' \subseteq Place /\ let_go' \subseteq settled'
    BY <1>9 DEF TypeOK, EmitInTurn, Turn, LetGoAfterTurn
  <2>3. seq' \in Nat
    BY <1>9 DEF TypeOK, EmitInTurn, NextSeq
  <2>4. log' \in Seq(Frame) /\ late' \in Nat
    <3>1. [place |-> emitted, seq |-> NextSeq] \in Frame
      BY <2>1, <2>3, <1>9 DEF EmitInTurn, Frame
    <3> QED BY <1>9, <3>1 DEF TypeOK, EmitInTurn, Turn
  <2>5. emitted' \in 0 .. MaxPlaces
    BY <1>9, <2>1 DEF EmitInTurn, Turn
  <2> QED BY <1>9, <2>2, <2>3, <2>4, <2>5 DEF TypeOK, EmitInTurn
<1>10. ASSUME NEW p \in Pump, Unlock(p) PROVE TypeOK'
  BY <1>10 DEF TypeOK, Places, Place, NoPlace, Pump, Nobody, Answerable, Unlock, LoopEnds, Turn
<1>11. CASE StartFlush
  BY <1>11 DEF TypeOK, Places, Place, NoPlace, Pump, Nobody, Answerable, StartFlush, FlushTarget, PumpsAwaited
<1>12. CASE Flushed
  BY <1>12 DEF TypeOK, Places, Place, NoPlace, Pump, Nobody, Answerable, Flushed
<1>13. CASE PatienceEnds
  BY <1>13 DEF TypeOK, Places, Place, NoPlace, Pump, Nobody, Answerable, PatienceEnds
<1>14. CASE UNCHANGED vars
  BY <1>14 DEF TypeOK, Places, Place, NoPlace, Pump, Nobody, Answerable
<1> QED
  BY <1>1, <1>2, <1>3, <1>4, <1>5, <1>6, <1>7, <1>8, <1>9, <1>10, <1>11, <1>12, <1>13, <1>14
  DEF Next

(* Every step keeps each place held by one pump or settled. *)
LEMMA PlacesStep == IInv /\ [Next]_vars => Places'
<1> SUFFICES ASSUME IInv, [Next]_vars PROVE Places'
  OBVIOUS
<1> USE MaxPlacesAssumption DEF IInv, vars, pumpVars, recVars, mainVars, sinkVars, history
<1>1. ASSUME NEW p \in Pump, NEW c \in Answerable(p) \cup {NoPlace},
             ReadLine(p, c)
      PROVE  Places'
  BY SMTT(30), <1>1 DEF TypeOK, Places, NothingInTurnWaits, Lines, Place, NoPlace, Pump, Nobody, Answerable, ReadLine, Take
<1>2. ASSUME NEW p \in Pump, NEW c \in Answerable(p) \cup {NoPlace},
             TakeTail(p, c)
      PROVE  Places'
  BY SMTT(30), <1>2 DEF TypeOK, Places, NothingInTurnWaits, Lines, Place, NoPlace, Pump, Nobody, Answerable, TakeTail, Take
<1>3. ASSUME NEW p \in Pump, ReadBlank(p) PROVE Places'
  BY SMTT(30), <1>3 DEF TypeOK, Places, NothingInTurnWaits, Lines, Place, NoPlace, Pump, Nobody, Answerable, ReadBlank, Take
<1>4. ASSUME NEW p \in Pump, Forward(p) PROVE Places'
  BY <1>4 DEF TypeOK, Places, NothingInTurnWaits, Lines, Place, NoPlace, Pump, Nobody, Answerable, Forward
<1>5. ASSUME NEW p \in Pump, ForwardFails(p) PROVE Places'
  BY <1>5 DEF TypeOK, Places, NothingInTurnWaits, Lines, Place, NoPlace, Pump, Nobody, Answerable, ForwardFails
<1>6. ASSUME NEW p \in Pump, EndOfInput(p) PROVE Places'
  BY <1>6 DEF TypeOK, Places, NothingInTurnWaits, Lines, Place, NoPlace, Pump, Nobody, Answerable, EndOfInput
<1>7. ASSUME NEW p \in Pump, EndInLine(p) PROVE Places'
  BY <1>7 DEF TypeOK, Places, NothingInTurnWaits, Lines, Place, NoPlace, Pump, Nobody, Answerable, EndInLine
<1>8. ASSUME NEW p \in Pump, Settle(p) PROVE Places'
  BY <1>8 DEF TypeOK, Places, NothingInTurnWaits, Lines, Place, NoPlace, Pump, Nobody, Answerable, Settle, Fills
<1>9. ASSUME NEW p \in Pump, EmitInTurn(p) PROVE Places'
  BY SMTT(30), <1>9 DEF TypeOK, Places, NothingInTurnWaits, Lines, Place, NoPlace, Pump, Nobody, Answerable, EmitInTurn, Turn, NextSeq, LetGoAfterTurn
<1>10. ASSUME NEW p \in Pump, Unlock(p) PROVE Places'
  BY <1>10 DEF TypeOK, Places, NothingInTurnWaits, Lines, Place, NoPlace, Pump, Nobody, Answerable, Unlock, LoopEnds, Turn
<1>11. CASE StartFlush
  BY <1>11 DEF TypeOK, Places, NothingInTurnWaits, Lines, Place, NoPlace, Pump, Nobody, Answerable, StartFlush, FlushTarget, PumpsAwaited
<1>12. CASE Flushed
  BY <1>12 DEF TypeOK, Places, NothingInTurnWaits, Lines, Place, NoPlace, Pump, Nobody, Answerable, Flushed
<1>13. CASE PatienceEnds
  BY <1>13 DEF TypeOK, Places, NothingInTurnWaits, Lines, Place, NoPlace, Pump, Nobody, Answerable, PatienceEnds
<1>14. CASE UNCHANGED vars
  BY <1>14 DEF TypeOK, Places, NothingInTurnWaits, Lines, Place, NoPlace, Pump, Nobody, Answerable
<1> QED
  BY <1>1, <1>2, <1>3, <1>4, <1>5, <1>6, <1>7, <1>8, <1>9, <1>10, <1>11, <1>12, <1>13, <1>14
  DEF Next

(* Every step keeps the capture in turn, complete and causal. *)
LEMMA CaptureStep == IInv /\ [Next]_vars => Capture'
<1> SUFFICES ASSUME IInv, [Next]_vars PROVE Capture'
  OBVIOUS
<1> USE MaxPlacesAssumption DEF IInv, vars, pumpVars, recVars, mainVars, sinkVars, history
<1>1. ASSUME NEW p \in Pump, NEW c \in Answerable(p) \cup {NoPlace},
             ReadLine(p, c)
      PROVE  Capture'
  BY <1>1 DEF TypeOK, Places, Lines, Capture, InTurn, PassedOverOnlyWhenLetGo, AnswerAfterCause, Recorded, Place, NoPlace, Pump, Nobody, Answerable, ReadLine, Take
<1>2. ASSUME NEW p \in Pump, NEW c \in Answerable(p) \cup {NoPlace},
             TakeTail(p, c)
      PROVE  Capture'
  BY <1>2 DEF TypeOK, Places, Lines, Capture, InTurn, PassedOverOnlyWhenLetGo, AnswerAfterCause, Recorded, Place, NoPlace, Pump, Nobody, Answerable, TakeTail, Take
<1>3. ASSUME NEW p \in Pump, ReadBlank(p) PROVE Capture'
  <2>1. Lines' = Lines
    BY <1>3 DEF Lines, Places, ReadBlank, TypeOK
  <2>2. /\ \A n \in Place : cause[n] # NoPlace => cause'[n] = cause[n]
        /\ \A n \in Place : cause'[n] # NoPlace => cause'[n] = cause[n]
    BY <1>3 DEF TypeOK, Capture, ReadBlank, Take, Place, NoPlace
  <2>3. /\ next' = next + 1 /\ next \in Nat
        /\ UNCHANGED <<log, emitted, seq, main, late>>
    BY <1>3 DEF TypeOK, ReadBlank, Take
  <2>4. \A i \in DOMAIN log : log[i].place \in Place
    BY LogElements
  <2>5. AnswerAfterCause'
    BY <2>2, <2>3, <2>4 DEF Capture, AnswerAfterCause
  <2>6. \A n \in Place : cause'[n] # NoPlace =>
          cause'[n] < n /\ n < next' /\ cause'[n] \in Lines'
    BY <2>1, <2>2, <2>3 DEF Capture, TypeOK, Place
  <2>7. InTurn' /\ PassedOverOnlyWhenLetGo'
    BY <2>1, <2>3 DEF Capture, InTurn, PassedOverOnlyWhenLetGo, Recorded, Lines
  <2> QED BY <2>1, <2>3, <2>5, <2>6, <2>7 DEF Capture
<1>4. ASSUME NEW p \in Pump, Forward(p) PROVE Capture'
  BY <1>4 DEF TypeOK, Places, Lines, Capture, InTurn, PassedOverOnlyWhenLetGo, AnswerAfterCause, Recorded, Place, NoPlace, Pump, Nobody, Answerable, Forward
<1>5. ASSUME NEW p \in Pump, ForwardFails(p) PROVE Capture'
  BY <1>5 DEF TypeOK, Places, Lines, Capture, InTurn, PassedOverOnlyWhenLetGo, AnswerAfterCause, Recorded, Place, NoPlace, Pump, Nobody, Answerable, ForwardFails
<1>6. ASSUME NEW p \in Pump, EndOfInput(p) PROVE Capture'
  BY <1>6 DEF TypeOK, Places, Lines, Capture, InTurn, PassedOverOnlyWhenLetGo, AnswerAfterCause, Recorded, Place, NoPlace, Pump, Nobody, Answerable, EndOfInput
<1>7. ASSUME NEW p \in Pump, EndInLine(p) PROVE Capture'
  BY <1>7 DEF TypeOK, Places, Lines, Capture, InTurn, PassedOverOnlyWhenLetGo, AnswerAfterCause, Recorded, Place, NoPlace, Pump, Nobody, Answerable, EndInLine
<1>8. ASSUME NEW p \in Pump, Settle(p) PROVE Capture'
  BY <1>8 DEF TypeOK, Places, Lines, Capture, InTurn, PassedOverOnlyWhenLetGo, AnswerAfterCause, Recorded, Place, NoPlace, Pump, Nobody, Answerable, Settle, Fills
<1>9. ASSUME NEW p \in Pump, EmitInTurn(p) PROVE Capture'
  <2>1. emitted \in settled /\ emitted \in Place /\ emitted' = emitted + 1
    BY <1>9 DEF TypeOK, EmitInTurn, Turn
  <2>2. UNCHANGED <<main, next, cause, Lines>>
    BY <1>9 DEF EmitInTurn, Lines
  <2>3. emitted \in let_go <=> emitted \notin Lines
    BY <2>1 DEF Places
  <2>0. \A i \in DOMAIN log : log[i].place \in Nat
    BY LogElements DEF Place
  <2>4. CASE UNCHANGED log /\ (main = "closed" \/ (emitted \in let_go /\ seq' = seq))
    <3>1. main # "closed" => emitted \notin Lines /\ emitted \notin Recorded
      BY <2>1, <2>3, <2>4 DEF Capture, Recorded, TypeOK, Place
    <3>2. PassedOverOnlyWhenLetGo'
      BY <2>1, <2>2, <2>4, <3>1
      DEF Capture, PassedOverOnlyWhenLetGo, Recorded, Lines, TypeOK
    <3> QED BY SMTT(30), <2>0, <2>1, <2>2, <2>4, <3>2
            DEF Capture, InTurn, AnswerAfterCause, TypeOK, Place, Frame
  <2>5. CASE /\ main # "closed" /\ emitted \notin let_go
             /\ log' = Append(log, [place |-> emitted, seq |-> seq + 1])
             /\ seq' = seq + 1
    <3> DEFINE new == [place |-> emitted, seq |-> seq + 1]
    <3>1. new \in Frame /\ log \in Seq(Frame) /\ seq \in Nat
      BY <2>1 DEF TypeOK, Frame
    <3>2. /\ Len(log') = Len(log) + 1 /\ Len(log) \in Nat
          /\ DOMAIN log = 1 .. Len(log) /\ DOMAIN log' = 1 .. Len(log) + 1
          /\ \A i \in 1 .. Len(log) : log'[i] = log[i]
          /\ log'[Len(log) + 1] = new
      BY <2>5, <3>1
    <3>3. Len(log) = seq /\ new.seq = seq + 1 /\ new.place = emitted
      BY <2>5 DEF Capture
    <3>4. Recorded' = Recorded \cup {emitted}
      BY <3>2, <3>3 DEF Recorded
    <3>5. emitted \in Lines
      BY <2>3, <2>5
    <3>6. InTurn'
      <4> SUFFICES ASSUME NEW i \in 1 .. Len(log) + 1
                   PROVE  /\ log'[i].seq = i
                          /\ \A j \in 1 .. i - 1 : log'[j].place < log'[i].place
        BY <3>2 DEF InTurn
      <4>1. CASE i \in 1 .. Len(log)
        <5>1. /\ log'[i] = log[i]
              /\ \A j \in 1 .. i - 1 : j \in DOMAIN log /\ log'[j] = log[j]
          BY <3>2, <4>1
        <5> QED BY <3>2, <4>1, <5>1 DEF Capture, InTurn
      <4>2. CASE i = Len(log) + 1
        BY <3>1, <3>2, <3>3, <4>2 DEF Capture
      <4> QED BY <3>1, <4>1, <4>2
    <3>7. PassedOverOnlyWhenLetGo'
      BY <2>1, <2>2, <3>4, <3>5 DEF Capture, PassedOverOnlyWhenLetGo, Lines, Place
    <3>8. AnswerAfterCause'
      <4> SUFFICES ASSUME NEW i \in DOMAIN log', cause[log'[i].place] # NoPlace
                   PROVE  \E j \in 1 .. i - 1 : log'[j].place = cause[log'[i].place]
        BY <2>2 DEF AnswerAfterCause
      <4>1. CASE i \in DOMAIN log
        <5>1. PICK j \in 1 .. i - 1 : log[j].place = cause[log[i].place]
          BY <3>2, <4>1 DEF Capture, AnswerAfterCause
        <5> QED BY <3>1, <3>2, <4>1, <5>1
      <4>2. CASE i = Len(log) + 1
        <5>1. cause[emitted] < emitted /\ cause[emitted] \in Lines
          BY <2>1, <3>2, <3>3, <4>2 DEF Capture
        <5>2. cause[emitted] \in 1 .. emitted - 1
          BY <2>1, <5>1 DEF Places, TypeOK, Place, NoPlace, Lines
        <5>3. cause[emitted] \in Recorded
          BY <2>5, <5>1, <5>2 DEF Capture, PassedOverOnlyWhenLetGo, Lines
        <5>4. PICK j \in DOMAIN log : log[j].place = cause[emitted]
          BY <5>3 DEF Recorded
        <5> QED BY <3>1, <3>2, <3>3, <4>2, <5>4
      <4> QED BY <3>1, <3>2, <4>1, <4>2
    <3>9. /\ 1 <= Len(log') /\ log'[1].place = 0
          /\ main' # "closed" => seq' = Len(log')
      BY <2>5, <3>1, <3>2, <3>3 DEF Capture
    <3>10. \A i \in DOMAIN log' :
             log'[i].place < emitted' /\ (i > 1 => log'[i].place \in Lines')
      <4> SUFFICES ASSUME NEW i \in 1 .. Len(log) + 1
                   PROVE  log'[i].place < emitted' /\ (i > 1 => log'[i].place \in Lines)
        BY <2>2, <3>2
      <4>1. CASE i \in 1 .. Len(log)
        <5>1. log'[i] = log[i] /\ log[i].place < emitted /\ log[i].place \in Nat
          BY <2>0, <3>2, <4>1 DEF Capture
        <5>2. i > 1 => log[i].place \in Lines
          BY <3>2, <4>1 DEF Capture
        <5>3. emitted \in Nat
          BY <2>1 DEF Place
        <5> QED BY <2>1, <5>1, <5>2, <5>3
      <4>2. CASE i = Len(log) + 1
        BY <2>1, <3>2, <3>3, <3>5, <4>2 DEF Place
      <4> QED BY <3>1, <4>1, <4>2
    <3> QED BY <2>2, <3>6, <3>7, <3>8, <3>9, <3>10 DEF Capture
  <2> QED BY <1>9, <2>4, <2>5 DEF EmitInTurn, Turn, NextSeq
<1>10. ASSUME NEW p \in Pump, Unlock(p) PROVE Capture'
  BY <1>10 DEF TypeOK, Places, Lines, Capture, InTurn, PassedOverOnlyWhenLetGo, AnswerAfterCause, Recorded, Place, NoPlace, Pump, Nobody, Answerable, Unlock, LoopEnds, Turn
<1>11. CASE StartFlush
  BY <1>11 DEF TypeOK, Places, Lines, Capture, InTurn, PassedOverOnlyWhenLetGo, AnswerAfterCause, Recorded, Place, NoPlace, Pump, Nobody, Answerable, StartFlush, FlushTarget, PumpsAwaited
<1>12. CASE Flushed
  BY <1>12 DEF TypeOK, Places, Lines, Capture, InTurn, PassedOverOnlyWhenLetGo, AnswerAfterCause, Recorded, Place, NoPlace, Pump, Nobody, Answerable, Flushed
<1>13. CASE PatienceEnds
  BY <1>13 DEF TypeOK, Places, Lines, Capture, InTurn, PassedOverOnlyWhenLetGo, AnswerAfterCause, Recorded, Place, NoPlace, Pump, Nobody, Answerable, PatienceEnds
<1>14. CASE UNCHANGED vars
  BY <1>14 DEF TypeOK, Places, Lines, Capture, InTurn, PassedOverOnlyWhenLetGo, AnswerAfterCause, Recorded, Place, NoPlace, Pump, Nobody, Answerable
<1> QED
  BY <1>1, <1>2, <1>3, <1>4, <1>5, <1>6, <1>7, <1>8, <1>9, <1>10, <1>11, <1>12, <1>13, <1>14
  DEF Next

(* Every step keeps what flush waits for above the server's lines. *)
LEMMA FlushingStep == IInv /\ [Next]_vars => Flushing'
<1> SUFFICES ASSUME IInv, [Next]_vars PROVE Flushing'
  OBVIOUS
<1> USE MaxPlacesAssumption DEF IInv, vars, pumpVars, recVars, mainVars, sinkVars, history
<1>1. ASSUME NEW p \in Pump, NEW c \in Answerable(p) \cup {NoPlace},
             ReadLine(p, c)
      PROVE  Flushing'
  BY <1>1 DEF TypeOK, Places, Lines, Capture, PassedOverOnlyWhenLetGo, Recorded, Flushing, CompleteAtClose, Place, NoPlace, Pump, Nobody, Answerable, ReadLine, Take
<1>2. ASSUME NEW p \in Pump, NEW c \in Answerable(p) \cup {NoPlace},
             TakeTail(p, c)
      PROVE  Flushing'
  BY <1>2 DEF TypeOK, Places, Lines, Capture, PassedOverOnlyWhenLetGo, Recorded, Flushing, CompleteAtClose, Place, NoPlace, Pump, Nobody, Answerable, TakeTail, Take
<1>3. ASSUME NEW p \in Pump, ReadBlank(p) PROVE Flushing'
  BY <1>3 DEF TypeOK, Places, Lines, Capture, PassedOverOnlyWhenLetGo, Recorded, Flushing, CompleteAtClose, Place, NoPlace, Pump, Nobody, Answerable, ReadBlank, Take
<1>4. ASSUME NEW p \in Pump, Forward(p) PROVE Flushing'
  BY <1>4 DEF TypeOK, Places, Lines, Capture, PassedOverOnlyWhenLetGo, Recorded, Flushing, CompleteAtClose, Place, NoPlace, Pump, Nobody, Answerable, Forward
<1>5. ASSUME NEW p \in Pump, ForwardFails(p) PROVE Flushing'
  BY <1>5 DEF TypeOK, Places, Lines, Capture, PassedOverOnlyWhenLetGo, Recorded, Flushing, CompleteAtClose, Place, NoPlace, Pump, Nobody, Answerable, ForwardFails
<1>6. ASSUME NEW p \in Pump, EndOfInput(p) PROVE Flushing'
  BY <1>6 DEF TypeOK, Places, Lines, Capture, PassedOverOnlyWhenLetGo, Recorded, Flushing, CompleteAtClose, Place, NoPlace, Pump, Nobody, Answerable, EndOfInput
<1>7. ASSUME NEW p \in Pump, EndInLine(p) PROVE Flushing'
  BY <1>7 DEF TypeOK, Places, Lines, Capture, PassedOverOnlyWhenLetGo, Recorded, Flushing, CompleteAtClose, Place, NoPlace, Pump, Nobody, Answerable, EndInLine
<1>8. ASSUME NEW p \in Pump, Settle(p) PROVE Flushing'
  BY <1>8 DEF TypeOK, Places, Lines, Capture, PassedOverOnlyWhenLetGo, Recorded, Flushing, CompleteAtClose, Place, NoPlace, Pump, Nobody, Answerable, Settle, Fills
<1>9. ASSUME NEW p \in Pump, EmitInTurn(p) PROVE Flushing'
  BY <1>9 DEF TypeOK, Places, Lines, Capture, PassedOverOnlyWhenLetGo, Recorded, Flushing, CompleteAtClose, Place, NoPlace, Pump, Nobody, Answerable, EmitInTurn, Turn, NextSeq, LetGoAfterTurn
<1>10. ASSUME NEW p \in Pump, Unlock(p) PROVE Flushing'
  BY <1>10 DEF TypeOK, Places, Lines, Capture, PassedOverOnlyWhenLetGo, Recorded, Flushing, CompleteAtClose, Place, NoPlace, Pump, Nobody, Answerable, Unlock, LoopEnds, Turn
<1>11. CASE StartFlush
  BY <1>11 DEF TypeOK, Places, Lines, Capture, PassedOverOnlyWhenLetGo, Recorded, Flushing, CompleteAtClose, Place, NoPlace, Pump, Nobody, Answerable, StartFlush, FlushTarget, PumpsAwaited
<1>12. CASE Flushed
  BY <1>12 DEF TypeOK, Places, Lines, Capture, PassedOverOnlyWhenLetGo, Recorded, Flushing, CompleteAtClose, Place, NoPlace, Pump, Nobody, Answerable, Flushed
<1>13. CASE PatienceEnds
  BY <1>13 DEF TypeOK, Places, Lines, Capture, PassedOverOnlyWhenLetGo, Recorded, Flushing, CompleteAtClose, Place, NoPlace, Pump, Nobody, Answerable, PatienceEnds
<1>14. CASE UNCHANGED vars
  BY <1>14 DEF Flushing, CompleteAtClose, Lines, Recorded
<1> QED
  BY <1>1, <1>2, <1>3, <1>4, <1>5, <1>6, <1>7, <1>8, <1>9, <1>10, <1>11, <1>12, <1>13, <1>14
  DEF Next

-----------------------------------------------------------------------------
(* The inductive invariant holds in every reachable state. *)
THEOREM Invariance == Spec => []IInv
<1>1. IInv /\ [Next]_vars => IInv'
  BY TypeStep, PlacesStep, CaptureStep, FlushingStep DEF IInv
<1> QED BY InitIInv, <1>1, PTL DEF Spec

(* The recorder's counters, its map and the pumps' places keep their types. *)
THEOREM TypeCorrect == Spec => []TypeOK
<1>1. IInv => TypeOK
  BY DEF IInv
<1> QED BY Invariance, <1>1, PTL

(* Frames reach the sink in the order of their places, numbered without a gap. *)
THEOREM FramesInTurn == Spec => []InTurn
<1>1. IInv => InTurn
  BY DEF IInv, Capture
<1> QED BY Invariance, <1>1, PTL

(* No recorded answer precedes the recorded line it answers. *)
THEOREM AnswersFollowCauses == Spec => []AnswerAfterCause
<1>1. IInv => AnswerAfterCause
  BY DEF IInv, Capture
<1> QED BY Invariance, <1>1, PTL

(* A place is passed over exactly when its line was empty or not forwarded. *)
THEOREM NoForwardedLineSkipped == Spec => []PassedOverOnlyWhenLetGo
<1>1. IInv => PassedOverOnlyWhenLetGo
  BY DEF IInv, Capture
<1> QED BY Invariance, <1>1, PTL

(* Between two calls of settle nothing whose turn it is is held back. *)
THEOREM NothingHeldBack == Spec => []NothingInTurnWaits
<1>1. IInv => NothingInTurnWaits
  BY DEF IInv, Places
<1> QED BY Invariance, <1>1, PTL

(* A flush that did not time out leaves no server line out of the capture. *)
THEOREM FlushIsComplete == Spec => []CompleteAtClose
<1>1. IInv => CompleteAtClose
  BY DEF IInv, Flushing
<1> QED BY Invariance, <1>1, PTL
-----------------------------------------------------------------------------
(* The capture as CausalCapture sees it: the places in the log, less the meta. *)
Shown == [i \in 1 .. Len(log) - 1 |-> log[i + 1].place]

(* Every step of the recorder is a step of the causal capture or changes nothing
   it can see. *)
LEMMA StepRefines == IInv /\ IInv' /\ [Next]_vars => [Causal!Next]_Causal!vars
<1> SUFFICES ASSUME IInv, IInv', [Next]_vars PROVE [Causal!Next]_Causal!vars
  OBVIOUS
<1> USE MaxPlacesAssumption DEF pumpVars, recVars, mainVars, sinkVars, history
<1>1. ASSUME UNCHANGED <<Lines, cause, log>> PROVE [Causal!Next]_Causal!vars
  BY <1>1 DEF Causal!vars, Lines
<1>2. ASSUME NEW p \in Pump, NEW c \in Answerable(p) \cup {NoPlace}, ReadLine(p, c)
      PROVE  [Causal!Next]_Causal!vars
  <2>1. next \in Place /\ next \notin Lines /\ c \in Lines \cup {NoPlace}
    BY <1>2 DEF IInv, TypeOK, Places, Lines, ReadLine, Take, Place, Answerable
  <2>2. Causal!Compose(next, c)
    BY <1>2, <2>1 DEF Causal!Compose, ReadLine, Take, Lines
  <2>3. c \in Place \cup {NoPlace}
    BY <2>1 DEF IInv, TypeOK, Lines
  <2> QED BY <2>1, <2>2, <2>3 DEF Causal!Next
<1>3. ASSUME NEW p \in Pump, NEW c \in Answerable(p) \cup {NoPlace}, TakeTail(p, c)
      PROVE  [Causal!Next]_Causal!vars
  <2>1. next \in Place /\ next \notin Lines /\ c \in Lines \cup {NoPlace}
    BY <1>3 DEF IInv, TypeOK, Places, Lines, TakeTail, Take, Place, Answerable
  <2>2. next \notin blank
    BY DEF IInv, TypeOK, Places
  <2>3. Causal!ComposeAndCross(next, c)
    BY <1>3, <2>1, <2>2 DEF Causal!ComposeAndCross, TakeTail, Take, Lines
  <2>4. c \in Place \cup {NoPlace}
    BY <2>1 DEF IInv, TypeOK, Lines
  <2> QED BY <2>1, <2>3, <2>4 DEF Causal!Next
<1>4. ASSUME NEW p \in Pump, ReadBlank(p) PROVE [Causal!Next]_Causal!vars
  <2>1. next \in Place /\ next \notin forwarded
    BY <1>4 DEF IInv, TypeOK, Places, ReadBlank, Take, Place
  <2>2. Causal!Compose(next, NoPlace)
    BY <1>4, <2>1 DEF Causal!Compose, ReadBlank, Take
  <2> QED BY <2>1, <2>2 DEF Causal!Next
<1>5. ASSUME NEW p \in Pump, Forward(p) PROVE [Causal!Next]_Causal!vars
  <2>1. held[p] \in Place /\ held[p] \notin forwarded
    BY <1>5 DEF IInv, TypeOK, Places, Forward
  <2>2. CASE held[p] \in blank
    <3>1. UNCHANGED <<Lines, cause, log>>
      BY <1>5, <2>2 DEF Forward, Lines
    <3> QED BY <3>1, <1>1
  <2>3. CASE held[p] \notin blank
    <3>1. Causal!Cross(held[p])
      BY <1>5, <2>1, <2>3 DEF Causal!Cross, Forward
    <3> QED BY <2>1, <3>1 DEF Causal!Next
  <2> QED BY <2>2, <2>3
<1>6. ASSUME NEW p \in Pump, EmitInTurn(p) PROVE [Causal!Next]_Causal!vars
  <2>1. CASE UNCHANGED log
    BY <1>1, <1>6, <2>1 DEF EmitInTurn, Lines
  <2>2. CASE /\ main # "closed" /\ emitted \notin let_go
             /\ log' = Append(log, [place |-> emitted, seq |-> NextSeq])
    <3>1. /\ emitted \in Place /\ emitted \in Lines /\ emitted \in settled
          /\ UNCHANGED <<Lines, cause, forwarded, blank>>
      BY <1>6, <2>2 DEF IInv, TypeOK, Places, EmitInTurn, Turn, Lines
    <3>2. log \in Seq(Frame) /\ [place |-> emitted, seq |-> NextSeq] \in Frame
      BY <1>6, <2>2, <3>1 DEF IInv, TypeOK, EmitInTurn, Frame, NextSeq
    <3>3. /\ Len(log) \in Nat /\ 1 <= Len(log) /\ Len(log') = Len(log) + 1
          /\ \A i \in 1 .. Len(log) : log'[i] = log[i]
          /\ log'[Len(log) + 1].place = emitted
      BY <2>2, <3>2 DEF IInv, Capture
    <3>4. Shown \in Seq(Place) /\ Len(Shown) = Len(log) - 1
      <4>1. \A i \in 1 .. Len(log) - 1 : log[i + 1].place \in Place
        BY <3>3, LogElements DEF IInv
      <4> QED BY <3>3, <4>1 DEF Shown
    <3>5. Shown' = Append(Shown, emitted)
      BY <3>1, <3>3, <3>4 DEF Shown
    <3>6. Causal!Captured = {log[i].place : i \in 2 .. Len(log)}
      <4>1. Causal!Captured = {log[i + 1].place : i \in 1 .. Len(log) - 1}
        BY DEF Causal!Captured
      <4>2. \A j \in 2 .. Len(log) : j - 1 \in 1 .. Len(log) - 1 /\ (j - 1) + 1 = j
        BY <3>3
      <4>3. \A i \in 1 .. Len(log) - 1 : i + 1 \in 2 .. Len(log)
        BY <3>3
      <4> QED BY <4>1, <4>2, <4>3
    <3>7. emitted \notin Causal!Captured
      BY <3>3, <3>6, LogElements DEF IInv, Capture, Place
    <3>8. cause[emitted] \in Causal!Captured \cup {NoPlace}
      <4> SUFFICES ASSUME cause[emitted] # NoPlace
                   PROVE  \E j \in 2 .. Len(log) : log[j].place = cause[emitted]
        BY <3>6
      <4>1. PICK j \in 1 .. Len(log') - 1 : log'[j].place = cause[emitted]
        BY <3>1, <3>3 DEF IInv, Capture, AnswerAfterCause
      <4>2. cause[emitted] >= 1
        BY <3>1 DEF IInv, TypeOK, Capture, Places, Lines
      <4> QED BY <3>3, <4>1, <4>2 DEF IInv, Capture
    <3>9. PICK x \in Place : x = emitted
      BY <3>1
    <3>10. Causal!Record(x)
      BY <3>1, <3>5, <3>7, <3>8, <3>9 DEF Causal!Record, Shown, Lines
    <3>11. Causal!Next
      BY <3>10 DEF Causal!Next
    <3> QED BY <3>11
  <2> QED BY <1>6, <2>1, <2>2 DEF EmitInTurn, Turn
<1>7. ASSUME NEW p \in Pump,
             ForwardFails(p) \/ EndOfInput(p) \/ EndInLine(p) \/ Settle(p) \/ Unlock(p)
      PROVE  UNCHANGED <<Lines, cause, log>>
  BY <1>7 DEF ForwardFails, EndOfInput, EndInLine, Settle, Unlock, Lines
<1>8. ASSUME StartFlush \/ Flushed \/ PatienceEnds \/ UNCHANGED vars
      PROVE  UNCHANGED <<Lines, cause, log>>
  BY <1>8 DEF StartFlush, Flushed, PatienceEnds, Lines, vars
<1> QED BY <1>1, <1>2, <1>3, <1>4, <1>5, <1>6, <1>7, <1>8 DEF Next

(* The recorder implements the causal capture. *)
THEOREM RefinesCausalCapture == Spec => CapturesCausally
<1>1. Init => Causal!Init
  BY MaxPlacesAssumption DEF Init, Causal!Init
<1> QED BY Invariance, StepRefines, <1>1, PTL DEF CapturesCausally, Causal!Spec, Spec
=============================================================================
