---------------------------- MODULE AsyncSinkProofs ----------------------------
(***************************************************************************)
(* Theorems about AsyncSink for any sets of emitters and closers and any   *)
(* buffer.                                                                 *)
(*                                                                         *)
(* The argument: Close publishes closed when no emitter holds the read     *)
(* lock, so from then on no emitter is past its look at closed, nothing is *)
(* queued any more, and what the loop drains afterwards is all there is.   *)
(***************************************************************************)
EXTENDS AsyncSink, FiniteSetTheorems, TLAPS

(* Who is past the look at closed, and what the loop can still find. *)
Closing ==
  /\ sawOpen \subseteq InFlight
  /\ quit = closed
  /\ closed => sawOpen = {}
  /\ writer = "owns" => closed
  /\ loop \in {"drain", "drainEncode", "done"} => closed
  /\ done <=> loop = "done"
  /\ encoding # None <=> loop \in {"encode", "drainEncode"}
  /\ NothingLeftBehind

IInv == TypeOK /\ Closing

(* The initial state satisfies the inductive invariant. *)
LEMMA InitIInv == Init => IInv
<1> SUFFICES ASSUME Init PROVE IInv
  OBVIOUS
<1> USE AsyncSinkAssumption DEF Init, None
<1>1. TypeOK
  <2>1. /\ emitter \in [Emitter -> Envelope \cup {None}]
        /\ closer \in [Closer -> {"out", "once", "wait", "in", "returned"}]
    OBVIOUS
  <2>2. /\ ch \in Seq(Envelope) /\ written \in Seq(Envelope) /\ failed \in Seq(Envelope)
        /\ Len(ch) <= Buffer
    OBVIOUS
  <2>3. /\ writer \in {"none", "pending", "owns"}
        /\ loop \in {"select", "encode", "drain", "drainEncode", "done"}
        /\ closed \in BOOLEAN /\ quit \in BOOLEAN /\ done \in BOOLEAN
        /\ sawOpen \subseteq Emitter
    OBVIOUS
  <2>4. /\ encoding \in Envelope \cup {None}
        /\ dropped \in Nat /\ emits \in 0 .. MaxEmits
    OBVIOUS
  <2> HIDE DEF Init, None
  <2> QED BY <2>1, <2>2, <2>3, <2>4 DEF TypeOK
<1>2. Closing
  BY DEF Closing, NothingLeftBehind, InFlight
<1> QED BY <1>1, <1>2 DEF IInv

(* Every step keeps the types. *)
LEMMA TypeStep == IInv /\ [Next]_vars => TypeOK'
<1> SUFFICES ASSUME IInv, [Next]_vars PROVE TypeOK'
  OBVIOUS
<1> USE AsyncSinkAssumption DEF IInv
<1>1. ASSUME NEW e \in Emitter, EmitLocks(e) PROVE TypeOK'
  BY <1>1 DEF TypeOK, Envelope, None, InFlight, Closing, EmitLocks
<1>2. ASSUME NEW e \in Emitter, EmitRefused(e) PROVE TypeOK'
  BY <1>2 DEF TypeOK, Envelope, None, InFlight, Closing, EmitRefused
<1>3. ASSUME NEW e \in Emitter, EmitFindsClosed(e) PROVE TypeOK'
  BY <1>3 DEF TypeOK, Envelope, None, InFlight, Closing, EmitFindsClosed
<1>4. ASSUME NEW e \in Emitter, EmitFindsOpen(e) PROVE TypeOK'
  BY <1>4 DEF TypeOK, Envelope, None, InFlight, Closing, EmitFindsOpen
<1>5. ASSUME NEW e \in Emitter, EmitSends(e) PROVE TypeOK'
  <2>1. emitter[e] \in Envelope
    BY <1>5 DEF TypeOK, Closing, InFlight, EmitSends
  <2>2. ch' \in Seq(Envelope) /\ Len(ch') <= Buffer
    <3>1. CASE UNCHANGED ch
      BY <3>1 DEF TypeOK
    <3>2. CASE HasRoom /\ ch' = Append(ch, emitter[e])
      BY <2>1, <3>2 DEF TypeOK, HasRoom
    <3> QED BY <1>5, <3>1, <3>2 DEF EmitSends
  <2>3. dropped' \in Nat
    BY <1>5 DEF TypeOK, EmitSends, DropCounted
  <2>4. emitter' \in [Emitter -> Envelope \cup {None}] /\ sawOpen' \subseteq Emitter
    BY <1>5 DEF TypeOK, EmitSends
  <2> QED BY <1>5, <2>2, <2>3, <2>4 DEF TypeOK, EmitSends
<1>6. ASSUME NEW c \in Closer, CloseFirst(c) PROVE TypeOK'
  BY <1>6 DEF TypeOK, Envelope, None, InFlight, Closing, CloseFirst
<1>7. ASSUME NEW c \in Closer, CloseLocks(c) PROVE TypeOK'
  BY <1>7 DEF TypeOK, Envelope, None, InFlight, Closing, CloseLocks, NoReaders
<1>8. ASSUME NEW c \in Closer, CloseUnlocks(c) PROVE TypeOK'
  BY <1>8 DEF TypeOK, Envelope, None, InFlight, Closing, CloseUnlocks
<1>9. ASSUME NEW c \in Closer, CloseAgain(c) PROVE TypeOK'
  BY <1>9 DEF TypeOK, Envelope, None, InFlight, Closing, CloseAgain
<1>10. ASSUME NEW c \in Closer, CloseReturns(c) PROVE TypeOK'
  BY <1>10 DEF TypeOK, Envelope, None, InFlight, Closing, CloseReturns
<1>11. CASE LoopTakes
  BY <1>11 DEF TypeOK, Envelope, None, InFlight, Closing, LoopTakes
<1>12. CASE LoopQuits
  BY <1>12 DEF TypeOK, Envelope, None, InFlight, Closing, LoopQuits
<1>13. CASE LoopEncoded
  <2>1. encoding \in Envelope
    BY <1>13 DEF TypeOK, Closing, LoopEncoded
  <2>2. written' \in Seq(Envelope) /\ failed' \in Seq(Envelope)
    <3>1. CASE written' = Append(written, encoding) /\ UNCHANGED failed
      BY <2>1, <3>1 DEF TypeOK
    <3>2. CASE failed' = Append(failed, encoding) /\ UNCHANGED written
      BY <2>1, <3>2 DEF TypeOK
    <3> QED BY <1>13, <3>1, <3>2 DEF LoopEncoded
  <2>3. /\ loop' \in {"select", "encode", "drain", "drainEncode", "done"}
        /\ encoding' \in Envelope \cup {None}
    BY <1>13 DEF LoopEncoded
  <2> QED BY <1>13, <2>2, <2>3 DEF TypeOK, LoopEncoded
<1>14. CASE LoopDone
  BY <1>14 DEF TypeOK, Envelope, None, InFlight, Closing, LoopDone
<1>15. CASE UNCHANGED vars
  BY <1>15 DEF TypeOK, Envelope, None, InFlight, Closing, vars
<1> QED
  BY <1>1, <1>2, <1>3, <1>4, <1>5, <1>6, <1>7, <1>8, <1>9, <1>10, <1>11, <1>12, <1>13, <1>14, <1>15
  DEF Next

(* Once closed, nothing more is queued. *)
LEMMA ClosingStep == IInv /\ [Next]_vars => Closing'
<1> SUFFICES ASSUME IInv, [Next]_vars PROVE Closing'
  OBVIOUS
<1> USE AsyncSinkAssumption DEF IInv
<1>1. ASSUME NEW e \in Emitter, EmitLocks(e) PROVE Closing'
  BY <1>1 DEF TypeOK, Closing, InFlight, NothingLeftBehind, None, Envelope, EmitLocks
<1>2. ASSUME NEW e \in Emitter, EmitRefused(e) PROVE Closing'
  BY <1>2 DEF TypeOK, Closing, InFlight, NothingLeftBehind, None, Envelope, EmitRefused
<1>3. ASSUME NEW e \in Emitter, EmitFindsClosed(e) PROVE Closing'
  BY <1>3 DEF TypeOK, Closing, InFlight, NothingLeftBehind, None, Envelope, EmitFindsClosed
<1>4. ASSUME NEW e \in Emitter, EmitFindsOpen(e) PROVE Closing'
  BY <1>4 DEF TypeOK, Closing, InFlight, NothingLeftBehind, None, Envelope, EmitFindsOpen
<1>5. ASSUME NEW e \in Emitter, EmitSends(e) PROVE Closing'
  BY <1>5 DEF TypeOK, Closing, InFlight, NothingLeftBehind, None, Envelope, EmitSends, HasRoom, DropCounted
<1>6. ASSUME NEW c \in Closer, CloseFirst(c) PROVE Closing'
  BY <1>6 DEF TypeOK, Closing, InFlight, NothingLeftBehind, None, Envelope, CloseFirst
<1>7. ASSUME NEW c \in Closer, CloseLocks(c) PROVE Closing'
  BY <1>7 DEF TypeOK, Closing, InFlight, NothingLeftBehind, None, Envelope, CloseLocks, NoReaders
<1>8. ASSUME NEW c \in Closer, CloseUnlocks(c) PROVE Closing'
  BY <1>8 DEF TypeOK, Closing, InFlight, NothingLeftBehind, None, Envelope, CloseUnlocks
<1>9. ASSUME NEW c \in Closer, CloseAgain(c) PROVE Closing'
  BY <1>9 DEF TypeOK, Closing, InFlight, NothingLeftBehind, None, Envelope, CloseAgain
<1>10. ASSUME NEW c \in Closer, CloseReturns(c) PROVE Closing'
  BY <1>10 DEF TypeOK, Closing, InFlight, NothingLeftBehind, None, Envelope, CloseReturns
<1>11. CASE LoopTakes
  BY <1>11 DEF TypeOK, Closing, InFlight, NothingLeftBehind, None, Envelope, LoopTakes
<1>12. CASE LoopQuits
  BY <1>12 DEF TypeOK, Closing, InFlight, NothingLeftBehind, None, Envelope, LoopQuits
<1>13. CASE LoopEncoded
  BY <1>13 DEF TypeOK, Closing, InFlight, NothingLeftBehind, None, Envelope, LoopEncoded
<1>14. CASE LoopDone
  BY <1>14 DEF TypeOK, Closing, InFlight, NothingLeftBehind, None, Envelope, LoopDone
<1>15. CASE UNCHANGED vars
  BY <1>15 DEF TypeOK, Closing, InFlight, NothingLeftBehind, None, Envelope, vars
<1> QED
  BY <1>1, <1>2, <1>3, <1>4, <1>5, <1>6, <1>7, <1>8, <1>9, <1>10, <1>11, <1>12, <1>13, <1>14, <1>15
  DEF Next

-----------------------------------------------------------------------------
(* The inductive invariant holds in every reachable state. *)
THEOREM Invariance == Spec => []IInv
<1>1. IInv /\ [Next]_vars => IInv'
  BY TypeStep, ClosingStep DEF IInv
<1> QED BY InitIInv, <1>1, PTL DEF Spec

(* The sink's state keeps its types, its queue its capacity. *)
THEOREM TypeCorrect == Spec => []TypeOK
<1>1. IInv => TypeOK
  BY DEF IInv
<1> QED BY Invariance, <1>1, PTL

(* When the goroutine is gone the queue is empty and stays so. *)
THEOREM NobodyQueuesForNobody == Spec => []NothingLeftBehind
<1>1. IInv => NothingLeftBehind
  BY DEF IInv, Closing
<1> QED BY Invariance, <1>1, PTL

-----------------------------------------------------------------------------
(* The emitters that hold the read lock are finitely many. *)
LEMMA InFlightFinite ==
  /\ IsFiniteSet(InFlight) /\ Cardinality(InFlight) \in Nat
<1>1. InFlight \subseteq Emitter
  BY DEF InFlight
<1> QED BY <1>1, AsyncSinkAssumption, FS_Subset, FS_CardinalityType

(* One emitter more or less holds the lock after its own step. *)
LEMMA InFlightStep ==
  ASSUME TypeOK, NEW e \in Emitter
  PROVE  /\ emitter[e] = None /\ (\E n \in Envelope : emitter' = [emitter EXCEPT ![e] = n])
              => Cardinality(InFlight') = Cardinality(InFlight) + 1
         /\ emitter[e] # None /\ emitter' = [emitter EXCEPT ![e] = None]
              => Cardinality(InFlight') = Cardinality(InFlight) - 1
<1>1. ASSUME emitter[e] = None, NEW n \in Envelope, emitter' = [emitter EXCEPT ![e] = n]
      PROVE  Cardinality(InFlight') = Cardinality(InFlight) + 1
  <2>1. InFlight' = InFlight \cup {e} /\ e \notin InFlight
    BY <1>1 DEF TypeOK, InFlight, Envelope, None
  <2> QED BY <2>1, InFlightFinite, FS_AddElement
<1>2. ASSUME emitter[e] # None, emitter' = [emitter EXCEPT ![e] = None]
      PROVE  Cardinality(InFlight') = Cardinality(InFlight) - 1
  <2>1. InFlight' = InFlight \ {e} /\ e \in InFlight
    BY <1>2 DEF TypeOK, InFlight
  <2> QED BY <2>1, InFlightFinite, FS_RemoveElement
<1> QED BY <1>1, <1>2

(* Every step keeps the account exact. *)
LEMMA AccountStep == IInv /\ ExactAccount /\ [Next]_vars => ExactAccount'
<1> SUFFICES ASSUME IInv, ExactAccount, [Next]_vars PROVE ExactAccount'
  OBVIOUS
<1> USE AsyncSinkAssumption
<1> DEFINE N == Cardinality(InFlight)
           W == IF encoding = None THEN 0 ELSE 1
<1>1. /\ emits \in Nat /\ dropped \in Nat /\ Len(ch) \in Nat /\ Len(written) \in Nat
      /\ Len(failed) \in Nat /\ N \in Nat /\ W \in Nat
      /\ emits = dropped + Len(ch) + Len(written) + Len(failed) + N + W
  BY InFlightFinite DEF IInv, TypeOK, ExactAccount
<1>2. SUFFICES emits' = dropped' + Len(ch') + Len(written') + Len(failed') + N' + W'
  BY DEF ExactAccount
<1>3. ASSUME UNCHANGED <<emitter, ch, encoding, dropped, emits, written, failed>>
      PROVE  emits' = dropped' + Len(ch') + Len(written') + Len(failed') + N' + W'
  BY <1>1, <1>3 DEF InFlight
<1>4. ASSUME NEW e \in Emitter, EmitLocks(e)
      PROVE  emits' = dropped' + Len(ch') + Len(written') + Len(failed') + N' + W'
  <2>1. emits + 1 \in Envelope
    BY <1>1, <1>4 DEF EmitLocks, Envelope
  <2>2. N' = N + 1
    BY <1>4, <2>1, InFlightStep DEF IInv, EmitLocks
  <2>3. W' = W
    BY <1>4 DEF EmitLocks
  <2> QED BY <1>1, <1>4, <2>2, <2>3 DEF EmitLocks
<1>5. ASSUME NEW e \in Emitter, EmitRefused(e)
      PROVE  emits' = dropped' + Len(ch') + Len(written') + Len(failed') + N' + W'
  <2>1. N' = N /\ W' = W
    BY <1>5 DEF EmitRefused, InFlight
  <2> QED BY <1>1, <1>5, <2>1 DEF EmitRefused
<1>6. ASSUME NEW e \in Emitter, EmitFindsClosed(e)
      PROVE  emits' = dropped' + Len(ch') + Len(written') + Len(failed') + N' + W'
  <2>1. N' = N - 1
    BY <1>6, InFlightStep DEF IInv, EmitFindsClosed
  <2>2. W' = W
    BY <1>6 DEF EmitFindsClosed
  <2> QED BY <1>1, <1>6, <2>1, <2>2 DEF EmitFindsClosed
<1>7. ASSUME NEW e \in Emitter, EmitSends(e)
      PROVE  emits' = dropped' + Len(ch') + Len(written') + Len(failed') + N' + W'
  <2>1. emitter[e] # None /\ emitter[e] \in Envelope
    BY <1>7 DEF IInv, TypeOK, Closing, InFlight, EmitSends
  <2>2. N' = N - 1
    BY <1>7, <2>1, InFlightStep DEF IInv, EmitSends
  <2>3. W' = W
    BY <1>7 DEF EmitSends
  <2>4. dropped' + Len(ch') = dropped + Len(ch) + 1 /\ dropped' \in Nat /\ Len(ch') \in Nat
    <3>1. CASE ch' = Append(ch, emitter[e]) /\ UNCHANGED dropped
      BY <1>1, <2>1, <3>1 DEF IInv, TypeOK
    <3>2. CASE dropped' = dropped + 1 /\ UNCHANGED ch
      BY <1>1, <3>2
    <3> QED BY <1>7, <3>1, <3>2 DEF EmitSends, DropCounted
  <2>5. emits' = emits /\ Len(written') = Len(written) /\ Len(failed') = Len(failed)
    BY <1>7 DEF EmitSends
  <2>6. N' \in Int /\ W' \in Int
    BY <1>1, <2>2, <2>3
  <2>7. PICK d \in Nat, l \in Nat, n \in Int, w \in Int :
          d = dropped' /\ l = Len(ch') /\ n = N' /\ w = W'
    BY <2>4, <2>6
  <2>8. d + l = dropped + Len(ch) + 1 /\ n = N - 1 /\ w = W
    BY <2>2, <2>3, <2>4, <2>7
  <2>9. emits = d + l + Len(written) + Len(failed) + n + w
    <3> HIDE DEF N, W
    <3> QED BY <1>1, <2>8
  <2> QED BY <2>5, <2>7, <2>9
<1>8. ASSUME LoopTakes
      PROVE  emits' = dropped' + Len(ch') + Len(written') + Len(failed') + N' + W'
  <2>1. Len(ch') = Len(ch) - 1 /\ Head(ch) # None
    BY <1>8 DEF LoopTakes, IInv, TypeOK, Envelope, None
  <2>2. N' = N /\ W = 0 /\ W' = 1
    BY <1>8, <2>1 DEF LoopTakes, InFlight, IInv, Closing
  <2> QED BY <1>1, <1>8, <2>1, <2>2 DEF LoopTakes
<1>9. ASSUME LoopEncoded
      PROVE  emits' = dropped' + Len(ch') + Len(written') + Len(failed') + N' + W'
  <2>1. N' = N /\ W = 1 /\ W' = 0
    BY <1>9 DEF LoopEncoded, InFlight, IInv, Closing
  <2>2. Len(written') + Len(failed') = Len(written) + Len(failed) + 1
        /\ Len(written') \in Nat /\ Len(failed') \in Nat
    <3>1. CASE written' = Append(written, encoding) /\ UNCHANGED failed
      BY <1>1, <3>1 DEF IInv, TypeOK
    <3>2. CASE failed' = Append(failed, encoding) /\ UNCHANGED written
      BY <1>1, <3>2 DEF IInv, TypeOK
    <3> QED BY <1>9, <3>1, <3>2 DEF LoopEncoded
  <2>3. UNCHANGED <<emits, dropped, ch>>
    BY <1>9 DEF LoopEncoded
  <2> QED BY SMTT(30), <1>1, <2>1, <2>2, <2>3
<1>10. ASSUME NEW e \in Emitter, EmitFindsOpen(e)
       PROVE  UNCHANGED <<emitter, ch, encoding, dropped, emits, written, failed>>
  BY <1>10 DEF EmitFindsOpen
<1>11. ASSUME NEW c \in Closer,
              CloseFirst(c) \/ CloseLocks(c) \/ CloseUnlocks(c) \/ CloseAgain(c)
              \/ CloseReturns(c)
       PROVE  UNCHANGED <<emitter, ch, encoding, dropped, emits, written, failed>>
  BY <1>11 DEF CloseFirst, CloseLocks, CloseUnlocks, CloseAgain, CloseReturns
<1>12. ASSUME LoopQuits \/ LoopDone \/ UNCHANGED vars
       PROVE  UNCHANGED <<emitter, ch, encoding, dropped, emits, written, failed>>
  BY <1>12 DEF LoopQuits, LoopDone, vars
<1> QED
  BY <1>3, <1>4, <1>5, <1>6, <1>7, <1>8, <1>9, <1>10, <1>11, <1>12 DEF Next

(* Every Emit is accounted for exactly once, in every reachable state. *)
THEOREM AccountIsExact == Spec => []ExactAccount
<1>1. Init => ExactAccount
  <2> SUFFICES ASSUME Init PROVE ExactAccount
    OBVIOUS
  <2>1. InFlight = {}
    BY DEF Init, InFlight
  <2>2. Cardinality(InFlight) = 0
    BY <2>1, FS_EmptySet
  <2> QED BY <2>2 DEF Init, ExactAccount
<1> QED BY Invariance, AccountStep, <1>1, PTL DEF Spec
=============================================================================
