----------------------------- MODULE LiveProofs -----------------------------
(***************************************************************************)
(* The live sink and the hub's socket, for any number of hubs, envelopes   *)
(* and any size of the buffers; after them the OTLP sink, and the metrics, *)
(* for any ids and any number of frames.                                   *)
(*                                                                         *)
(* That a hub reads in order what was emitted is inductive only together   *)
(* with the order of everything still on its way: what was read comes      *)
(* before what the socket holds, that before what is being written, and    *)
(* that before what is queued (Ordered).  It needs that only the current   *)
(* connection holds anything (OneConnection), or a redial would let old    *)
(* envelopes be read after new ones.                                       *)
(*                                                                         *)
(* That the socket path leads to the hub that serves, as long as hubs do   *)
(* not overlap, rests on who may be at which step together: at most two    *)
(* start at once and only while no socket is there, one that is about to   *)
(* remove a socket removes one that nobody serves (StartsApart), and one   *)
(* that stops does so alone (StopsAlone).                                  *)
(***************************************************************************)
EXTENDS MCLive, FiniteSetTheorems, SequenceTheorems, WellFoundedInduction, TLAPS

(* Order of sequences of envelopes, which are numbered as they are emitted. *)
Rising(s)       == \A i, j \in 1 .. Len(s) : i < j => s[i] < s[j]
AllBefore(s, t) == \A i \in 1 .. Len(s), j \in 1 .. Len(t) : s[i] < t[j]

(* Along the way from Emit to the hub envelopes keep the order they were emitted in. *)
Ordered ==
  /\ Rising(got) /\ Rising(wire) /\ Rising(ch)
  /\ AllBefore(got, wire) /\ AllBefore(got, ch) /\ AllBefore(wire, ch)
  /\ \A i \in 1 .. Len(ch)   : ch[i] <= emits   /\ writing < ch[i]
  /\ \A i \in 1 .. Len(got)  : got[i] <= emits  /\ (writing # None => got[i] < writing)
  /\ \A i \in 1 .. Len(wire) : wire[i] <= emits /\ (writing # None => wire[i] < writing)
  /\ writing <= emits

(* An envelope is being written in exactly one place, and no connection but the current one
   holds any. *)
OneConnection ==
  /\ run = "write" <=> writing # None
  /\ broken \/ run \in {"dial", "backoff"} => wire = <<>>

SinkInv == TypeOK /\ OneConnection /\ Ordered /\ Accounted

(* What Append and Tail do to sequences that rise. *)
LEMMA AppendRises ==
  ASSUME NEW s \in Seq(Nat), NEW n \in Nat, Rising(s), \A i \in 1 .. Len(s) : s[i] < n
  PROVE  Rising(Append(s, n))
BY DEF Rising

(* What is left of a sequence that rises does, and comes after the one taken. *)
LEMMA TailRises ==
  ASSUME NEW s \in Seq(Nat), s # <<>>, Rising(s)
  PROVE  /\ Head(s) = s[1] /\ Rising(Tail(s)) /\ Len(Tail(s)) = Len(s) - 1
         /\ \A i \in 1 .. Len(Tail(s)) : Tail(s)[i] = s[i + 1] /\ Head(s) < Tail(s)[i]
<1>1. Tail(s) \in Seq(Nat) /\ Len(Tail(s)) = Len(s) - 1 /\ Head(s) = s[1] /\ Len(s) >= 1
  OBVIOUS
<1>2. \A i \in 1 .. Len(Tail(s)) : Tail(s)[i] = s[i + 1]
  OBVIOUS
<1> QED BY <1>1, <1>2 DEF Rising

(* A sequence keeps its place after or before another one that is cut or extended. *)
LEMMA AppendKeepsBefore ==
  ASSUME NEW s \in Seq(Nat), NEW t \in Seq(Nat), NEW n \in Nat, AllBefore(s, t)
  PROVE  /\ (\A i \in 1 .. Len(s) : s[i] < n) => AllBefore(s, Append(t, n))
         /\ (\A i \in 1 .. Len(t) : n < t[i]) => AllBefore(Append(s, n), t)
<1>1. ASSUME \A i \in 1 .. Len(s) : s[i] < n PROVE AllBefore(s, Append(t, n))
  <2>1. /\ Len(Append(t, n)) = Len(t) + 1 /\ Append(t, n)[Len(t) + 1] = n
        /\ \A i \in 1 .. Len(t) : Append(t, n)[i] = t[i]
    OBVIOUS
  <2> SUFFICES ASSUME NEW i \in 1 .. Len(s), NEW j \in 1 .. Len(t) + 1 PROVE s[i] < Append(t, n)[j]
    BY <2>1 DEF AllBefore
  <2>2. CASE j = Len(t) + 1
    BY <1>1, <2>1, <2>2
  <2>3. CASE j \in 1 .. Len(t)
    BY <2>1, <2>3 DEF AllBefore
  <2> QED BY <2>2, <2>3
<1>2. ASSUME \A i \in 1 .. Len(t) : n < t[i] PROVE AllBefore(Append(s, n), t)
  <2>1. /\ Len(Append(s, n)) = Len(s) + 1 /\ Append(s, n)[Len(s) + 1] = n
        /\ \A i \in 1 .. Len(s) : Append(s, n)[i] = s[i]
    OBVIOUS
  <2> QED BY <1>2, <2>1 DEF AllBefore
<1> QED BY <1>1, <1>2

(* Taking from the front keeps a sequence before another and after a third. *)
LEMMA TailKeepsBefore ==
  ASSUME NEW s \in Seq(Nat), NEW t \in Seq(Nat), AllBefore(s, t)
  PROVE  /\ t # <<>> => AllBefore(s, Tail(t)) /\ \A i \in 1 .. Len(s) : s[i] < Head(t)
         /\ s # <<>> => AllBefore(Tail(s), t) /\ \A i \in 1 .. Len(t) : Head(s) < t[i]
<1>1. ASSUME t # <<>> PROVE AllBefore(s, Tail(t)) /\ \A i \in 1 .. Len(s) : s[i] < Head(t)
  <2>1. Tail(t) \in Seq(Nat) /\ Len(Tail(t)) = Len(t) - 1 /\ Head(t) = t[1] /\ Len(t) >= 1
    BY <1>1
  <2>2. \A i \in 1 .. Len(Tail(t)) : Tail(t)[i] = t[i + 1]
    BY <1>1
  <2> QED BY <2>1, <2>2 DEF AllBefore
<1>2. ASSUME s # <<>> PROVE AllBefore(Tail(s), t) /\ \A i \in 1 .. Len(t) : Head(s) < t[i]
  <2>1. Tail(s) \in Seq(Nat) /\ Len(Tail(s)) = Len(s) - 1 /\ Head(s) = s[1] /\ Len(s) >= 1
    BY <1>2
  <2>2. \A i \in 1 .. Len(Tail(s)) : Tail(s)[i] = s[i + 1]
    BY <1>2
  <2> QED BY <2>1, <2>2 DEF AllBefore
<1> QED BY <1>1, <1>2

(* A sequence of envelopes is one of numbers. *)
LEMMA EnvelopesAreNumbers == ASSUME NEW s \in Seq(Envelope) PROVE s \in Seq(Nat)
<1>1. PICK n \in Nat : s \in [1 .. n -> Envelope]
  BY SeqDef
<1>2. s \in [1 .. n -> Nat]
  BY <1>1 DEF Envelope
<1> QED BY <1>2, SeqDef

(* The sequences of the sink are of numbers. *)
LEMMA Numbers ==
  ASSUME TypeOK
  PROVE  /\ ch \in Seq(Nat) /\ wire \in Seq(Nat) /\ got \in Seq(Nat) /\ writing \in Nat /\ emits \in Nat
         /\ \A i \in 1 .. Len(ch) : ch[i] \in Nat
         /\ \A i \in 1 .. Len(wire) : wire[i] \in Nat
         /\ \A i \in 1 .. Len(got) : got[i] \in Nat
         /\ Len(ch) \in Nat /\ Len(wire) \in Nat /\ Len(got) \in Nat
<1>2. writing \in Nat /\ emits \in Nat
  BY SocketSinkAssumption DEF TypeOK, Envelope, None
<1>3. ch \in Seq(Nat) /\ wire \in Seq(Nat) /\ got \in Seq(Nat)
  BY EnvelopesAreNumbers DEF TypeOK
<1>4. /\ \A i \in 1 .. Len(ch) : ch[i] \in Nat
      /\ \A i \in 1 .. Len(wire) : wire[i] \in Nat
      /\ \A i \in 1 .. Len(got) : got[i] \in Nat
  BY <1>3
<1> QED BY <1>2, <1>3, <1>4

(* Nothing was emitted yet. *)
LEMMA SinkInit == Init => SinkInv
<1> SUFFICES ASSUME Init PROVE SinkInv
  OBVIOUS
<1> USE SocketSinkAssumption DEF Init, None
<1>1. TypeOK
  <2>1. /\ ch \in Seq(Envelope) /\ wire \in Seq(Envelope) /\ got \in Seq(Envelope)
        /\ Len(ch) <= Buffer /\ Len(wire) <= Wire
    OBVIOUS
  <2>2. dropped \in Nat /\ lost \in Nat /\ emits \in 0 .. MaxEmits
    OBVIOUS
  <2>3. /\ run \in {"dial", "backoff", "select", "write", "done"}
        /\ close \in {"out", "wait", "returned"} /\ writing \in Envelope \cup {None}
        /\ cancelled \in BOOLEAN /\ listening \in BOOLEAN /\ broken \in BOOLEAN
    OBVIOUS
  <2> HIDE DEF Init, None
  <2> QED BY <2>1, <2>2, <2>3 DEF TypeOK
<1>2. OneConnection /\ Ordered /\ Accounted
  BY DEF OneConnection, Ordered, Accounted, Rising, AllBefore
<1> QED BY <1>1, <1>2 DEF SinkInv

(* Every step keeps the types. *)
LEMMA SinkTypeStep == SinkInv /\ [Next]_vars => TypeOK'
<1> SUFFICES ASSUME SinkInv, [Next]_vars PROVE TypeOK'
  OBVIOUS
<1> USE SocketSinkAssumption DEF SinkInv, hubVars
<1>1. CASE Emit
  <2>1. emits + 1 \in Envelope /\ emits + 1 \in 0 .. MaxEmits
    BY <1>1 DEF TypeOK, Envelope, Emit
  <2>2. ch' \in Seq(Envelope) /\ Len(ch') <= Buffer
    BY <1>1, <2>1 DEF TypeOK, Emit, Queued
  <2>3. dropped' \in Nat
    BY <1>1 DEF TypeOK, Emit
  <2> QED BY <1>1, <2>1, <2>2, <2>3 DEF TypeOK, Emit
<1>2. CASE Close
  BY <1>2 DEF TypeOK, OneConnection, Envelope, None, Close
<1>3. CASE CloseReturn
  BY <1>3 DEF TypeOK, OneConnection, Envelope, None, CloseReturn
<1>4. CASE Dialled
  BY <1>4 DEF TypeOK, OneConnection, Envelope, None, Dialled
<1>5. CASE DialFails
  BY <1>5 DEF TypeOK, OneConnection, Envelope, None, DialFails
<1>6. CASE Wakes
  BY <1>6 DEF TypeOK, OneConnection, Envelope, None, Wakes
<1>7. CASE PumpTakes
  BY <1>7 DEF TypeOK, OneConnection, Envelope, None, PumpTakes
<1>8. CASE PumpStops
  BY <1>8 DEF TypeOK, OneConnection, Envelope, None, PumpStops
<1>9. CASE Written
  BY <1>9 DEF TypeOK, OneConnection, Envelope, None, Written
<1>10. CASE WriteFails
  BY <1>10 DEF TypeOK, OneConnection, Envelope, None, WriteFails, ChAfterFailure, RunAfterFailure
<1>11. CASE HubStarts
  BY <1>11 DEF TypeOK, OneConnection, Envelope, None, HubStarts
<1>12. CASE HubReads
  BY <1>12 DEF TypeOK, OneConnection, Envelope, None, HubReads
<1>13. CASE HubStops
  <2>1. wire' \in Seq(Envelope) /\ Len(wire') <= Wire /\ lost' \in Nat
    BY <1>13 DEF TypeOK, HubStops
  <2> QED BY <1>13, <2>1 DEF TypeOK, HubStops
<1>14. CASE UNCHANGED vars
  BY <1>14 DEF TypeOK, OneConnection, Envelope, None, vars
<1> QED BY <1>1, <1>2, <1>3, <1>4, <1>5, <1>6, <1>7, <1>8, <1>9, <1>10, <1>11, <1>12, <1>13, <1>14 DEF Next

(* A connection that ends leaves nothing behind for the next one. *)
LEMMA OneConnectionStep == SinkInv /\ [Next]_vars => OneConnection'
<1> SUFFICES ASSUME SinkInv, [Next]_vars PROVE OneConnection'
  OBVIOUS
<1> USE SocketSinkAssumption DEF SinkInv, hubVars
<1>1. CASE Emit
  BY <1>1 DEF OneConnection, TypeOK, Envelope, None, Emit, Queued
<1>2. CASE Close
  BY <1>2 DEF OneConnection, TypeOK, Envelope, None, Close
<1>3. CASE CloseReturn
  BY <1>3 DEF OneConnection, TypeOK, Envelope, None, CloseReturn
<1>4. CASE Dialled
  BY <1>4 DEF OneConnection, TypeOK, Envelope, None, Dialled
<1>5. CASE DialFails
  BY <1>5 DEF OneConnection, TypeOK, Envelope, None, DialFails
<1>6. CASE Wakes
  BY <1>6 DEF OneConnection, TypeOK, Envelope, None, Wakes
<1>7. CASE PumpTakes
  BY <1>7 DEF OneConnection, TypeOK, Envelope, None, PumpTakes
<1>8. CASE PumpStops
  BY <1>8 DEF OneConnection, TypeOK, Envelope, None, PumpStops
<1>9. CASE Written
  BY <1>9 DEF OneConnection, TypeOK, Envelope, None, Written
<1>10. CASE WriteFails
  BY <1>10 DEF OneConnection, TypeOK, Envelope, None, WriteFails, ChAfterFailure, RunAfterFailure
<1>11. CASE HubStarts
  BY <1>11 DEF OneConnection, TypeOK, Envelope, None, HubStarts
<1>12. CASE HubReads
  BY <1>12 DEF OneConnection, TypeOK, Envelope, None, HubReads
<1>13. CASE HubStops
  BY <1>13 DEF OneConnection, TypeOK, Envelope, None, HubStops
<1>14. CASE UNCHANGED vars
  BY <1>14 DEF OneConnection, TypeOK, Envelope, None, vars
<1> QED BY <1>1, <1>2, <1>3, <1>4, <1>5, <1>6, <1>7, <1>8, <1>9, <1>10, <1>11, <1>12, <1>13, <1>14 DEF Next

(* What is on its way was emitted, so the next number is above all of it. *)
LEMMA NextNumberIsAbove ==
  ASSUME TypeOK, Ordered
  PROVE  /\ \A i \in 1 .. Len(ch) : ch[i] < emits + 1 /\ ch[i] <= emits + 1
         /\ \A i \in 1 .. Len(wire) : wire[i] < emits + 1 /\ wire[i] <= emits + 1
         /\ \A i \in 1 .. Len(got) : got[i] < emits + 1 /\ got[i] <= emits + 1
         /\ writing < emits + 1 /\ writing <= emits + 1
<1>1. /\ \A i \in 1 .. Len(ch) : ch[i] <= emits
      /\ \A i \in 1 .. Len(wire) : wire[i] <= emits
      /\ \A i \in 1 .. Len(got) : got[i] <= emits
      /\ writing <= emits
  BY DEF Ordered
<1>2. /\ emits \in Nat /\ writing \in Nat
      /\ \A i \in 1 .. Len(ch) : ch[i] \in Nat
      /\ \A i \in 1 .. Len(wire) : wire[i] \in Nat
      /\ \A i \in 1 .. Len(got) : got[i] \in Nat
  BY Numbers
<1>3. \A i \in 1 .. Len(ch) : ch[i] < emits + 1 /\ ch[i] <= emits + 1
  BY <1>1, <1>2
<1>4. \A i \in 1 .. Len(wire) : wire[i] < emits + 1 /\ wire[i] <= emits + 1
  BY <1>1, <1>2
<1>5. \A i \in 1 .. Len(got) : got[i] < emits + 1 /\ got[i] <= emits + 1
  BY <1>1, <1>2
<1>6. writing < emits + 1 /\ writing <= emits + 1
  BY <1>1, <1>2
<1> QED BY <1>3, <1>4, <1>5, <1>6

(* Every step keeps the order. *)
LEMMA OrderedStep == SinkInv /\ [Next]_vars => Ordered'
<1> SUFFICES ASSUME SinkInv, [Next]_vars PROVE Ordered'
  OBVIOUS
<1> USE SocketSinkAssumption DEF SinkInv, hubVars
<1>1. CASE Emit
  <2>1. CASE UNCHANGED ch /\ emits' = emits + 1
    <3>1. UNCHANGED <<got, wire, ch, writing>>
      BY <1>1, <2>1 DEF Emit
    <3> QED BY <2>1, <3>1, NextNumberIsAbove DEF Ordered
  <2>2. CASE ch' = Append(ch, emits + 1) /\ emits' = emits + 1
    <3>1. /\ \A i \in 1 .. Len(ch) : ch[i] < emits + 1
          /\ \A i \in 1 .. Len(wire) : wire[i] < emits + 1
          /\ \A i \in 1 .. Len(got) : got[i] < emits + 1
      BY NextNumberIsAbove
    <3>2. Rising(ch') /\ AllBefore(got, ch') /\ AllBefore(wire, ch')
      <4> emits + 1 \in Nat
        BY Numbers
      <4>1. Rising(Append(ch, emits + 1))
        BY <3>1, Numbers, AppendRises DEF Ordered
      <4>2. AllBefore(got, Append(ch, emits + 1)) /\ AllBefore(wire, Append(ch, emits + 1))
        BY <3>1, Numbers, AppendKeepsBefore DEF Ordered
      <4> QED BY <2>2, <4>1, <4>2
    <3>3. \A i \in 1 .. Len(ch') : ch'[i] <= emits' /\ writing < ch'[i]
      <4>1. Len(ch') = Len(ch) + 1 /\ ch'[Len(ch) + 1] = emits + 1
            /\ \A i \in 1 .. Len(ch) : ch'[i] = ch[i]
        BY <2>2, Numbers
      <4>2. writing < emits + 1 /\ \A i \in 1 .. Len(ch) : ch[i] <= emits + 1
        BY NextNumberIsAbove
      <4> QED BY <2>2, <4>1, <4>2, Numbers DEF Ordered
    <3>4. UNCHANGED <<got, wire, writing>>
      BY <1>1 DEF Emit
    <3> QED BY <2>2, <3>2, <3>3, <3>4, NextNumberIsAbove DEF Ordered
  <2> QED BY <1>1, <2>1, <2>2 DEF Emit, Queued
<1>2. CASE Close
  BY <1>2 DEF Ordered, Rising, AllBefore, OneConnection, TypeOK, Envelope, None, Close
<1>3. CASE CloseReturn
  BY <1>3 DEF Ordered, Rising, AllBefore, OneConnection, TypeOK, Envelope, None, CloseReturn
<1>4. CASE Dialled
  BY <1>4 DEF Ordered, Rising, AllBefore, OneConnection, TypeOK, Envelope, None, Dialled
<1>5. CASE DialFails
  BY <1>5 DEF Ordered, Rising, AllBefore, OneConnection, TypeOK, Envelope, None, DialFails
<1>6. CASE Wakes
  BY <1>6 DEF Ordered, Rising, AllBefore, OneConnection, TypeOK, Envelope, None, Wakes
<1>7. CASE PumpTakes
  <2>1. /\ Rising(ch') /\ AllBefore(got, ch') /\ AllBefore(wire, ch')
        /\ \A i \in 1 .. Len(ch') : ch'[i] = ch[i + 1] /\ writing' < ch'[i]
        /\ \A i \in 1 .. Len(got) : got[i] < writing'
        /\ \A i \in 1 .. Len(wire) : wire[i] < writing'
        /\ Len(ch') = Len(ch) - 1 /\ writing' = ch[1] /\ Len(ch) >= 1
    BY <1>7, Numbers, TailRises, TailKeepsBefore DEF Ordered, PumpTakes
  <2>2. \A i \in 1 .. Len(ch') : ch'[i] <= emits
    <3> TAKE i \in 1 .. Len(ch')
    <3>1. i + 1 \in 1 .. Len(ch)
      BY <2>1, Numbers
    <3> QED BY <2>1, <3>1 DEF Ordered
  <2>3. writing' <= emits
    BY <2>1, Numbers DEF Ordered
  <2> QED BY <1>7, <2>1, <2>2, <2>3 DEF Ordered, PumpTakes
<1>8. CASE PumpStops
  BY <1>8 DEF Ordered, Rising, AllBefore, OneConnection, TypeOK, Envelope, None, PumpStops
<1>9. CASE Written
  <2>1. writing # None
    BY <1>9 DEF Written, OneConnection
  <2>2. Rising(wire') /\ AllBefore(got, wire') /\ AllBefore(wire', ch)
    BY <1>9, <2>1, Numbers, AppendRises, AppendKeepsBefore DEF Ordered, Written
  <2>3. \A i \in 1 .. Len(wire') : wire'[i] <= emits
    BY <1>9, Numbers DEF Ordered, Written
  <2>4. /\ \A i \in 1 .. Len(ch) : ch[i] <= emits /\ writing' < ch[i]
        /\ writing' <= emits /\ writing' = None
    BY <1>9, Numbers DEF Ordered, Written, None
  <2> QED BY <1>9, <2>2, <2>3, <2>4 DEF Ordered, Written
<1>10. CASE WriteFails
  BY <1>10 DEF Ordered, Rising, AllBefore, OneConnection, TypeOK, Envelope, None, WriteFails, ChAfterFailure, RunAfterFailure
<1>11. CASE HubStarts
  BY <1>11 DEF Ordered, Rising, AllBefore, OneConnection, TypeOK, Envelope, None, HubStarts
<1>12. CASE HubReads
  <2>1. /\ Rising(wire') /\ AllBefore(wire', ch) /\ AllBefore(got, wire')
        /\ Rising(got')
        /\ \A i \in 1 .. Len(wire') : wire'[i] = wire[i + 1] /\ Head(wire) < wire'[i]
        /\ \A i \in 1 .. Len(ch) : Head(wire) < ch[i]
        /\ Len(wire') = Len(wire) - 1 /\ Head(wire) = wire[1] /\ Len(wire) >= 1
        /\ wire' \in Seq(Nat) /\ Head(wire) \in Nat
    <3>1. wire # <<>> /\ got' = Append(got, Head(wire)) /\ wire' = Tail(wire)
      BY <1>12 DEF HubReads
    <3>2. /\ Rising(wire') /\ AllBefore(wire', ch) /\ AllBefore(got, wire')
          /\ \A i \in 1 .. Len(wire') : wire'[i] = wire[i + 1] /\ Head(wire) < wire'[i]
          /\ \A i \in 1 .. Len(ch) : Head(wire) < ch[i]
          /\ \A i \in 1 .. Len(got) : got[i] < Head(wire)
          /\ Len(wire') = Len(wire) - 1 /\ Head(wire) = wire[1]
      BY <3>1, Numbers, TailRises, TailKeepsBefore DEF Ordered
    <3>3. wire' \in Seq(Nat) /\ Head(wire) \in Nat /\ Len(wire) >= 1
      BY <3>1, Numbers
    <3>4. Rising(got')
      BY <3>1, <3>2, <3>3, Numbers, AppendRises DEF Ordered
    <3> QED BY <3>2, <3>3, <3>4
  <2>2. AllBefore(got', wire') /\ AllBefore(got', ch)
    BY <1>12, <2>1, Numbers, AppendKeepsBefore DEF Ordered, HubReads
  <2>3. \A i \in 1 .. Len(wire') : wire'[i] <= emits  /\ (writing # None => wire'[i] < writing)
    <3> TAKE i \in 1 .. Len(wire')
    <3>1. i + 1 \in 1 .. Len(wire)
      BY <2>1, Numbers
    <3> QED BY <2>1, <3>1 DEF Ordered
  <2>4. \A i \in 1 .. Len(got') : got'[i] <= emits  /\ (writing # None => got'[i] < writing)
    BY <1>12, <2>1, Numbers DEF Ordered, HubReads
  <2> QED BY <1>12, <2>1, <2>2, <2>3, <2>4 DEF Ordered, HubReads
<1>13. CASE HubStops
  BY <1>13 DEF Ordered, Rising, AllBefore, OneConnection, TypeOK, Envelope, None, HubStops
<1>14. CASE UNCHANGED vars
  BY <1>14 DEF Ordered, Rising, AllBefore, OneConnection, TypeOK, Envelope, None, vars
<1> QED BY <1>1, <1>2, <1>3, <1>4, <1>5, <1>6, <1>7, <1>8, <1>9, <1>10, <1>11, <1>12, <1>13, <1>14 DEF Next

(* Every step keeps the account. *)
LEMMA AccountedStep == SinkInv /\ [Next]_vars => Accounted'
<1> SUFFICES ASSUME SinkInv, [Next]_vars PROVE Accounted'
  OBVIOUS
<1> USE DEF SinkInv, hubVars
<1>1. /\ emits \in Nat /\ dropped \in Nat /\ lost \in Nat
      /\ Len(ch) \in Nat /\ Len(wire) \in Nat /\ Len(got) \in Nat
  BY Numbers DEF TypeOK
<1>2. CASE Emit
  <2>1. /\ UNCHANGED <<got, wire, writing, lost>> /\ emits' = emits + 1
    BY <1>2 DEF Emit
  <2>2. CASE ch' = Append(ch, emits + 1) /\ dropped' = dropped
    <3>1. Len(ch') = Len(ch) + 1
      BY <2>2, Numbers
    <3> QED BY <1>1, <2>1, <2>2, <3>1 DEF Accounted
  <2>3. CASE ch' = ch /\ dropped' = dropped + 1
    BY <1>1, <2>1, <2>3 DEF Accounted
  <2> QED BY <1>2, <2>2, <2>3 DEF Emit, Queued
<1>3. CASE PumpTakes
  <2>1. writing = None /\ Head(ch) # None
    <3>1. Head(ch) \in Envelope
      BY <1>3 DEF PumpTakes, TypeOK
    <3> QED BY <1>3, <3>1 DEF PumpTakes, OneConnection, Envelope, None
  <2> QED BY <1>1, <1>3, <2>1, Numbers DEF Accounted, PumpTakes
<1>4. CASE Written
  <2>1. writing # None
    BY <1>4 DEF Written, OneConnection
  <2> QED BY <1>1, <1>4, <2>1, Numbers DEF Accounted, Written
<1>5. CASE WriteFails
  <2>1. writing # None
    BY <1>5 DEF WriteFails, OneConnection
  <2> QED BY <1>1, <1>5, <2>1 DEF Accounted, WriteFails, ChAfterFailure
<1>6. CASE HubReads
  BY <1>1, <1>6, Numbers DEF Accounted, HubReads
<1>7. CASE HubStops
  BY <1>1, <1>7 DEF Accounted, HubStops
<1>8. CASE Dialled
  <2>1. wire = <<>>
    BY <1>8 DEF Dialled, OneConnection
  <2> QED BY <1>1, <1>8, <2>1 DEF Accounted, Dialled
<1>9. CASE Close \/ CloseReturn \/ DialFails \/ Wakes \/ PumpStops \/ HubStarts \/ UNCHANGED vars
  BY <1>9 DEF Accounted, Close, CloseReturn, DialFails, Wakes, PumpStops, HubStarts, vars
<1> QED BY <1>2, <1>3, <1>4, <1>5, <1>6, <1>7, <1>8, <1>9 DEF Next

(* The live sink's state keeps its types, the account is exact and the hub reads in order. *)
LEMMA SinkStep == SinkInv /\ [Next]_vars => SinkInv'
BY SinkTypeStep, OneConnectionStep, OrderedStep, AccountedStep DEF SinkInv

(* What the invariant is for: the types, the account, and the order in which the hub reads. *)
LEMMA SinkFacts == SinkInv => TypeOK /\ Accounted /\ InOrder
<1> SUFFICES ASSUME SinkInv PROVE InOrder
  BY DEF SinkInv
<1>1. Len(got) \in Nat /\ Rising(got)
  BY Numbers DEF SinkInv, Ordered
<1> QED BY <1>1 DEF Rising, InOrder

-----------------------------------------------------------------------------
(* At most two hubs start at once, one if there is a socket to find; who is about to remove a
   socket removes one nobody serves; and a hub that stops does so alone. *)
StartsApart ==
  /\ \A f, g, h \in Hubs : {pc[f], pc[g], pc[h]} \subseteq Starting => f = g \/ f = h \/ g = h
  /\ path # NoSocket => \A g, h \in Hubs : {pc[g], pc[h]} \subseteq Starting => g = h
  /\ \A h \in Hubs : pc[h] \in {"dial", "remove"} => path # NoSocket
  /\ \A h \in Hubs : pc[h] = "remove" => path \notin open
  /\ \A h \in Hubs : h \in cancelledHubs => pc[h] \notin Starting \cup {"off"}
StopsAlone ==
  /\ \A h \in Hubs : pc[h] = "serve" => path = h
  /\ \A g, h \in Hubs : IsStopping(g) => pc[h] \notin Starting
  /\ \A g, h \in Hubs : pc[g] \in Stopping => pc[h] # "serve"

HubsInv == HubsTypeOK /\ StartsApart /\ StopsAlone

(* A set of at most one is empty or has one member. *)
LEMMA FewStarting ==
  ASSUME NEW n \in {0, 1}, NEW S, IsFiniteSet(S), Cardinality(S) <= n
  PROVE  /\ n = 0 => S = {}
         /\ \A g, h \in S : g = h
<1>1. Cardinality(S) = 0 \/ Cardinality(S) = 1
  BY FS_CardinalityType
<1>2. Cardinality(S) = 0 => S = {}
  BY FS_EmptySet
<1>3. Cardinality(S) = 1 => \E x : S = {x}
  BY FS_Singleton
<1> QED BY <1>1, <1>2, <1>3

(* No hub runs yet. *)
LEMMA HubsInitInv == HubsInit => HubsInv
BY HubSocketAssumption
DEF HubsInit, HubsInv, HubsTypeOK, StartsApart, StopsAlone, IsStopping, Starting, Stopping

(* Started apart, hubs stay out of each other's way. *)
LEMMA HubsStep == Overlap = "fresh" /\ HubsInv /\ [HubsNext]_hubsVars => HubsInv'
<1> SUFFICES ASSUME Overlap = "fresh", HubsInv, [HubsNext]_hubsVars PROVE HubsInv'
  OBVIOUS
<1> USE HubSocketAssumption DEF HubsInv, Goto
<1>1. ASSUME NEW h \in Hubs, Start(h) PROVE HubsInv'
  <2>1. HubsTypeOK'
    BY <1>1 DEF HubsTypeOK, Starting, Stopping, Over, Start
  <2>2. StartsApart'
    <3> DEFINE others == {g \in Hubs : pc[g] \in Starting}
               allowed == IF path = NoSocket THEN 1 ELSE 0
    <3>1. Cardinality(others) <= allowed
      BY <1>1 DEF Start
    <3>2. IsFiniteSet(others) /\ allowed \in {0, 1}
      BY FS_Subset
    <3>3. \A f, g \in others : f = g
      BY <3>1, <3>2, FewStarting
    <3>4. path # NoSocket => others = {}
      BY <3>1, <3>2, FewStarting
    <3>5. /\ \A f, g \in Hubs : pc[f] \in Starting /\ pc[g] \in Starting => f = g
          /\ path # NoSocket => \A g \in Hubs : pc[g] \notin Starting
      BY <3>3, <3>4
    <3>6. /\ \A g \in Hubs : g # h => pc'[g] = pc[g]
          /\ pc'[h] = "stat" /\ pc[h] = "off" /\ UNCHANGED <<path, open, cancelledHubs>>
      BY <1>1 DEF Start, HubsTypeOK
    <3> HIDE DEF others, allowed
    <3> QED BY <3>5, <3>6 DEF StartsApart, Starting
  <2>3. StopsAlone'
    BY <1>1 DEF HubsTypeOK, StartsApart, StopsAlone, IsStopping, Starting, Stopping, Over, Start
  <2> QED BY <2>1, <2>2, <2>3
<1>2. ASSUME NEW h \in Hubs, Stat(h) PROVE HubsInv'
  <2>1. HubsTypeOK'
    BY <1>2 DEF HubsTypeOK, Starting, Stopping, Over, Stat
  <2>2. StartsApart'
    BY <1>2 DEF HubsTypeOK, StartsApart, StopsAlone, IsStopping, Starting, Stopping, Over, Stat
  <2>3. StopsAlone'
    BY <1>2 DEF HubsTypeOK, StartsApart, StopsAlone, IsStopping, Starting, Stopping, Over, Stat
  <2> QED BY <2>1, <2>2, <2>3
<1>3. ASSUME NEW h \in Hubs, DialPath(h) PROVE HubsInv'
  <2>1. HubsTypeOK'
    BY <1>3 DEF HubsTypeOK, Starting, Stopping, Over, DialPath, InUse
  <2>2. StartsApart'
    BY <1>3 DEF HubsTypeOK, StartsApart, StopsAlone, IsStopping, Starting, Stopping, Over, DialPath, InUse
  <2>3. StopsAlone'
    BY <1>3 DEF HubsTypeOK, StartsApart, StopsAlone, IsStopping, Starting, Stopping, Over, DialPath, InUse
  <2> QED BY <2>1, <2>2, <2>3
<1>4. ASSUME NEW h \in Hubs, RemoveStale(h) PROVE HubsInv'
  <2>1. HubsTypeOK'
    BY <1>4 DEF HubsTypeOK, Starting, Stopping, Over, RemoveStale
  <2>2. StartsApart'
    BY <1>4 DEF HubsTypeOK, StartsApart, StopsAlone, IsStopping, Starting, Stopping, Over, RemoveStale
  <2>3. StopsAlone'
    BY <1>4 DEF HubsTypeOK, StartsApart, StopsAlone, IsStopping, Starting, Stopping, Over, RemoveStale
  <2> QED BY <2>1, <2>2, <2>3
<1>5. ASSUME NEW h \in Hubs, Bind(h) PROVE HubsInv'
  <2>1. HubsTypeOK'
    BY <1>5 DEF HubsTypeOK, Starting, Stopping, Over, Bind
  <2>2. StartsApart'
    BY <1>5 DEF HubsTypeOK, StartsApart, StopsAlone, IsStopping, Starting, Stopping, Over, Bind
  <2>3. StopsAlone'
    BY <1>5 DEF HubsTypeOK, StartsApart, StopsAlone, IsStopping, Starting, Stopping, Over, Bind
  <2> QED BY <2>1, <2>2, <2>3
<1>6. ASSUME NEW h \in Hubs, BindFails(h) PROVE HubsInv'
  <2>1. HubsTypeOK'
    BY <1>6 DEF HubsTypeOK, Starting, Stopping, Over, BindFails
  <2>2. StartsApart'
    BY <1>6 DEF HubsTypeOK, StartsApart, StopsAlone, IsStopping, Starting, Stopping, Over, BindFails
  <2>3. StopsAlone'
    BY <1>6 DEF HubsTypeOK, StartsApart, StopsAlone, IsStopping, Starting, Stopping, Over, BindFails
  <2> QED BY <2>1, <2>2, <2>3
<1>7. ASSUME NEW h \in Hubs, CancelHub(h) PROVE HubsInv'
  <2>1. HubsTypeOK'
    BY <1>7 DEF HubsTypeOK, Starting, Stopping, Over, CancelHub
  <2>2. StartsApart'
    BY <1>7 DEF HubsTypeOK, StartsApart, StopsAlone, IsStopping, Starting, Stopping, Over, CancelHub
  <2>3. StopsAlone'
    BY <1>7 DEF HubsTypeOK, StartsApart, StopsAlone, IsStopping, Starting, Stopping, Over, CancelHub
  <2> QED BY <2>1, <2>2, <2>3
<1>8. ASSUME NEW h \in Hubs, CloseListener(h) PROVE HubsInv'
  <2>1. HubsTypeOK'
    BY <1>8 DEF HubsTypeOK, Starting, Stopping, Over, CloseListener, OpenAfter
  <2>2. StartsApart'
    BY <1>8 DEF HubsTypeOK, StartsApart, StopsAlone, IsStopping, Starting, Stopping, Over, CloseListener, OpenAfter
  <2>3. StopsAlone'
    BY <1>8 DEF HubsTypeOK, StartsApart, StopsAlone, IsStopping, Starting, Stopping, Over, CloseListener, OpenAfter
  <2> QED BY <2>1, <2>2, <2>3
<1>9. ASSUME NEW h \in Hubs, HandlersDrained(h) PROVE HubsInv'
  <2>1. HubsTypeOK'
    BY <1>9 DEF HubsTypeOK, Starting, Stopping, Over, HandlersDrained
  <2>2. StartsApart'
    BY <1>9 DEF HubsTypeOK, StartsApart, StopsAlone, IsStopping, Starting, Stopping, Over, HandlersDrained
  <2>3. StopsAlone'
    BY <1>9 DEF HubsTypeOK, StartsApart, StopsAlone, IsStopping, Starting, Stopping, Over, HandlersDrained
  <2> QED BY <2>1, <2>2, <2>3
<1>10. ASSUME NEW h \in Hubs, RemoveOwn(h) PROVE HubsInv'
  <2>1. HubsTypeOK'
    BY <1>10 DEF HubsTypeOK, Starting, Stopping, Over, RemoveOwn
  <2>2. StartsApart'
    BY <1>10 DEF HubsTypeOK, StartsApart, StopsAlone, IsStopping, Starting, Stopping, Over, RemoveOwn
  <2>3. StopsAlone'
    BY <1>10 DEF HubsTypeOK, StartsApart, StopsAlone, IsStopping, Starting, Stopping, Over, RemoveOwn
  <2> QED BY <2>1, <2>2, <2>3
<1>11. ASSUME NEW h \in Hubs, Crash(h) PROVE HubsInv'
  <2>1. HubsTypeOK'
    BY <1>11 DEF HubsTypeOK, Starting, Stopping, Over, Crash
  <2>2. StartsApart'
    BY <1>11 DEF HubsTypeOK, StartsApart, StopsAlone, IsStopping, Starting, Stopping, Over, Crash
  <2>3. StopsAlone'
    BY <1>11 DEF HubsTypeOK, StartsApart, StopsAlone, IsStopping, Starting, Stopping, Over, Crash
  <2> QED BY <2>1, <2>2, <2>3
<1>12. CASE UNCHANGED hubsVars
  BY <1>12 DEF hubsVars, HubsTypeOK, StartsApart, StopsAlone, IsStopping
<1> QED BY <1>1, <1>2, <1>3, <1>4, <1>5, <1>6, <1>7, <1>8, <1>9, <1>10, <1>11, <1>12 DEF HubsNext

(* What this invariant is for. *)
LEMMA HubsFacts == HubsInv => HubsTypeOK /\ ReachableUntilCancelled
BY DEF HubsInv, StopsAlone, ReachableUntilCancelled, Serving

-----------------------------------------------------------------------------
LiveInv == SinkInv /\ HubsInv

(* The two parts keep out of each other's variables. *)
LEMMA LiveStep ==
  Overlap = "fresh" /\ LiveInv /\ [LiveNext]_liveVars => LiveInv'
<1> SUFFICES ASSUME Overlap = "fresh", LiveInv, [LiveNext]_liveVars PROVE LiveInv'
  OBVIOUS
<1>1. [Next]_vars /\ [HubsNext]_hubsVars
  BY DEF LiveNext, liveVars
<1> QED BY <1>1, SinkStep, HubsStep DEF LiveInv

(* The live sink accounts for every envelope and a hub reads in order what was sent to it, and the hub
   that serves is the one the socket path leads to until it is cancelled, if the user starts hubs as
   "fresh" says (SocketSink.Emit, run, pump; listen and Run's removal of the socket). *)
THEOREM LiveFeedIsExact == Overlap = "fresh" => (LiveSpec => []LiveFeedExact)
<1> SUFFICES ASSUME Overlap = "fresh" PROVE LiveSpec => []LiveFeedExact
  OBVIOUS
<1>1. LiveInit => LiveInv
  BY SinkInit, HubsInitInv DEF LiveInit, LiveInv
<1>2. LiveInv => LiveFeedExact
  BY SinkFacts, HubsFacts DEF LiveInv, LiveFeedExact
<1>3. LiveInv /\ [LiveNext]_liveVars => LiveInv'
  BY LiveStep
<1> QED BY <1>1, <1>2, <1>3, PTL DEF LiveSpec

-----------------------------------------------------------------------------
(***************************************************************************)
(* The OTLP sink.                                                          *)
(*                                                                         *)
(* That what was settled is sent is inductive once a call that settles is  *)
(* accounted for from then on: it was sent, or waits for an answer         *)
(* (Covered).  What waits is known to be cancelled, with the answer it had *)
(* when it began to wait (Waits): a later one would have ended the wait.   *)
(*                                                                         *)
(* That a call goes out again only after as many others as are remembered  *)
(* follows from what is remembered being the end of what was sent, without *)
(* repetition (Window).                                                    *)
(*                                                                         *)
(* That an answer is always the answer to a settled call needs that the    *)
(* last call of an id is never a superseded one (Superseding).             *)
(***************************************************************************)

(* A session's calls and the frames that come of them. *)
Call ==
  [id : Ids, name : Tools \cup {NotATool}, state : {"pending", "done", "cancelled", "superseded"},
   late : BOOLEAN, err : {Nothing, "tool", "protocol"}, task : BOOLEAN, taskEnd : TaskEnds \cup {Nothing}]
Frame ==
  [kind : {"request"}, id : Ids, name : Tools \cup {NotATool}] \cup [kind : {"response"}, id : Ids, result : Results]
  \cup [kind : {"cancel"}, id : Ids] \cup [kind : {"task"}, call : Nat \ {0}, result : TaskEnds]

(* The types of what the sink reads and keeps. *)
Shapes ==
  /\ traffic \in Seq(Call) /\ known \in Seq(Call) /\ feed \in Seq(Frame)
  /\ posted \in Seq(Nat) /\ sent \in Seq([op : Nat, answered : BOOLEAN])
  /\ awaiting \subseteq [op : Nat, answered : BOOLEAN, due : BOOLEAN]

(* What is remembered is what was sent last, without repetition. *)
Window ==
  /\ Len(posted) <= Limit /\ Len(posted) <= Len(sent)
  /\ Len(posted) < Limit => Len(posted) = Len(sent)
  /\ \A k \in 1 .. Len(posted) : posted[k] = sent[Len(sent) - Len(posted) + k].op
  /\ \A k, l \in 1 .. Len(posted) : posted[k] = posted[l] => k = l

(* What waits is cancelled and has no answer it does not know of. *)
Waits ==
  \A a \in awaiting : /\ a.op \in DOMAIN known
                      /\ known[a.op].state = "cancelled" /\ a.answered = known[a.op].late

(* Behind a superseded call there is one that took its id over. *)
Superseding(found) ==
  \A i \in DOMAIN found : found[i].state = "superseded" =>
    \E j \in DOMAIN found : j > i /\ found[j].id = found[i].id

(* Ended by its answer or by a cancellation, not by a task. *)
Settled(c) == c.state \in {"done", "cancelled"} /\ c.taskEnd = Nothing

(* A settled call was sent or waits. *)
Covered == \A i \in DOMAIN known : Settled(known[i]) => i \in SentOps \cup Holding

(* A sink that ended of itself left nothing behind. *)
Emptied == at = "over" /\ ~stopped => shut /\ feed = <<>> /\ awaiting = {}

(* The inductive invariant. *)
OtlpInv == Shapes /\ Window /\ Waits /\ Superseding(known) /\ Covered /\ Emptied

(* Every set of numbers has a least one: the well-founded order of Nat, with no induction. *)
LEMMA LeastExists == ASSUME NEW T, T \subseteq Nat, T # {} PROVE \E x \in T : \A y \in T : x <= y
<1> DEFINE below == {p \in Nat \X Nat : p[1] < p[2]}
<1>1. IsWellFoundedOn(below, Nat)
  BY NatLessThanWellFounded DEF OpToRel
<1>2. PICK x \in T : \A y \in T : ~ (<<y, x>> \in below)
  <2> HIDE DEF below
  <2> QED BY <1>1, WFMin
<1>3. \A y \in T : y \in Nat /\ x \in Nat /\ ~(y < x)
  BY <1>2
<1> QED BY <1>3

(* A bounded set of numbers has a greatest one. *)
LEMMA GreatestExists ==
  ASSUME NEW n \in Nat, NEW T, T \subseteq 1 .. n, T # {}
  PROVE  Max(T) \in T /\ \A y \in T : Max(T) >= y
<1> DEFINE U == {n - x : x \in T}
<1>1. U \subseteq Nat /\ U # {}
  <2>1. \A x \in T : x \in 1 .. n
    OBVIOUS
  <2>2. \A x \in T : n - x \in Nat
    BY <2>1
  <2> QED BY <2>2
<1>2. PICK u \in U : \A v \in U : u <= v
  <2> HIDE DEF U
  <2> QED BY <1>1, LeastExists
<1>3. PICK x \in T : u = n - x
  BY <1>2
<1>4. \A y \in T : x >= y
  <2> TAKE y \in T
  <2>1. n - y \in U /\ x \in Int /\ y \in Int
    OBVIOUS
  <2>2. n - x <= n - y
    BY <1>2, <1>3, <2>1
  <2> QED BY <2>1, <2>2
<1> QED BY <1>3, <1>4 DEF Max

(* The call an id answers for is one of the calls, the last of them. *)
LEMMA LatestIsLast ==
  ASSUME NEW found \in Seq(Call), NEW id
  PROVE  /\ Latest(found, id) \in Nat
         /\ \/ Latest(found, id) = 0 /\ \A j \in DOMAIN found : found[j].id # id
            \/ /\ Latest(found, id) \in DOMAIN found /\ found[Latest(found, id)].id = id
               /\ \A j \in DOMAIN found : found[j].id = id => j <= Latest(found, id)
<1> DEFINE used == {i \in DOMAIN found : found[i].id = id}
<1>1. used \subseteq 1 .. Len(found) /\ Len(found) \in Nat
  OBVIOUS
<1>2. CASE used = {}
  BY <1>2 DEF Latest
<1>3. CASE used # {}
  <2> HIDE DEF used
  <2>1. Max(used) \in used /\ \A y \in used : Max(used) >= y
    BY <1>1, <1>3, GreatestExists
  <2>2. Latest(found, id) = Max(used)
    BY <1>3 DEF Latest, used
  <2>3. Max(used) \in 1 .. Len(found)
    BY <1>1, <2>1
  <2>4. \A j \in used : j <= Max(used)
    BY <1>1, <2>1, <2>3
  <2> QED BY <1>1, <2>1, <2>2, <2>3, <2>4 DEF used
<1> QED BY <1>2, <1>3

(* What one frame does to the calls: at most one of them is opened and at most one is moved on. *)
LEMMA AnswerTyped == ASSUME NEW c \in Call, NEW r \in Results
                     PROVE  /\ AnswerCall(c, r) \in Call /\ AnswerCall(c, r).id = c.id
                            /\ AnswerCall(c, r).taskEnd = c.taskEnd
                            /\ AnswerCall(c, r).state = "superseded" => c.state = "superseded"
                            /\ c.state = "cancelled" => AnswerCall(c, r).state = "cancelled" /\ AnswerCall(c, r).late
                            /\ c.state = "done" => AnswerCall(c, r).state = "done"
                            /\ AnswerCall(c, r).state = "pending" \/ AnswerCall(c, r).state = "superseded"
                                 \/ HasAnswer(AnswerCall(c, r))
                            /\ AnswerCall(c, r).state = "pending" => c.state = "pending"
                            /\ AnswerCall(c, r).state = "cancelled" => c.state = "cancelled"
<1> DEFINE e == ErrOf(r)
<1>1. e \in {Nothing, "tool", "protocol"}
  BY DEF ErrOf
<1> HIDE DEF e
<1>2. CASE c.state = "cancelled" /\ ~c.late
  <2>1. AnswerCall(c, r) = [c EXCEPT !.late = TRUE, !.err = e]
    BY <1>2 DEF AnswerCall, e
  <2> QED BY <1>1, <1>2, <2>1 DEF Call, HasAnswer
<1>3. CASE c.state = "pending" /\ ~StartsTask(c, r)
  <2>1. AnswerCall(c, r) = [c EXCEPT !.state = "done", !.err = e]
    BY <1>3 DEF AnswerCall, e
  <2> QED BY <1>1, <1>3, <2>1 DEF Call, HasAnswer
<1>4. CASE c.state = "pending" /\ StartsTask(c, r)
  <2>1. AnswerCall(c, r) = [c EXCEPT !.task = TRUE]
    BY <1>4 DEF AnswerCall
  <2> QED BY <1>4, <2>1 DEF Call
<1>5. CASE c.state \in {"done", "superseded"} \/ (c.state = "cancelled" /\ c.late)
  <2>1. AnswerCall(c, r) = c
    BY <1>5 DEF AnswerCall
  <2> QED BY <1>5, <2>1 DEF HasAnswer
<1>6. c.state \in {"pending", "done", "cancelled", "superseded"}
  BY DEF Call
<1> QED BY <1>2, <1>3, <1>4, <1>5, <1>6

(* A cancellation ends a pending call and leaves any other alone. *)
LEMMA CancelTyped == ASSUME NEW c \in Call
                     PROVE  /\ CancelCall(c) \in Call /\ CancelCall(c).id = c.id
                            /\ CancelCall(c).taskEnd = c.taskEnd
                            /\ CancelCall(c) = c \/ (c.state = "pending" /\ CancelCall(c).state = "cancelled" /\ CancelCall(c).late = c.late)
BY DEF CancelCall, Cancellable, Call, Done

(* A task's end ends a pending call, which is then not one an answer settled. *)
LEMMA TaskTyped == ASSUME NEW c \in Call, NEW end \in TaskEnds
                   PROVE  /\ ApplyTaskState(c, end) \in Call /\ ApplyTaskState(c, end).id = c.id
                          /\ \/ ApplyTaskState(c, end) = c
                             \/ /\ c.state = "pending" /\ ApplyTaskState(c, end).state = "done"
                                /\ ApplyTaskState(c, end).taskEnd # Nothing
BY DEF ApplyTaskState, Call, Done, TaskEnds, Nothing, ErrOf

(* Moved(found, after, i): call i may have changed, the others are as they were. *)
Moved(found, after, i) ==
  /\ after \in Seq(Call) /\ DOMAIN after = DOMAIN found
  /\ \A j \in DOMAIN found : j # i => after[j] = found[j]

(* Replacing one call by a call. *)
LEMMA MoveOne ==
  ASSUME NEW found \in Seq(Call), NEW i, NEW c, i \in DOMAIN found => c \in Call
  PROVE  /\ Moved(found, [found EXCEPT ![i] = c], i)
         /\ i \in DOMAIN found => [found EXCEPT ![i] = c][i] = c
<1>1. PICK n \in Nat : found \in [1 .. n -> Call]
  BY SeqDef
<1>2. [found EXCEPT ![i] = c] \in [1 .. n -> Call]
  BY <1>1
<1>3. [found EXCEPT ![i] = c] \in Seq(Call)
  BY <1>2, SeqDef
<1> QED BY <1>1, <1>3 DEF Moved

(* A request opens a call at the end and may end the open one of its id. *)
LEMMA OpenOne ==
  ASSUME NEW found \in Seq(Call), NEW f \in Frame, f.kind = "request"
  PROVE  /\ OpenCall(found, f) \in Seq(Call) /\ Len(OpenCall(found, f)) = Len(found) + 1
         /\ OpenCall(found, f)[Len(found) + 1] = Opened(f.id, f.name)
         /\ \A j \in 1 .. Len(found) :
              \/ OpenCall(found, f)[j] = found[j]
              \/ /\ found[j].state = "pending" /\ found[j].id = f.id
                 /\ OpenCall(found, f)[j] = [found[j] EXCEPT !.state = "superseded"]
<1> DEFINE i == Latest(found, f.id)
           base == IF i # 0 /\ ~Done(found[i]) THEN [found EXCEPT ![i].state = "superseded"] ELSE found
           n == Len(found)
<1>1. /\ i = 0 \/ (i \in DOMAIN found /\ found[i].id = f.id)
      /\ n \in Nat /\ DOMAIN found = 1 .. n
  BY LatestIsLast
<1>2. f.id \in Ids /\ f.name \in Tools \cup {NotATool}
  BY DEF Frame
<1>3. Opened(f.id, f.name) \in Call
  BY <1>2 DEF Opened, Call, Nothing
<1> HIDE DEF i
<1>4. /\ base \in Seq(Call) /\ Len(base) = n
      /\ \A j \in 1 .. n : \/ base[j] = found[j]
                           \/ /\ found[j].state = "pending" /\ found[j].id = f.id
                              /\ base[j] = [found[j] EXCEPT !.state = "superseded"]
  <2>1. CASE i # 0 /\ ~Done(found[i])
    <3>1. i \in 1 .. n /\ found[i] \in Call /\ found[i].id = f.id /\ found[i].state = "pending"
      BY <1>1, <2>1 DEF Done
    <3>2. [found[i] EXCEPT !.state = "superseded"] \in Call
      BY <3>1 DEF Call
    <3>3. base = [found EXCEPT ![i] = [found[i] EXCEPT !.state = "superseded"]]
      BY <2>1
    <3> QED BY <3>1, <3>2, <3>3
  <2>2. CASE ~(i # 0 /\ ~Done(found[i]))
    BY <1>1, <2>2
  <2> QED BY <2>1, <2>2
<1>5. OpenCall(found, f) = Append(base, Opened(f.id, f.name))
  BY DEF OpenCall, i
<1> HIDE DEF base
<1>6. /\ OpenCall(found, f) \in Seq(Call) /\ Len(OpenCall(found, f)) = n + 1
      /\ OpenCall(found, f)[n + 1] = Opened(f.id, f.name)
      /\ \A j \in 1 .. n : OpenCall(found, f)[j] = base[j]
  BY <1>1, <1>3, <1>4, <1>5
<1> QED BY <1>1, <1>4, <1>6

(* Any other frame moves on at most the call it is about. *)
LEMMA IngestMoves ==
  ASSUME NEW found \in Seq(Call), NEW f \in Frame, f.kind # "request"
  PROVE  LET i == IF f.kind = "task" THEN f.call ELSE Latest(found, f.id)
         IN  /\ Moved(found, Ingest(found, f), i)
             /\ i \in DOMAIN found =>
                  Ingest(found, f)[i] = CASE f.kind = "response" -> AnswerCall(found[i], f.result)
                                          [] f.kind = "cancel" -> CancelCall(found[i])
                                          [] f.kind = "task" -> ApplyTaskState(found[i], f.result)
<1> DEFINE i == IF f.kind = "task" THEN f.call ELSE Latest(found, f.id)
           c == CASE f.kind = "response" -> AnswerCall(found[i], f.result)
                  [] f.kind = "cancel" -> CancelCall(found[i])
                  [] f.kind = "task" -> ApplyTaskState(found[i], f.result)
<1>1. /\ f.kind \in {"response", "cancel", "task"}
      /\ f.kind = "response" => f.result \in Results
      /\ f.kind = "task" => f.call \in Nat \ {0} /\ f.result \in TaskEnds
  BY DEF Frame
<1>2. 0 \notin DOMAIN found
  OBVIOUS
<1>3. i \in DOMAIN found => c \in Call
  BY <1>1, AnswerTyped, CancelTyped, TaskTyped
<1>4. Ingest(found, f) = IF i # 0 THEN [found EXCEPT ![i] = c] ELSE found
  BY <1>1 DEF Ingest
<1> HIDE DEF i, c
<1>5. Moved(found, Ingest(found, f), i) /\ (i \in DOMAIN found => Ingest(found, f)[i] = c)
  <2>1. CASE i # 0
    <3>1. /\ Moved(found, [found EXCEPT ![i] = c], i)
          /\ i \in DOMAIN found => [found EXCEPT ![i] = c][i] = c
      BY <1>3, MoveOne
    <3>2. Ingest(found, f) = [found EXCEPT ![i] = c]
      BY <1>4, <2>1
    <3> QED BY <3>1, <3>2
  <2>2. CASE i = 0
    BY <1>2, <1>4, <2>2 DEF Moved
  <2> QED BY <2>1, <2>2
<1> QED BY <1>5 DEF i, c

(* A session's calls stay calls, and a call whose state says another took its id over has one. *)
LEMMA IngestTyped ==
  ASSUME NEW found \in Seq(Call), NEW f \in Frame
  PROVE  Ingest(found, f) \in Seq(Call) /\ Len(Ingest(found, f)) \in {Len(found), Len(found) + 1}
<1>1. CASE f.kind = "request"
  <2>1. Ingest(found, f) = OpenCall(found, f)
    BY <1>1 DEF Ingest
  <2> QED BY <1>1, <2>1, OpenOne
<1>2. CASE f.kind # "request"
  <2>1. Ingest(found, f) \in Seq(Call) /\ DOMAIN Ingest(found, f) = DOMAIN found
    BY <1>2, IngestMoves DEF Moved
  <2>2. Len(Ingest(found, f)) = Len(found)
    BY <2>1, LenProperties
  <2> QED BY <2>1, <2>2
<1> QED BY <1>1, <1>2

(* A superseded call stays behind a later one of its id. *)
LEMMA IngestSupersedes ==
  ASSUME NEW found \in Seq(Call), NEW f \in Frame, Superseding(found)
  PROVE  Superseding(Ingest(found, f))
<1> DEFINE after == Ingest(found, f)
           n == Len(found)
<1>1. n \in Nat /\ DOMAIN found = 1 .. n
  OBVIOUS
<1>2. CASE f.kind = "request"
  <2>1. /\ after \in Seq(Call) /\ Len(after) = n + 1 /\ after[n + 1] = Opened(f.id, f.name)
        /\ \A j \in 1 .. n : \/ after[j] = found[j]
                             \/ /\ found[j].state = "pending" /\ found[j].id = f.id
                                /\ after[j] = [found[j] EXCEPT !.state = "superseded"]
    <3>1. after = OpenCall(found, f)
      BY <1>2 DEF Ingest
    <3> HIDE DEF after
    <3>2. /\ OpenCall(found, f) \in Seq(Call) /\ Len(OpenCall(found, f)) = Len(found) + 1
          /\ OpenCall(found, f)[Len(found) + 1] = Opened(f.id, f.name)
          /\ \A j \in 1 .. Len(found) :
               \/ OpenCall(found, f)[j] = found[j]
               \/ /\ found[j].state = "pending" /\ found[j].id = f.id
                  /\ OpenCall(found, f)[j] = [found[j] EXCEPT !.state = "superseded"]
      BY <1>2, OpenOne, found \in Seq(Call), f \in Frame
    <3> QED BY <3>1, <3>2
  <2> HIDE DEF after, n
  <2>2. \A j \in 1 .. n : after[j].id = found[j].id
    <3> TAKE j \in 1 .. n
    <3>1. found[j] \in Call
      BY <1>1
    <3> QED BY <2>1, <3>1 DEF Call
  <2>3. after[n + 1].id = f.id /\ after[n + 1].state = "pending"
    BY <2>1 DEF Opened
  <2>4. DOMAIN after = 1 .. n + 1
    BY <1>1, <2>1
  <2> SUFFICES ASSUME NEW i \in DOMAIN after, after[i].state = "superseded"
               PROVE  \E j \in DOMAIN after : j > i /\ after[j].id = after[i].id
    BY DEF Superseding, after
  <2>5. i \in 1 .. n
    BY <1>1, <2>3, <2>4
  <2>6. CASE after[i] = found[i]
    <3>1. PICK j \in 1 .. n : j > i /\ found[j].id = found[i].id
      BY <1>1, <2>5, <2>6 DEF Superseding
    <3> QED BY <1>1, <2>2, <2>4, <2>5, <3>1
  <2>7. CASE found[i].id = f.id
    BY <1>1, <2>2, <2>3, <2>4, <2>5, <2>7
  <2> QED BY <2>1, <2>5, <2>6, <2>7
<1>3. CASE f.kind # "request"
  <2> DEFINE i == IF f.kind = "task" THEN f.call ELSE Latest(found, f.id)
  <2>1. /\ Moved(found, after, i)
        /\ i \in DOMAIN found =>
             after[i] = CASE f.kind = "response" -> AnswerCall(found[i], f.result)
                          [] f.kind = "cancel" -> CancelCall(found[i])
                          [] f.kind = "task" -> ApplyTaskState(found[i], f.result)
    BY <1>3, IngestMoves
  <2>2. i \in DOMAIN found => /\ after[i].id = found[i].id
                              /\ after[i].state = "superseded" => found[i].state = "superseded"
    <3>1. /\ f.kind \in {"response", "cancel", "task"}
          /\ f.kind = "response" => f.result \in Results
          /\ f.kind = "task" => f.result \in TaskEnds
      BY <1>3 DEF Frame
    <3> HIDE DEF i, after
    <3>2. i \in DOMAIN found => found[i] \in Call
      BY <1>1
    <3> QED BY <2>1, <3>1, <3>2, AnswerTyped, CancelTyped, TaskTyped
  <2> HIDE DEF i, after
  <2> QED BY <2>1, <2>2 DEF Moved, Superseding, after
<1> QED BY <1>2, <1>3

(* What the sink learns from a frame: the call the frame is about, if it names one, is the only call
   that may settle; a call cancelled stays so, and answered or not as it was, unless a response is what
   came; and after a response a settled call has its answer, the last of its id being superseded by none. *)
LEMMA IngestEvent ==
  ASSUME NEW found \in Seq(Call), NEW f \in Frame, Superseding(found),
         NEW after, after = Ingest(found, f), NEW i, i = EventCall(found, f)
  PROVE  /\ DOMAIN found \subseteq DOMAIN after /\ (i = 0 \/ i \in DOMAIN after)
         /\ \A j \in DOMAIN after \ DOMAIN found : ~Done(after[j])
         /\ \A j \in DOMAIN found :
              j # i \/ f.kind # "response" =>
                /\ found[j].state = "cancelled" => after[j].state = "cancelled" /\ after[j].late = found[j].late
                /\ Settled(after[j]) => Settled(found[j]) \/ (j = i /\ f.kind = "cancel" /\ after[j].state = "cancelled")
         /\ i # 0 /\ f.kind = "request" => ~Done(after[i])
         /\ i # 0 /\ f.kind = "response" /\ Done(after[i]) => HasAnswer(after[i])
         /\ i \in DOMAIN found /\ f.kind = "response" /\ found[i].state = "cancelled" => Done(after[i])
<1> DEFINE n == Len(found)
<1>1. n \in Nat /\ DOMAIN found = 1 .. n
  OBVIOUS
<1>2. after \in Seq(Call) /\ Superseding(after)
  BY IngestTyped, IngestSupersedes
<1>3. Len(after) \in Nat /\ DOMAIN after = 1 .. Len(after)
  BY <1>2
<1>4. /\ f.kind = "request" => i = n + 1
      /\ f.kind = "response" => i = Latest(found, f.id)
      /\ f.kind = "cancel" =>
           \/ i = Latest(found, f.id)
           \/ i = 0 /\ (Latest(found, f.id) # 0 => CancelCall(found[Latest(found, f.id)]) = found[Latest(found, f.id)])
      /\ f.kind = "task" => i = 0
  BY DEF EventCall, CancelCall
<1>5. CASE f.kind = "request"
  <2>1. /\ Len(after) = n + 1 /\ after[n + 1] = Opened(f.id, f.name)
        /\ \A j \in 1 .. n : \/ after[j] = found[j]
                             \/ /\ found[j].state = "pending" /\ found[j].id = f.id
                                /\ after[j] = [found[j] EXCEPT !.state = "superseded"]
    <3>1. after = OpenCall(found, f)
      BY <1>5 DEF Ingest
    <3>2. /\ Len(OpenCall(found, f)) = Len(found) + 1
          /\ OpenCall(found, f)[Len(found) + 1] = Opened(f.id, f.name)
          /\ \A j \in 1 .. Len(found) :
               \/ OpenCall(found, f)[j] = found[j]
               \/ /\ found[j].state = "pending" /\ found[j].id = f.id
                  /\ OpenCall(found, f)[j] = [found[j] EXCEPT !.state = "superseded"]
      BY <1>5, OpenOne
    <3> QED BY <3>1, <3>2
  <2>2. \A j \in 1 .. n : \/ after[j] = found[j]
                          \/ found[j].state = "pending" /\ after[j].state = "superseded"
    <3> TAKE j \in 1 .. n
    <3>1. found[j] \in Call
      BY <1>1
    <3> QED BY <2>1, <3>1 DEF Call
  <2> HIDE DEF n
  <2>3. after[n + 1].state = "pending" /\ after[n + 1].id = f.id
    BY <2>1 DEF Opened
  <2>4. DOMAIN after = 1 .. n + 1
    BY <1>3, <2>1
  <2>5. i = n + 1 /\ i \in DOMAIN after
    BY <1>1, <1>4, <1>5, <2>4 DEF n
  <2>6. DOMAIN found \subseteq DOMAIN after
    BY <1>1, <2>4
  <2>7. \A j \in DOMAIN after \ DOMAIN found : j = n + 1
    BY <1>1, <2>4
  <2> QED BY <1>1, <1>5, <2>2, <2>3, <2>5, <2>6, <2>7 DEF Done, Settled
<1>6. CASE f.kind # "request"
  <2> DEFINE m == IF f.kind = "task" THEN f.call ELSE Latest(found, f.id)
  <2>1. /\ Moved(found, after, m)
        /\ m \in DOMAIN found =>
             after[m] = CASE f.kind = "response" -> AnswerCall(found[m], f.result)
                          [] f.kind = "cancel" -> CancelCall(found[m])
                          [] f.kind = "task" -> ApplyTaskState(found[m], f.result)
    BY <1>6, IngestMoves
  <2>2. /\ f.kind \in {"response", "cancel", "task"}
        /\ f.kind = "response" => f.result \in Results
        /\ f.kind = "task" => f.result \in TaskEnds
    BY <1>6 DEF Frame
  <2>3. f.kind # "task" => /\ m \in Nat
                           /\ m = 0 \/ (m \in DOMAIN found /\ found[m].id = f.id)
                           /\ m # 0 => \A j \in DOMAIN found : found[j].id = f.id => j <= m
                           /\ m = 0 => \A j \in DOMAIN found : found[j].id # f.id
    BY LatestIsLast
  <2> HIDE DEF m, n
  <2>4. DOMAIN after = DOMAIN found /\ \A j \in DOMAIN found : j # m => after[j] = found[j]
    BY <2>1 DEF Moved
  <2>5. m \in DOMAIN found => found[m] \in Call
    BY <1>1
  <2>6. \A j \in DOMAIN found : after[j].id = found[j].id
    BY <2>1, <2>2, <2>4, <2>5, AnswerTyped, CancelTyped, TaskTyped
  <2>7. /\ f.kind = "response" => i = m
        /\ f.kind = "cancel" => i = m \/ (i = 0 /\ (m # 0 => CancelCall(found[m]) = found[m]))
        /\ i = 0 \/ i \in DOMAIN after
    BY <1>4, <2>2, <2>3, <2>4 DEF m
  <2>8. CASE f.kind = "response"
    <3>1. i = m /\ (i \in DOMAIN found => after[i] = AnswerCall(found[i], f.result) /\ found[i] \in Call)
      BY <2>1, <2>5, <2>7, <2>8
    <3>2. i # 0 => i \in DOMAIN found
      BY <2>4, <2>7
    <3>3. i # 0 /\ Done(after[i]) => HasAnswer(after[i])
      <4> SUFFICES ASSUME i # 0, Done(after[i]) PROVE HasAnswer(after[i])
        OBVIOUS
      <4>1. after[i].state # "superseded"
        <5>1. after[i].id = f.id /\ \A j \in DOMAIN after : after[j].id = f.id => j <= i
          BY <2>3, <2>4, <2>6, <2>8, <3>1, <3>2
        <5> QED BY <1>1, <1>2, <2>4, <3>2, <5>1 DEF Superseding
      <4>2. after[i].state = "pending" \/ after[i].state = "superseded" \/ HasAnswer(after[i])
        BY <2>2, <2>8, <3>1, <3>2, AnswerTyped
      <4> QED BY <4>1, <4>2 DEF Done
    <3>4. i \in DOMAIN found /\ found[i].state = "cancelled" => Done(after[i])
      BY <2>2, <2>8, <3>1, AnswerTyped DEF Done
    <3> QED BY <2>4, <2>7, <2>8, <3>1, <3>3, <3>4
  <2>9. CASE f.kind = "cancel"
    <3>1. m \in DOMAIN found => after[m] = CancelCall(found[m]) /\ found[m] \in Call
      BY <2>1, <2>5, <2>9
    <3>2. m \in DOMAIN found =>
            after[m] = found[m] \/ (i = m /\ found[m].state = "pending" /\ after[m].state = "cancelled")
      BY <1>1, <2>7, <2>9, <3>1, CancelTyped
    <3> QED BY <2>4, <2>7, <2>9, <3>2
  <2>10. CASE f.kind = "task"
    <3>1. m \in DOMAIN found => \/ after[m] = found[m]
                                \/ found[m].state = "pending" /\ after[m].taskEnd # Nothing
      BY <2>1, <2>2, <2>5, <2>10, TaskTyped
    <3> QED BY <1>4, <2>4, <2>7, <2>10, <3>1 DEF Settled
  <2> QED BY <2>2, <2>8, <2>9, <2>10
<1> QED BY <1>5, <1>6

-----------------------------------------------------------------------------

(* Remembering one more: the last Limit of what was sent. *)
LEMMA RememberedTail ==
  ASSUME Shapes, Window, NEW i \in Nat, ~Contains(posted, i)
  PROVE  /\ Remembered(i) \in Seq(Nat)
         /\ \E drop \in {0, 1} :
              /\ Len(Remembered(i)) = Len(posted) - drop + 1
              /\ drop = 1 <=> Len(posted) = Limit
              /\ \A k \in 1 .. Len(posted) - drop : Remembered(i)[k] = posted[k + drop]
              /\ Remembered(i)[Len(posted) - drop + 1] = i
<1> USE OtlpAssumption
<1>1. posted \in Seq(Nat) /\ Len(posted) \in Nat /\ Len(posted) <= Limit
  BY DEF Shapes, Window
<1>2. CASE Len(posted) >= Limit
  <2>1. posted # <<>> /\ Len(posted) = Limit
    BY <1>1, <1>2
  <2>2. /\ Tail(posted) \in Seq(Nat) /\ Len(Tail(posted)) = Len(posted) - 1
        /\ \A k \in 1 .. Len(posted) - 1 : Tail(posted)[k] = posted[k + 1]
    BY <1>1, <2>1
  <2>3. Remembered(i) = Tail(posted) \o <<i>>
    BY <1>2 DEF Remembered
  <2> DEFINE t == Tail(posted)
             m == Len(posted) - 1
  <2>4. t \in Seq(Nat) /\ Len(t) = m /\ m \in Nat
    BY <1>1, <2>1, <2>2
  <2>5. Remembered(i) = t \o <<i>>
    BY <2>3
  <2> HIDE DEF t, m
  <2>6. Remembered(i) \in Seq(Nat) /\ Len(Remembered(i)) = m + 1
    BY <2>4, <2>5
  <2>7. Remembered(i)[m + 1] = i
    BY <2>4, <2>5
  <2>8. \A k \in 1 .. m : Remembered(i)[k] = t[k]
    BY <2>4, <2>5
  <2>9. /\ Remembered(i) \in Seq(Nat) /\ Len(Remembered(i)) = Len(posted) - 1 + 1
        /\ \A k \in 1 .. Len(posted) - 1 : Remembered(i)[k] = posted[k + 1]
        /\ Remembered(i)[Len(posted) - 1 + 1] = i
    BY <1>1, <2>2, <2>6, <2>7, <2>8 DEF t, m
  <2> QED BY <2>1, <2>9
<1>3. CASE ~(Len(posted) >= Limit)
  <2>1. Remembered(i) = posted \o <<i>>
    BY <1>3 DEF Remembered
  <2>2. /\ Remembered(i) \in Seq(Nat) /\ Len(Remembered(i)) = Len(posted) - 0 + 1
        /\ \A k \in 1 .. Len(posted) - 0 : Remembered(i)[k] = posted[k + 0]
        /\ Remembered(i)[Len(posted) - 0 + 1] = i
    BY <1>1, <2>1
  <2> QED BY <1>1, <1>3, <2>2
<1> QED BY <1>2, <1>3

(* send: an operation goes out unless it is remembered, and what is remembered is what went out last. *)
LEMMA SendKeepsWindow ==
  ASSUME Shapes, Window, NEW i \in Nat, NEW answered \in BOOLEAN, Send(i, answered)
  PROVE  /\ posted' \in Seq(Nat) /\ sent' \in Seq([op : Nat, answered : BOOLEAN])
         /\ Window' /\ at' \in {"loop", "post"}
         /\ SentOps \subseteq SentOps' /\ i \in SentOps'
         /\ sent' # sent => sent' = Append(sent, [op |-> i, answered |-> answered]) /\ ~Contains(posted, i)
<1> USE OtlpAssumption
<1>1. /\ posted \in Seq(Nat) /\ Len(posted) \in Nat
      /\ sent \in Seq([op : Nat, answered : BOOLEAN]) /\ Len(sent) \in Nat
      /\ DOMAIN sent = 1 .. Len(sent)
  BY DEF Shapes
<1>2. CASE Contains(posted, i)
  <2>1. UNCHANGED <<posted, sent>> /\ at' = "loop"
    BY <1>2 DEF Send
  <2>2. PICK k \in 1 .. Len(posted) : posted[k] = i
    BY <1>2 DEF Contains
  <2>3. /\ Len(sent) - Len(posted) + k \in 1 .. Len(sent)
        /\ sent[Len(sent) - Len(posted) + k].op = i
    <3>1. Len(posted) <= Len(sent) /\ posted[k] = sent[Len(sent) - Len(posted) + k].op
      BY <2>2 DEF Window
    <3>2. Len(sent) - Len(posted) + k \in 1 .. Len(sent)
      BY <1>1, <2>2, <3>1
    <3> QED BY <2>2, <3>1, <3>2
  <2>4. i \in SentOps
    BY <1>1, <2>3 DEF SentOps
  <2> QED BY <1>1, <2>1, <2>4 DEF Window, SentOps
<1>3. CASE ~Contains(posted, i)
  <2> DEFINE last == [op |-> i, answered |-> answered]
             L == Len(sent)
             P == Len(posted)
  <2>1. posted' = Remembered(i) /\ at' = "post" /\ sent' = Append(sent, last)
    BY <1>3 DEF Send
  <2>2. PICK drop \in {0, 1} :
          /\ Len(Remembered(i)) = P - drop + 1
          /\ drop = 1 <=> P = Limit
          /\ \A k \in 1 .. P - drop : Remembered(i)[k] = posted[k + drop]
          /\ Remembered(i)[P - drop + 1] = i
    BY <1>3, RememberedTail
  <2>3. posted' \in Seq(Nat)
    BY <1>3, <2>1, RememberedTail
  <2>4. last \in [op : Nat, answered : BOOLEAN] /\ last.op = i
    OBVIOUS
  <2> HIDE DEF last
  <2>5. /\ sent' \in Seq([op : Nat, answered : BOOLEAN]) /\ Len(sent') = L + 1
        /\ sent'[L + 1] = last
        /\ \A k \in 1 .. L : sent'[k] = sent[k]
    BY <1>1, <2>1, <2>4
  <2> DEFINE Q == Len(posted')
  <2>6. Q = P - drop + 1 /\ L \in Nat /\ P \in Nat /\ Len(sent') = L + 1
    BY <1>1, <2>1, <2>2, <2>5
  <2>7. /\ P <= Limit /\ P <= L /\ (P < Limit => P = L)
        /\ \A k \in 1 .. P : posted[k] = sent[L - P + k].op
        /\ \A k, l \in 1 .. P : posted[k] = posted[l] => k = l
    BY DEF Window
  <2>8. \A k \in 1 .. P - drop : posted'[k] = posted[k + drop]
    BY <2>1, <2>2
  <2>9. posted'[P - drop + 1] = i
    BY <2>1, <2>2
  <2>10. \A k \in 1 .. P : posted[k] # i
    BY <1>3 DEF Contains
  <2> HIDE DEF L, P, Q
  <2>11. Q <= Limit /\ Q <= L + 1 /\ (Q < Limit => Q = L + 1)
    BY <2>2, <2>6, <2>7
  <2>12. \A k \in 1 .. Q : posted'[k] = sent'[L + 1 - Q + k].op
    <3> TAKE k \in 1 .. Q
    <3>1. CASE k = P - drop + 1
      <4>1. L + 1 - Q + k = L + 1
        BY <2>6, <3>1
      <4> QED BY <2>4, <2>5, <2>9, <3>1, <4>1
    <3>2. CASE k # P - drop + 1
      <4>1. k \in 1 .. P - drop /\ k + drop \in 1 .. P
        BY <2>6, <3>2
      <4>2. L + 1 - Q + k = L - P + (k + drop)
        BY <2>6, <4>1
      <4>3. L - P + (k + drop) \in 1 .. L
        <5>1. P <= L /\ k + drop \in 1 .. P
          BY <2>7, <4>1
        <5> QED BY <2>6, <5>1
      <4> QED BY <2>5, <2>7, <2>8, <4>1, <4>2, <4>3
    <3> QED BY <3>1, <3>2
  <2>13. \A k, l \in 1 .. Q : posted'[k] = posted'[l] => k = l
    <3> TAKE k, l \in 1 .. Q
    <3>1. k = P - drop + 1 \/ (k \in 1 .. P - drop /\ k + drop \in 1 .. P)
      BY <2>6
    <3>2. l = P - drop + 1 \/ (l \in 1 .. P - drop /\ l + drop \in 1 .. P)
      BY <2>6
    <3>3. CASE k \in 1 .. P - drop /\ l \in 1 .. P - drop
      <4>1. posted'[k] = posted[k + drop] /\ posted'[l] = posted[l + drop]
        BY <2>8, <3>3
      <4>2. posted[k + drop] = posted[l + drop] => k + drop = l + drop
        BY <2>6, <2>7, <3>1, <3>2, <3>3
      <4> QED BY <2>6, <4>1, <4>2
    <3>4. \A m \in 1 .. P - drop : posted'[m] # i
      <4> TAKE m \in 1 .. P - drop
      <4>1. m + drop \in 1 .. P
        BY <2>6
      <4> QED BY <2>8, <2>10, <4>1
    <3> QED BY <2>9, <3>1, <3>2, <3>3, <3>4
  <2>14. SentOps \subseteq SentOps' /\ i \in SentOps'
    <3>1. DOMAIN sent' = 1 .. L + 1
      BY <2>5
    <3>2. SentOps' = {sent'[k].op : k \in 1 .. L + 1}
      BY <3>1 DEF SentOps
    <3>3. SentOps = {sent[k].op : k \in 1 .. L}
      BY <1>1 DEF SentOps, L
    <3> QED BY <2>4, <2>5, <2>6, <3>2, <3>3
  <2>15. Window'
    BY <2>6, <2>11, <2>12, <2>13 DEF Window, Q, L
  <2> QED BY <1>3, <2>1, <2>3, <2>5, <2>14, <2>15 DEF last
<1> QED BY <1>2, <1>3

(* What goes out was not remembered: since it last went out, as many others did as are remembered. *)
LEMMA SendsAgainAfterLimit ==
  ASSUME Shapes, Window, NEW i \in Nat, NEW answered \in BOOLEAN, ~Contains(posted, i),
         sent' = Append(sent, [op |-> i, answered |-> answered])
  PROVE  \A j \in DOMAIN sent : Again(j, Len(sent))'
<1> USE OtlpAssumption
<1> DEFINE L == Len(sent)
           P == Len(posted)
<1>1. /\ posted \in Seq(Nat) /\ P \in Nat
      /\ sent \in Seq([op : Nat, answered : BOOLEAN]) /\ L \in Nat
      /\ DOMAIN sent = 1 .. L
  BY DEF Shapes
<1>2. [op |-> i, answered |-> answered] \in [op : Nat, answered : BOOLEAN]
  OBVIOUS
<1>3. /\ Len(sent') = L + 1 /\ sent'[L + 1].op = i
      /\ \A k \in 1 .. L : sent'[k] = sent[k]
  BY <1>1, <1>2
<1>4. /\ P <= Limit /\ P <= L /\ (P < Limit => P = L)
      /\ \A k \in 1 .. P : posted[k] = sent[L - P + k].op
      /\ \A k, l \in 1 .. P : posted[k] = posted[l] => k = l
      /\ \A k \in 1 .. P : posted[k] # i
  BY DEF Window, Contains
<1>5. posted \in [1 .. P -> Nat]
  BY <1>1
<1> HIDE DEF L, P
<1> SUFFICES ASSUME NEW j \in 1 .. L, sent'[j].op = i
             PROVE  Cardinality({sent'[k].op : k \in j + 1 .. L}) >= Limit
  <2>1. Len(sent)' = L + 1 /\ (L + 1) - 1 = L
    BY <1>1, <1>3
  <2> QED BY <1>1, <1>3, <2>1 DEF Again
<1> DEFINE between == {sent'[k].op : k \in j + 1 .. L}
           remembered == {posted[k] : k \in 1 .. P}
<1>6. j <= L - P
  <2> SUFFICES ASSUME j > L - P PROVE FALSE
    BY <1>1, <1>4
  <2>1. j - (L - P) \in 1 .. P /\ L - P + (j - (L - P)) = j
    BY <1>1, <1>4
  <2>2. posted[j - (L - P)] = sent[j].op
    BY <1>4, <2>1
  <2> QED BY <1>3, <1>4, <2>1, <2>2
<1>7. P = Limit
  BY <1>1, <1>4, <1>6
<1>8. remembered \subseteq between
  <2> SUFFICES ASSUME NEW k \in 1 .. P PROVE posted[k] \in between
    OBVIOUS
  <2>1. L - P + k \in j + 1 .. L /\ L - P + k \in 1 .. L
    BY <1>1, <1>4, <1>6
  <2>2. posted[k] = sent'[L - P + k].op
    BY <1>3, <1>4, <2>1
  <2> QED BY <2>1, <2>2
<1>9. Cardinality(remembered) = Limit /\ IsFiniteSet(remembered)
  <2>1. posted \in Surjection(1 .. P, remembered) /\ posted \in Injection(1 .. P, remembered)
    BY <1>4, <1>5 DEF Surjection, Injection, IsInjective
  <2>2. IsFiniteSet(1 .. P) /\ Cardinality(1 .. P) = P
    <3>1. 1 \in Int /\ P \in Int /\ ~(1 > P) /\ P - 1 + 1 = P
      BY <1>1, <1>7
    <3> QED BY <3>1, FS_Interval
  <2> HIDE DEF remembered
  <2> QED BY <1>7, <2>1, <2>2, FS_Surjection
<1>10. IsFiniteSet(between)
  <2> DEFINE f == [k \in j + 1 .. L |-> sent'[k].op]
  <2>1. f \in Surjection(j + 1 .. L, between)
    BY DEF Surjection
  <2>2. IsFiniteSet(j + 1 .. L)
    BY <1>1, FS_Interval
  <2> HIDE DEF f, between
  <2> QED BY <2>1, <2>2, FS_Surjection
<1>11. Cardinality(between) \in Nat
  <2> HIDE DEF between
  <2> QED BY <1>10, FS_CardinalityType
<1> HIDE DEF between, remembered
<1>12. Cardinality(remembered) <= Cardinality(between)
  BY <1>8, <1>10, FS_Subset
<1>13. Cardinality(between) >= Limit
  BY <1>9, <1>11, <1>12
<1> QED BY <1>13 DEF between

-----------------------------------------------------------------------------

(* The environment only ever puts frames on the wire. *)
LEMMA FramesAreFrames == ASSUME NEW found \in Seq(Call) PROVE Frames(found) \subseteq Frame
<1>1. \A i \in DOMAIN found : found[i].id \in Ids /\ i \in Nat \ {0}
  <2> TAKE i \in DOMAIN found
  <2>1. found[i] \in Call
    OBVIOUS
  <2> QED BY <2>1 DEF Call
<1>2. NewRequests \subseteq Frame
  BY DEF NewRequests, Request, Frame
<1>3. Replies(found) \subseteq Frame
  BY <1>1 DEF Replies, Response, Frame
<1>4. Cancels(found) \subseteq Frame
  BY <1>1 DEF Cancels, Cancel, Frame
<1>5. TaskUpdates(found) \subseteq Frame
  BY <1>1 DEF TaskUpdates, TaskUpdate, Frame
<1> QED BY <1>2, <1>3, <1>4, <1>5 DEF Frames

(* No frame was observed yet. *)
LEMMA OtlpInitInv == OtlpInit => OtlpInv
<1> SUFFICES ASSUME OtlpInit PROVE OtlpInv
  OBVIOUS
<1> USE DEF OtlpInit
<1>1. Shapes
  BY DEF Shapes
<1>2. Window /\ Waits /\ Superseding(known) /\ Covered /\ Emptied
  BY OtlpAssumption DEF Window, Waits, Superseding, Covered, Emptied
<1> QED BY <1>1, <1>2 DEF OtlpInv

(* The steps that send nothing and take no frame. *)
LEMMA OtlpObserves == OtlpInv /\ Observes => OtlpInv'
<1> SUFFICES ASSUME OtlpInv, Observes PROVE OtlpInv'
  OBVIOUS
<1>1. Shapes /\ Window /\ Waits /\ Superseding(known) /\ Covered /\ Emptied
  BY DEF OtlpInv
<1>2. UNCHANGED <<at, shut, stopped, known, awaiting, posted, sent>>
  BY DEF Observes, closing
<1>3. PICK f \in Frames(traffic) :
        traffic' = Ingest(traffic, f) /\ (feed' = feed \/ (feed' = Append(feed, f) /\ ~shut))
  BY DEF Observes
<1>4. f \in Frame /\ traffic' \in Seq(Call)
  BY <1>1, <1>3, FramesAreFrames, IngestTyped DEF Shapes
<1>5. feed' \in Seq(Frame)
  <2>1. feed \in Seq(Frame)
    BY <1>1 DEF Shapes
  <2>2. Append(feed, f) \in Seq(Frame)
    BY <1>4, <2>1, AppendProperties
  <2> QED BY <1>3, <2>1, <2>2
<1>6. Shapes'
  BY <1>1, <1>2, <1>4, <1>5 DEF Shapes
<1>7. Window' /\ Waits' /\ Superseding(known)' /\ Covered'
  BY <1>1, <1>2 DEF Window, Waits, Superseding, Covered, SentOps, Holding
<1>8. Emptied'
  BY <1>1, <1>2, <1>3 DEF Emptied
<1> QED BY <1>6, <1>7, <1>8 DEF OtlpInv

(* Time passing changes nothing but that a wait is over. *)
LEMMA OtlpGraceEnds == OtlpInv /\ GraceEnds => OtlpInv'
<1> SUFFICES ASSUME OtlpInv, GraceEnds PROVE OtlpInv'
  OBVIOUS
<1>1. Shapes /\ Window /\ Waits /\ Superseding(known) /\ Covered /\ Emptied
  BY DEF OtlpInv
<1>2. UNCHANGED <<traffic, feed, at, shut, stopped, known, posted, sent>>
  BY DEF GraceEnds, closing, environment
<1>3. PICK a \in awaiting : awaiting' = (awaiting \ {a}) \cup {[a EXCEPT !.due = TRUE]}
  BY DEF GraceEnds
<1>4. a \in [op : Nat, answered : BOOLEAN, due : BOOLEAN]
  BY <1>1 DEF Shapes
<1> DEFINE b == [a EXCEPT !.due = TRUE]
<1>5. b \in [op : Nat, answered : BOOLEAN, due : BOOLEAN] /\ b.op = a.op /\ b.answered = a.answered
  BY <1>4
<1> HIDE DEF b
<1>6. awaiting' = (awaiting \ {a}) \cup {b}
  BY <1>3 DEF b
<1>7. Shapes'
  BY <1>1, <1>2, <1>5, <1>6 DEF Shapes
<1>8. Waits'
  BY <1>1, <1>2, <1>5, <1>6 DEF Waits
<1>9. Holding' = Holding
  BY <1>5, <1>6 DEF Holding
<1>10. Window' /\ Superseding(known)'
  BY <1>1, <1>2 DEF Window, Superseding
<1>11. Covered'
  BY <1>1, <1>2, <1>9 DEF Covered, SentOps
<1>12. Emptied'
  BY <1>1, <1>2, <1>3 DEF Emptied
<1> QED BY <1>7, <1>8, <1>10, <1>11, <1>12 DEF OtlpInv

(* The steps of run that only move it along, and those of Close: run ends of itself only with the feed
   shut, the queue empty and nothing waiting. *)
LEMMA OtlpQuiet ==
  ASSUME OtlpInv,
         UNCHANGED <<traffic, feed, known, awaiting, posted, sent>>,
         shut => shut', stopped => stopped',
         at' = "over" /\ ~stopped' => at = "over" \/ (shut /\ feed = <<>> /\ Holding = {})
  PROVE  OtlpInv'
<1>1. Shapes /\ Window /\ Waits /\ Superseding(known) /\ Covered /\ Emptied
  BY DEF OtlpInv
<1>2. Shapes'
  BY <1>1 DEF Shapes
<1>3. Window' /\ Waits' /\ Superseding(known)' /\ Covered'
  BY <1>1 DEF Window, Waits, Superseding, Covered, SentOps, Holding
<1>4. Emptied'
  BY <1>1 DEF Emptied, Holding
<1> QED BY <1>2, <1>3, <1>4 DEF OtlpInv

(* Deliveries, loops that begin or end, and Close: only Drained ends run of itself. *)
LEMMA OtlpMovesAlong ==
  ASSUME OtlpInv,
         Ticks \/ Drained \/ LoopEnds \/ PostSucceeds \/ PostFails \/ BacksOff \/ StopsAtOnce
         \/ ShutsFeed \/ HalfASecond \/ CloserReturns
  PROVE  OtlpInv'
<1>1. UNCHANGED <<traffic, feed, known, awaiting, posted, sent>>
  BY DEF Ticks, Drained, LoopEnds, PostSucceeds, PostFails, BacksOff, StopsAtOnce, ShutsFeed, HalfASecond,
         CloserReturns, Running, environment
<1>2. (shut => shut') /\ (stopped => stopped')
  BY DEF Ticks, Drained, LoopEnds, PostSucceeds, PostFails, BacksOff, StopsAtOnce, ShutsFeed, HalfASecond,
         CloserReturns, Running, closing
<1>3. ASSUME at' = "over", ~stopped' PROVE at = "over" \/ (shut /\ feed = <<>> /\ Holding = {})
  <2>1. CASE Drained
    BY <1>3, <2>1 DEF Drained, Flushed
  <2>2. CASE Ticks \/ LoopEnds
    BY <1>3, <2>2 DEF Ticks, LoopEnds
  <2>3. CASE PostSucceeds
    BY <1>3, <2>3 DEF PostSucceeds, Delivered
  <2>4. CASE PostFails
    BY <1>3, <2>4 DEF PostFails, Delivered, closing
  <2>5. CASE BacksOff \/ StopsAtOnce
    BY <1>3, <2>5 DEF BacksOff, StopsAtOnce, closing
  <2>6. CASE ShutsFeed \/ HalfASecond \/ CloserReturns
    BY <1>3, <2>6 DEF ShutsFeed, HalfASecond, CloserReturns, Running
  <2> QED BY <2>1, <2>2, <2>3, <2>4, <2>5, <2>6
<1> QED BY <1>1, <1>2, <1>3, OtlpQuiet

(* A loop over what waits sends it as it is known: cancelled, and with no answer but a known one. *)
LEMMA OtlpLoopSends ==
  ASSUME OtlpInv, LoopSends
  PROVE  /\ OtlpInv'
         /\ sent' # sent => /\ \A j \in DOMAIN sent : Again(j, Len(sent))'
                            /\ Last(sent').answered = HasAnswer(known'[Last(sent').op])
<1>1. Shapes /\ Window /\ Waits /\ Superseding(known) /\ Covered /\ Emptied
  BY DEF OtlpInv
<1>2. UNCHANGED <<traffic, feed, shut, stopped, known>>
  BY DEF LoopSends, closing, environment
<1>3. PICK a \in awaiting : awaiting' = awaiting \ {a} /\ Send(a.op, a.answered)
  BY DEF LoopSends
<1>4. a.op \in Nat /\ a.answered \in BOOLEAN
  BY <1>1 DEF Shapes
<1>5. /\ posted' \in Seq(Nat) /\ sent' \in Seq([op : Nat, answered : BOOLEAN])
      /\ Window' /\ at' \in {"loop", "post"}
      /\ SentOps \subseteq SentOps' /\ a.op \in SentOps'
      /\ sent' # sent => sent' = Append(sent, [op |-> a.op, answered |-> a.answered]) /\ ~Contains(posted, a.op)
  BY <1>1, <1>3, <1>4, SendKeepsWindow
<1>6. Shapes'
  BY <1>1, <1>2, <1>3, <1>5 DEF Shapes
<1>7. Waits' /\ Superseding(known)'
  BY <1>1, <1>2, <1>3 DEF Waits, Superseding
<1>8. Covered'
  <2>1. Holding \subseteq Holding' \cup {a.op}
    BY <1>3 DEF Holding
  <2> QED BY <1>1, <1>2, <1>5, <2>1 DEF Covered
<1>9. Emptied'
  BY <1>5 DEF Emptied
<1>10. ASSUME sent' # sent
       PROVE  /\ \A j \in DOMAIN sent : Again(j, Len(sent))'
              /\ Last(sent').answered = HasAnswer(known'[Last(sent').op])
  <2>1. \A j \in DOMAIN sent : Again(j, Len(sent))'
    BY <1>1, <1>4, <1>5, <1>10, SendsAgainAfterLimit
  <2>2. Last(sent') = [op |-> a.op, answered |-> a.answered]
    BY <1>1, <1>4, <1>5, <1>10 DEF Last, Shapes
  <2>3. a.answered = HasAnswer(known[a.op])
    BY <1>1, <1>4 DEF Waits, HasAnswer
  <2> QED BY <1>2, <2>1, <2>2, <2>3
<1> QED BY <1>5, <1>6, <1>7, <1>8, <1>9, <1>10 DEF OtlpInv

(* A frame taken off the queue: the call it settles goes out, or waits for the answer to come, or has
   gone out before. *)
LEMMA OtlpTakesFrame ==
  ASSUME OtlpInv, TakesFrame
  PROVE  /\ OtlpInv'
         /\ sent' # sent => /\ \A j \in DOMAIN sent : Again(j, Len(sent))'
                            /\ Last(sent').answered = HasAnswer(known'[Last(sent').op])
<1> DEFINE f == Head(feed)
           i == EventCall(known, f)
<1>1. Shapes /\ Window /\ Waits /\ Superseding(known) /\ Covered /\ Emptied
  BY DEF OtlpInv
<1>2. /\ UNCHANGED <<traffic, shut, stopped, todo>> /\ feed' = Tail(feed) /\ feed # <<>>
      /\ known' = Ingest(known, f) /\ at = "select"
  BY DEF TakesFrame, environment, closing
<1>3. f \in Frame /\ feed' \in Seq(Frame) /\ known \in Seq(Call)
  BY <1>1, <1>2 DEF Shapes
<1> DEFINE settles == i # 0 /\ Done(known'[i])
<1>4. \/ ~settles /\ UNCHANGED awaiting /\ Passes
      \/ settles /\ f.kind = "response" /\ Answered(i)
      \/ settles /\ f.kind # "response" /\ known'[i].state = "cancelled" /\ Cancelled(known'[i], i)
      \/ settles /\ f.kind # "response" /\ known'[i].state # "cancelled" /\ UNCHANGED awaiting /\ Passes
  BY <1>2 DEF TakesFrame
<1>5. known' \in Seq(Call) /\ Superseding(known)'
  BY <1>1, <1>2, <1>3, IngestTyped, IngestSupersedes
<1>6. /\ DOMAIN known \subseteq DOMAIN known' /\ (i = 0 \/ i \in DOMAIN known')
      /\ \A j \in DOMAIN known' \ DOMAIN known : ~Done(known'[j])
      /\ \A j \in DOMAIN known :
           j # i \/ f.kind # "response" =>
             /\ known[j].state = "cancelled" => known'[j].state = "cancelled" /\ known'[j].late = known[j].late
             /\ Settled(known'[j]) => Settled(known[j]) \/ (j = i /\ f.kind = "cancel" /\ known'[j].state = "cancelled")
      /\ i # 0 /\ f.kind = "request" => ~Done(known'[i])
      /\ i # 0 /\ f.kind = "response" /\ Done(known'[i]) => HasAnswer(known'[i])
      /\ i \in DOMAIN known /\ f.kind = "response" /\ known[i].state = "cancelled" => Done(known'[i])
  <2> DEFINE after == known'
  <2>1. after = Ingest(known, f) /\ i = EventCall(known, f) /\ Superseding(known)
    BY <1>1, <1>2
  <2> HIDE DEF f, i, after
  <2>2. /\ DOMAIN known \subseteq DOMAIN after /\ (i = 0 \/ i \in DOMAIN after)
        /\ \A j \in DOMAIN after \ DOMAIN known : ~Done(after[j])
        /\ \A j \in DOMAIN known :
             j # i \/ f.kind # "response" =>
               /\ known[j].state = "cancelled" => after[j].state = "cancelled" /\ after[j].late = known[j].late
               /\ Settled(after[j]) => Settled(known[j]) \/ (j = i /\ f.kind = "cancel" /\ after[j].state = "cancelled")
        /\ i # 0 /\ f.kind = "request" => ~Done(after[i])
        /\ i # 0 /\ f.kind = "response" /\ Done(after[i]) => HasAnswer(after[i])
        /\ i \in DOMAIN known /\ f.kind = "response" /\ known[i].state = "cancelled" => Done(after[i])
    BY <1>3, <2>1, IngestEvent
  <2> QED BY <2>2 DEF after
<1> HIDE DEF f, i
<1>7. 0 \notin DOMAIN known /\ 0 \notin DOMAIN known' /\ DOMAIN known \subseteq Nat /\ DOMAIN known' \subseteq Nat
  BY <1>3, <1>5
<1>8. \A j \in DOMAIN known' : Settled(known'[j]) => Done(known'[j])
  BY DEF Settled, Done
<1>9. i # 0 => i \in DOMAIN known' /\ i \in Nat /\ known'[i] \in Call /\ known'[i].late \in BOOLEAN
  <2>1. i # 0 => i \in DOMAIN known' /\ i \in Nat /\ known'[i] \in Call
    BY <1>5, <1>6, <1>7
  <2> QED BY <2>1 DEF Call
(* What each of the four ways comes to. *)
<1>10. CASE UNCHANGED awaiting /\ Passes /\ (settles => f.kind # "response" /\ known'[i].state # "cancelled")
  <2>1. UNCHANGED <<posted, sent, at, awaiting>>
    BY <1>10 DEF Passes
  <2>2. Shapes'
    BY <1>1, <1>2, <1>3, <1>5, <2>1 DEF Shapes
  <2>3. \A j \in DOMAIN known : f.kind = "response" /\ j = i => ~(Done(known'[j])) /\ known[j].state # "cancelled"
    BY <1>6, <1>7, <1>10
  <2>4. Waits'
    BY <1>1, <1>6, <2>1, <2>3 DEF Waits
  <2>5. Covered'
    <3> SUFFICES ASSUME NEW j \in DOMAIN known', Settled(known'[j]) PROVE j \in SentOps' \cup Holding'
      BY DEF Covered
    <3>1. j \in DOMAIN known /\ Done(known'[j])
      BY <1>6, <1>8
    <3>2. Settled(known[j])
      BY <1>6, <1>7, <1>10, <2>3, <3>1
    <3> QED BY <1>1, <2>1, <3>1, <3>2 DEF Covered, SentOps, Holding
  <2>6. Window' /\ Emptied'
    BY <1>1, <1>2, <2>1 DEF Window, Emptied
  <2> QED BY <1>5, <2>1, <2>2, <2>4, <2>5, <2>6 DEF OtlpInv
<1>11. ASSUME NEW answered \in BOOLEAN, settles, Send(i, answered), awaiting' \subseteq awaiting,
              Holding \subseteq Holding' \cup {i}, answered = HasAnswer(known'[i]),
              f.kind = "response" => \A a \in awaiting' : a.op # i
       PROVE  /\ OtlpInv'
              /\ sent' # sent => /\ \A j \in DOMAIN sent : Again(j, Len(sent))'
                                 /\ Last(sent').answered = HasAnswer(known'[Last(sent').op])
  <2>1. i \in Nat
    BY <1>9, <1>11
  <2>2. /\ posted' \in Seq(Nat) /\ sent' \in Seq([op : Nat, answered : BOOLEAN])
        /\ Window' /\ at' \in {"loop", "post"}
        /\ SentOps \subseteq SentOps' /\ i \in SentOps'
        /\ sent' # sent => sent' = Append(sent, [op |-> i, answered |-> answered]) /\ ~Contains(posted, i)
    BY <1>1, <1>11, <2>1, SendKeepsWindow
  <2>3. Shapes'
    BY <1>1, <1>2, <1>3, <1>5, <1>11, <2>2 DEF Shapes
  <2>4. Waits'
    BY <1>1, <1>6, <1>11 DEF Waits
  <2>5. Covered'
    <3> SUFFICES ASSUME NEW j \in DOMAIN known', Settled(known'[j]), j # i PROVE j \in SentOps' \cup Holding'
      BY <2>2 DEF Covered
    <3>1. j \in DOMAIN known
      BY <1>6, <1>8
    <3>2. Settled(known[j])
      BY <1>6, <3>1
    <3> QED BY <1>1, <1>11, <2>2, <3>1, <3>2 DEF Covered
  <2>6. Emptied'
    BY <2>2 DEF Emptied
  <2>7. ASSUME sent' # sent
        PROVE  /\ \A j \in DOMAIN sent : Again(j, Len(sent))'
               /\ Last(sent').answered = HasAnswer(known'[Last(sent').op])
    <3>1. \A j \in DOMAIN sent : Again(j, Len(sent))'
      BY <1>1, <1>11, <2>1, <2>2, <2>7, SendsAgainAfterLimit
    <3>2. Last(sent') = [op |-> i, answered |-> answered]
      BY <1>1, <1>11, <2>1, <2>2, <2>7 DEF Last, Shapes
    <3> QED BY <1>11, <3>1, <3>2
  <2> QED BY <1>5, <2>2, <2>3, <2>4, <2>5, <2>6, <2>7 DEF OtlpInv
<1>12. CASE settles /\ f.kind = "response" /\ Answered(i)
  <2>1. awaiting' = {a \in awaiting : a.op # i} /\ Send(i, TRUE)
    BY <1>12 DEF Answered
  <2>2. TRUE = HasAnswer(known'[i])
    BY <1>6, <1>9, <1>12 DEF HasAnswer
  <2>3. Holding \subseteq Holding' \cup {i}
    BY <2>1 DEF Holding
  <2>4. awaiting' \subseteq awaiting /\ \A a \in awaiting' : a.op # i
    BY <2>1
  <2>5. settles
    BY <1>12
  <2> HIDE DEF settles
  <2> QED BY <1>11, <2>1, <2>2, <2>3, <2>4, <2>5
<1>13. CASE settles /\ f.kind # "response" /\ known'[i].state = "cancelled" /\ Cancelled(known'[i], i)
  <2>1. CASE i \in Holding \/ Contains(posted, i)
    <3>1. UNCHANGED <<posted, sent, at, awaiting>>
      BY <1>13, <2>1 DEF Cancelled, Passes
    <3>2. i \in SentOps' \cup Holding'
      <4>1. CASE i \in Holding
        BY <3>1, <4>1 DEF Holding
      <4>2. CASE Contains(posted, i)
        <5>1. PICK k \in 1 .. Len(posted) : posted[k] = i
          BY <4>2 DEF Contains
        <5>2. Len(posted) <= Len(sent) /\ posted[k] = sent[Len(sent) - Len(posted) + k].op
          BY <1>1, <5>1 DEF Window
        <5>3. Len(sent) \in Nat /\ Len(posted) \in Nat /\ DOMAIN sent = 1 .. Len(sent)
          BY <1>1 DEF Shapes
        <5>4. Len(sent) - Len(posted) + k \in DOMAIN sent
          BY <5>1, <5>2, <5>3
        <5> QED BY <3>1, <5>1, <5>2, <5>4 DEF SentOps
      <4> QED BY <2>1, <4>1, <4>2
    <3>3. Shapes'
      BY <1>1, <1>2, <1>3, <1>5, <3>1 DEF Shapes
    <3>4. Waits'
      BY <1>1, <1>6, <1>13, <3>1 DEF Waits
    <3>5. Covered'
      <4> SUFFICES ASSUME NEW j \in DOMAIN known', Settled(known'[j]), j # i PROVE j \in SentOps' \cup Holding'
        BY <3>2 DEF Covered
      <4>1. j \in DOMAIN known
        BY <1>6, <1>8
      <4>2. Settled(known[j])
        BY <1>6, <4>1
      <4> QED BY <1>1, <3>1, <4>1, <4>2 DEF Covered, SentOps, Holding
    <3>6. Window' /\ Emptied'
      BY <1>1, <1>2, <3>1 DEF Window, Emptied
    <3> QED BY <1>5, <3>1, <3>3, <3>4, <3>5, <3>6 DEF OtlpInv
  <2>2. CASE ~(i \in Holding \/ Contains(posted, i)) /\ Cardinality(awaiting) >= Limit
    <3>1. UNCHANGED awaiting /\ Send(i, known'[i].late)
      BY <1>13, <2>2 DEF Cancelled
    <3>2. known'[i].late = HasAnswer(known'[i]) /\ known'[i].late \in BOOLEAN
      BY <1>9, <1>13 DEF HasAnswer
    <3>3. Holding' = Holding
      BY <3>1 DEF Holding
    <3>4. settles /\ f.kind # "response"
      BY <1>13
    <3> HIDE DEF settles
    <3> QED BY <1>11, <3>1, <3>2, <3>3, <3>4
  <2>3. CASE ~(i \in Holding \/ Contains(posted, i)) /\ ~(Cardinality(awaiting) >= Limit)
    <3> DEFINE w == Waiting(known'[i], i)
    <3>1. awaiting' = awaiting \cup {w} /\ UNCHANGED <<posted, sent, at>>
      BY <1>13, <2>3 DEF Cancelled, Passes
    <3>2. w \in [op : Nat, answered : BOOLEAN, due : BOOLEAN] /\ w.op = i /\ w.answered = known'[i].late
      BY <1>9, <1>13 DEF Waiting
    <3> HIDE DEF w
    <3>3. Shapes'
      BY <1>1, <1>2, <1>3, <1>5, <3>1, <3>2 DEF Shapes
    <3>4. Waits'
      <4> SUFFICES ASSUME NEW a \in awaiting'
                   PROVE  a.op \in DOMAIN known' /\ known'[a.op].state = "cancelled" /\ a.answered = known'[a.op].late
        BY DEF Waits
      <4>1. CASE a = w
        BY <1>9, <1>13, <3>2, <4>1
      <4>2. CASE a \in awaiting
        BY <1>1, <1>6, <1>13, <4>2 DEF Waits
      <4> QED BY <3>1, <4>1, <4>2
    <3>5. Covered'
      <4>1. Holding' = Holding \cup {i}
        BY <3>1, <3>2 DEF Holding
      <4> SUFFICES ASSUME NEW j \in DOMAIN known', Settled(known'[j]), j # i PROVE j \in SentOps' \cup Holding'
        BY <4>1 DEF Covered
      <4>2. j \in DOMAIN known
        BY <1>6, <1>8
      <4>3. Settled(known[j])
        BY <1>6, <4>2
      <4> QED BY <1>1, <3>1, <4>1, <4>2, <4>3 DEF Covered, SentOps
    <3>6. Window' /\ Emptied'
      BY <1>1, <1>2, <3>1 DEF Window, Emptied
    <3> QED BY <1>5, <3>1, <3>3, <3>4, <3>5, <3>6 DEF OtlpInv
  <2> QED BY <2>1, <2>2, <2>3
<1> QED BY <1>4, <1>10, <1>12, <1>13

-----------------------------------------------------------------------------

(* Every step keeps the invariant, and sends only what it may. *)
LEMMA OtlpStep ==
  ASSUME OtlpInv, OtlpNext
  PROVE  /\ OtlpInv'
         /\ sent' # sent => /\ \A j \in DOMAIN sent : Again(j, Len(sent))'
                            /\ Last(sent').answered = HasAnswer(known'[Last(sent').op])
<1>1. CASE TakesFrame
  BY <1>1, OtlpTakesFrame
<1>2. CASE LoopSends
  BY <1>2, OtlpLoopSends
<1>3. CASE Observes
  BY <1>3, OtlpObserves DEF Observes
<1>4. CASE GraceEnds
  BY <1>4, OtlpGraceEnds DEF GraceEnds
<1>5. CASE Ticks \/ Drained \/ LoopEnds \/ PostSucceeds \/ PostFails \/ BacksOff \/ StopsAtOnce
           \/ ShutsFeed \/ HalfASecond \/ CloserReturns
  <2>1. sent' = sent
    BY <1>5 DEF Ticks, Drained, LoopEnds, PostSucceeds, PostFails, BacksOff, StopsAtOnce, ShutsFeed, HalfASecond,
         CloserReturns, Running
  <2> QED BY <1>5, <2>1, OtlpMovesAlong
<1> QED BY <1>1, <1>2, <1>3, <1>4, <1>5 DEF OtlpNext

(* The inductive invariant holds throughout. *)
LEMMA OtlpInvariance == LiveSpec => []OtlpInv
<1>1. LiveInit => OtlpInv
  BY OtlpInitInv DEF LiveInit
<1>2. OtlpInv /\ [LiveNext]_liveVars => OtlpInv'
  <2> SUFFICES ASSUME OtlpInv, [LiveNext]_liveVars PROVE OtlpInv'
    OBVIOUS
  <2>1. CASE OtlpNext
    BY <2>1, OtlpStep
  <2>2. CASE UNCHANGED otlpVars
    <3>1. UNCHANGED <<traffic, feed, known, awaiting, posted, sent, shut, stopped, at>>
      BY <2>2 DEF otlpVars, environment, closing
    <3> QED BY <3>1, OtlpQuiet
  <2> QED BY <2>1, <2>2 DEF LiveNext, liveVars
<1> QED BY <1>1, <1>2, PTL DEF LiveSpec

(* When the sink ends of itself its queue is empty and every call that a response or a cancellation
   settled has been sent (run, Close). *)
THEOREM SettledCallsAreSent == LiveSpec => []SettledAreSent
<1>1. OtlpInv => SettledAreSent
  BY DEF OtlpInv, Emptied, Covered, Settled, Holding, SettledAreSent
<1> QED BY <1>1, OtlpInvariance, PTL

(* A call goes out again only after as many others as are remembered, and with the answer it has if it
   has one (recent.add, awaitingCancel, send). *)
THEOREM SentOnceAndWhole == LiveSpec => OnceAndWhole
<1>1. OtlpInv /\ [LiveNext]_liveVars =>
        [sent' # sent => /\ \A i \in DOMAIN sent : Again(i, Len(sent))'
                         /\ Last(sent').answered = HasAnswer(known'[Last(sent').op])]_otlpVars
  <2> SUFFICES ASSUME OtlpInv, [LiveNext]_liveVars, ~UNCHANGED otlpVars, sent' # sent
               PROVE  /\ \A i \in DOMAIN sent : Again(i, Len(sent))'
                      /\ Last(sent').answered = HasAnswer(known'[Last(sent').op])
    OBVIOUS
  <2>1. OtlpNext
    BY DEF LiveNext, liveVars
  <2> QED BY <2>1, OtlpStep
<1> QED BY <1>1, OtlpInvariance, PTL DEF LiveSpec, OnceAndWhole

-----------------------------------------------------------------------------
(***************************************************************************)
(* The metrics.                                                            *)
(*                                                                         *)
(* That the counters are exact needs to be said of the calls that are not  *)
(* counted out yet: they are held once, as the newest of their id          *)
(* (HeldById), and are open or among the cancelled ones remembered         *)
(* (HeldOpen, LateOnes).  Then the errors counted are those of the calls   *)
(* whose end was recorded, and a call that is neither held nor recorded    *)
(* has none: it was overtaken by a call of its id while it was open, or    *)
(* cancelled and forgotten by the store before an answer came (Recorded).  That a series  *)
(* has no more ends than calls needs that a call's end goes to the series  *)
(* its beginning went to, although labels may run out in between           *)
(* (Labelled).                                                             *)
(***************************************************************************)

(* Counters of every kind for each label, and finitely many units counted. *)
Tallies(counters) ==
  /\ IsFiniteSet(DOMAIN counters) /\ counters \in [DOMAIN counters -> [Counters -> Nat]]
  /\ \A field \in Counters : IsFiniteSet(Units(counters, field))

(* What a total counts, one by one. *)
LEMMA UnitsAre ==
  ASSUME NEW counters, NEW field, NEW u
  PROVE  u \in Units(counters, field) <=>
           \E t \in DOMAIN counters : \E k \in 1 .. counters[t][field] : u = <<t, k>>
<1>1. ASSUME NEW t PROVE u \in {t} \X (1 .. counters[t][field]) <=> \E k \in 1 .. counters[t][field] : u = <<t, k>>
  OBVIOUS
<1> QED BY <1>1 DEF Units

(* One more in one counter is one more in the total of that counter and changes no other total. *)
OneMore(counters, label, field, bumped) ==
  /\ Tallies(bumped) /\ DOMAIN bumped = DOMAIN counters \cup {label}
  /\ Cardinality(Units(bumped, field)) = Cardinality(Units(counters, field)) + 1
  /\ \A g \in Counters \ {field} : Units(bumped, g) = Units(counters, g)
  /\ \A t \in DOMAIN counters \ {label} : bumped[t] = counters[t]
  /\ \A g \in Counters :
       bumped[label][g] = (IF label \in DOMAIN counters THEN counters[label][g] ELSE 0) + (IF g = field THEN 1 ELSE 0)

LEMMA BumpAdds ==
  ASSUME NEW counters, Tallies(counters), NEW label, NEW field \in Counters
  PROVE  OneMore(counters, label, field, Bump(counters, label, field))
<1> DEFINE had == IF label \in DOMAIN counters THEN counters[label] ELSE NoSeries
           more == [had EXCEPT ![field] = @ + 1]
           bumped == Bump(counters, label, field)
<1>1. had \in [Counters -> Nat]
  BY DEF Tallies, NoSeries
<1>2. \A g \in Counters : had[g] = IF label \in DOMAIN counters THEN counters[label][g] ELSE 0
  BY DEF NoSeries
<1> HIDE DEF had
<1>3. /\ more \in [Counters -> Nat] /\ more[field] = had[field] + 1
      /\ \A g \in Counters \ {field} : more[g] = had[g]
  BY <1>1
<1>4. /\ DOMAIN bumped = DOMAIN counters \cup {label} /\ bumped[label] = more
      /\ \A t \in DOMAIN counters \ {label} : bumped[t] = counters[t]
      /\ bumped \in [DOMAIN bumped -> [Counters -> Nat]]
  <2>1. bumped = [t \in DOMAIN counters \cup {label} |-> IF t = label THEN more ELSE counters[t]]
    BY DEF Bump, Put, had
  <2> HIDE DEF more
  <2> QED BY <1>3, <2>1 DEF Tallies
<1> HIDE DEF more, bumped
<1>5. IsFiniteSet(DOMAIN bumped)
  BY <1>4, FS_AddElement DEF Tallies
<1>6. \A g \in Counters \ {field} : Units(bumped, g) = Units(counters, g)
  <2> SUFFICES ASSUME NEW g \in Counters, g # field, NEW u
               PROVE  u \in Units(bumped, g) <=> u \in Units(counters, g)
    OBVIOUS
  <2>1. label \notin DOMAIN counters => 1 .. bumped[label][g] = {}
    BY <1>2, <1>3, <1>4
  <2>2. label \in DOMAIN counters => bumped[label][g] = counters[label][g]
    BY <1>2, <1>3, <1>4
  <2>3. \A t \in DOMAIN counters : bumped[t][g] = counters[t][g]
    BY <1>4, <2>2
  <2> QED BY <1>4, <2>1, <2>3, UnitsAre
<1> DEFINE new == <<label, had[field] + 1>>
<1>7. new \notin Units(counters, field)
  <2> SUFFICES ASSUME new \in Units(counters, field) PROVE FALSE
    OBVIOUS
  <2>1. PICK t \in DOMAIN counters : \E k \in 1 .. counters[t][field] : new = <<t, k>>
    BY UnitsAre
  <2>2. t = label /\ had[field] + 1 \in 1 .. counters[label][field]
    BY <2>1
  <2>3. had[field] = counters[label][field] /\ had[field] \in Nat
    BY <1>1, <1>2, <2>1, <2>2
  <2> QED BY <2>2, <2>3
<1>8. Units(bumped, field) = Units(counters, field) \cup {new}
  <2> SUFFICES ASSUME NEW u PROVE u \in Units(bumped, field) <=> u \in Units(counters, field) \/ u = new
    OBVIOUS
  <2>1. had[field] \in Nat /\ 1 .. bumped[label][field] = 1 .. had[field] \cup {had[field] + 1}
    BY <1>1, <1>3, <1>4
  <2>2. label \in DOMAIN counters => 1 .. had[field] = 1 .. counters[label][field]
    BY <1>2
  <2>3. label \notin DOMAIN counters => 1 .. had[field] = {}
    BY <1>2
  <2>4. ASSUME u \in Units(bumped, field) PROVE u \in Units(counters, field) \/ u = new
    <3>1. PICK t \in DOMAIN bumped : \E k \in 1 .. bumped[t][field] : u = <<t, k>>
      BY <2>4, UnitsAre
    <3>2. CASE t # label
      BY <1>4, <3>1, <3>2, UnitsAre
    <3>3. CASE t = label
      <4>1. PICK k \in 1 .. had[field] \cup {had[field] + 1} : u = <<label, k>>
        BY <2>1, <3>1, <3>3
      <4>2. CASE k \in 1 .. had[field]
        BY <2>2, <2>3, <4>1, <4>2, UnitsAre
      <4> QED BY <4>1, <4>2
    <3> QED BY <3>2, <3>3
  <2>5. ASSUME u \in Units(counters, field) PROVE u \in Units(bumped, field)
    <3>1. PICK t \in DOMAIN counters : \E k \in 1 .. counters[t][field] : u = <<t, k>>
      BY <2>5, UnitsAre
    <3>2. 1 .. counters[t][field] \subseteq 1 .. bumped[t][field]
      BY <1>4, <2>1, <2>2
    <3> QED BY <1>4, <3>1, <3>2, UnitsAre
  <2>6. ASSUME u = new PROVE u \in Units(bumped, field)
    BY <1>4, <2>1, <2>6, UnitsAre
  <2> QED BY <2>4, <2>5, <2>6
<1> HIDE DEF new
<1>9. IsFiniteSet(Units(counters, field))
  BY DEF Tallies
<1>10. /\ Cardinality(Units(bumped, field)) = Cardinality(Units(counters, field)) + 1
       /\ IsFiniteSet(Units(bumped, field))
  BY <1>7, <1>8, <1>9, FS_AddElement
<1>11. Tallies(bumped)
  <2>1. \A g \in Counters : IsFiniteSet(Units(bumped, g))
    BY <1>6, <1>10 DEF Tallies
  <2> QED BY <1>4, <1>5, <2>1 DEF Tallies
<1>12. \A g \in Counters :
         bumped[label][g] = (IF label \in DOMAIN counters THEN counters[label][g] ELSE 0) + (IF g = field THEN 1 ELSE 0)
  <2> SUFFICES ASSUME NEW g \in Counters
               PROVE  more[g] = had[g] + (IF g = field THEN 1 ELSE 0)
    BY <1>2, <1>4
  <2>1. had[g] \in Nat
    BY <1>1
  <2> QED BY <1>3, <2>1
<1>13. OneMore(counters, label, field, bumped)
  BY <1>4, <1>6, <1>10, <1>11, <1>12 DEF OneMore
<1> QED BY <1>13 DEF bumped

-----------------------------------------------------------------------------
(* What a call says of its end while none was recorded. *)
Unmarked(c) == c.state \in {"pending", "superseded"} \/ (c.state = "cancelled" /\ ~c.late)

(* The call a frame is about. *)
About(found, f) == IF f.kind = "task" THEN f.call ELSE Latest(found, f.id)

(* How a frame that is no request moves on the call it is about. *)
MovesOn(before, after, kind) ==
  /\ after.id = before.id /\ after.name = before.name
  /\ Unmarked(before) /\ before.err = Nothing /\ Unmarked(after) => after.err = Nothing
  /\ before.state = "superseded" \/ before.state = "done" => after = before
  /\ before.state = "cancelled" =>
       \/ after = before
       \/ kind = "response" /\ ~before.late /\ after.state = "cancelled" /\ after.late
  /\ after.state # "superseded" \/ before.state = "superseded"
  /\ before.state = "pending" =>
       \/ after.state = "pending" /\ after.late = before.late
       \/ after.state = "cancelled" /\ after.late = before.late /\ kind = "cancel" /\ ~before.task
       \/ after.state = "done"

(* An answer, a cancellation and the end of a task. *)
LEMMA AnswerMovesOn ==
  ASSUME NEW c \in Call, NEW r \in Results PROVE MovesOn(c, AnswerCall(c, r), "response")
<1> DEFINE e == ErrOf(r)
<1>1. c.state \in {"pending", "done", "cancelled", "superseded"}
  BY DEF Call
<1>2. CASE c.state = "cancelled" /\ ~c.late
  <2>1. AnswerCall(c, r) = [c EXCEPT !.late = TRUE, !.err = e]
    BY <1>2 DEF AnswerCall
  <2> HIDE DEF e
  <2> QED BY <1>2, <2>1 DEF MovesOn, Call, Unmarked
<1>3. CASE c.state = "pending" /\ ~StartsTask(c, r)
  <2>1. AnswerCall(c, r) = [c EXCEPT !.state = "done", !.err = e]
    BY <1>3 DEF AnswerCall
  <2> HIDE DEF e
  <2> QED BY <1>3, <2>1 DEF MovesOn, Call, Unmarked
<1>4. CASE c.state = "pending" /\ StartsTask(c, r)
  <2>1. AnswerCall(c, r) = [c EXCEPT !.task = TRUE]
    BY <1>4 DEF AnswerCall
  <2> QED BY <1>4, <2>1 DEF MovesOn, Call, Unmarked
<1>5. CASE c.state \in {"done", "superseded"} \/ (c.state = "cancelled" /\ c.late)
  <2>1. AnswerCall(c, r) = c
    BY <1>5 DEF AnswerCall
  <2> QED BY <1>5, <2>1 DEF MovesOn
<1> QED BY <1>1, <1>2, <1>3, <1>4, <1>5

LEMMA CancelMovesOn == ASSUME NEW c \in Call PROVE MovesOn(c, CancelCall(c), "cancel")
BY DEF CancelCall, Cancellable, Done, MovesOn, Call, Unmarked

LEMMA TaskMovesOn ==
  ASSUME NEW c \in Call, NEW end \in TaskEnds PROVE MovesOn(c, ApplyTaskState(c, end), "task")
<1> DEFINE e == ErrOf(end)
<1>1. ApplyTaskState(c, end) = IF Done(c) THEN c ELSE [c EXCEPT !.state = "done", !.err = e, !.taskEnd = end]
  BY DEF ApplyTaskState
<1> HIDE DEF e
<1> QED BY <1>1 DEF Done, MovesOn, Call, Unmarked

(* A frame that is no request is observed for the call it moves on. *)
Observed(found, after, f, k) ==
  /\ after \in Seq(Call) /\ DOMAIN after = DOMAIN found
  /\ \A j \in DOMAIN found : j # k => after[j] = found[j]
  /\ k \in DOMAIN found => MovesOn(found[k], after[k], f.kind)
  /\ k \in DOMAIN found /\ f.kind = "response" => \A j \in DOMAIN found : j > k => found[j].id # found[k].id
  /\ LET key == Max({EventCall(found, f), EventTaskCall(f)})
     IN  key = k \/ (key = 0 /\ f.kind = "cancel" /\ k \in DOMAIN found /\ (Done(found[k]) \/ found[k].task) /\ after[k] = found[k])

LEMMA ObservedCall ==
  ASSUME NEW found \in Seq(Call), NEW f \in Frame, f.kind # "request",
         NEW after, after = Ingest(found, f), NEW k, k = About(found, f)
  PROVE  Observed(found, after, f, k)
<1>1. /\ Moved(found, after, k)
      /\ k \in DOMAIN found =>
           after[k] = CASE f.kind = "response" -> AnswerCall(found[k], f.result)
                        [] f.kind = "cancel" -> CancelCall(found[k])
                        [] f.kind = "task" -> ApplyTaskState(found[k], f.result)
  BY IngestMoves DEF About
<1>2. /\ f.kind \in {"response", "cancel", "task"}
      /\ f.kind = "response" => f.result \in Results
      /\ f.kind = "task" => f.result \in TaskEnds /\ f.call \in Nat
  BY DEF Frame
<1>3. /\ after \in Seq(Call) /\ DOMAIN after = DOMAIN found
      /\ \A j \in DOMAIN found : j # k => after[j] = found[j]
  BY <1>1 DEF Moved
<1>4. k \in DOMAIN found => MovesOn(found[k], after[k], f.kind)
  <2> SUFFICES ASSUME k \in DOMAIN found PROVE MovesOn(found[k], after[k], f.kind)
    OBVIOUS
  <2>1. found[k] \in Call
    OBVIOUS
  <2>2. CASE f.kind = "response"
    BY <1>1, <1>2, <2>1, <2>2, AnswerMovesOn
  <2>3. CASE f.kind = "cancel"
    BY <1>1, <1>2, <2>1, <2>3, CancelMovesOn
  <2>4. CASE f.kind = "task"
    BY <1>1, <1>2, <2>1, <2>4, TaskMovesOn
  <2> QED BY <1>2, <2>2, <2>3, <2>4
<1>5. f.kind # "task" => /\ k \in Nat /\ (k = 0 \/ (k \in DOMAIN found /\ found[k].id = f.id))
                         /\ \A j \in DOMAIN found : found[j].id = f.id => j <= k
                         /\ k = 0 => \A j \in DOMAIN found : found[j].id # f.id
  BY LatestIsLast DEF About
<1>6. \A j \in DOMAIN found : j \in Nat /\ j > 0
  OBVIOUS
<1>7. \/ EventCall(found, f) = k /\ EventTaskCall(f) = 0
      \/ EventCall(found, f) = 0 /\ EventTaskCall(f) = k
      \/ /\ EventCall(found, f) = 0 /\ EventTaskCall(f) = 0 /\ f.kind = "cancel"
         /\ k = 0 \/ (k \in DOMAIN found /\ (Done(found[k]) \/ found[k].task))
  BY <1>2, <1>5 DEF EventCall, EventTaskCall, About, Cancellable
<1>8. LET key == Max({EventCall(found, f), EventTaskCall(f)})
      IN  key = k \/ (key = 0 /\ f.kind = "cancel" /\ k \in DOMAIN found /\ (Done(found[k]) \/ found[k].task) /\ after[k] = found[k])
  <2>1. k \in Nat
    BY <1>2, <1>5 DEF About
  <2>2. \A x \in {0, k} : Max({0, x}) = x /\ Max({x, 0}) = x
    <3> TAKE x \in {0, k}
    <3>1. {0, x} = {x, 0} /\ x \in Nat
      BY <2>1
    <3>2. \E y \in {0, x} : \A z \in {0, x} : y >= z
      BY <3>1
    <3> QED BY <3>1, <3>2 DEF Max
  <2>3. k \in DOMAIN found /\ f.kind = "cancel" /\ (Done(found[k]) \/ found[k].task) => after[k] = found[k]
    BY <1>1 DEF CancelCall, Cancellable
  <2> QED BY <1>7, <2>2, <2>3
<1>9. k \in DOMAIN found /\ f.kind = "response" => \A j \in DOMAIN found : j > k => found[j].id # found[k].id
  BY <1>5, <1>6
<1> QED BY <1>3, <1>4, <1>8, <1>9 DEF Observed

(* A request opens the next call, and ends the newest of its id if that is open. *)
Opens(found, after, f) ==
  LET n == Len(found)
  IN  /\ after \in Seq(Call) /\ DOMAIN found = 1 .. n /\ DOMAIN after = 1 .. n + 1 /\ n \in Nat /\ Len(after) = n + 1
      /\ f.id \in Ids /\ f.name \in Tools \cup {NotATool} /\ after[n + 1] = Opened(f.id, f.name)
      /\ \A j \in 1 .. n :
           \/ after[j] = found[j]
           \/ /\ found[j].state = "pending" /\ found[j].id = f.id
              /\ after[j] = [found[j] EXCEPT !.state = "superseded"]
      /\ \A j \in 1 .. n :
           found[j].id = f.id /\ (\A i \in DOMAIN found : i > j => found[i].id # f.id) => Done(after[j])
      /\ Max({EventCall(found, f), EventTaskCall(f)}) = n + 1

LEMMA ObservedRequest ==
  ASSUME NEW found \in Seq(Call), NEW f \in Frame, f.kind = "request",
         NEW after, after = Ingest(found, f)
  PROVE  Opens(found, after, f)
<1> DEFINE n == Len(found)
<1>0. n \in Nat /\ DOMAIN found = 1 .. n
  OBVIOUS
<1>1. after = OpenCall(found, f)
  BY DEF Ingest
<1>2. /\ after \in Seq(Call) /\ Len(after) = n + 1 /\ after[n + 1] = Opened(f.id, f.name)
      /\ \A j \in 1 .. n :
           \/ after[j] = found[j]
           \/ /\ found[j].state = "pending" /\ found[j].id = f.id
              /\ after[j] = [found[j] EXCEPT !.state = "superseded"]
  <2> HIDE DEF Ingest
  <2>1. /\ OpenCall(found, f) \in Seq(Call) /\ Len(OpenCall(found, f)) = Len(found) + 1
        /\ OpenCall(found, f)[Len(found) + 1] = Opened(f.id, f.name)
        /\ \A j \in 1 .. Len(found) :
             \/ OpenCall(found, f)[j] = found[j]
             \/ /\ found[j].state = "pending" /\ found[j].id = f.id
                /\ OpenCall(found, f)[j] = [found[j] EXCEPT !.state = "superseded"]
    BY OpenOne
  <2> QED BY <1>1, <2>1
<1>3. DOMAIN after = 1 .. n + 1 /\ f.id \in Ids /\ f.name \in Tools \cup {NotATool}
  BY <1>2 DEF Frame
<1>4. \A j \in 1 .. n :
        found[j].id = f.id /\ (\A i \in DOMAIN found : i > j => found[i].id # f.id) => Done(after[j])
  <2> SUFFICES ASSUME NEW j \in 1 .. n, found[j].id = f.id, \A i \in DOMAIN found : i > j => found[i].id # f.id
               PROVE  Done(after[j])
    OBVIOUS
  <2>1. Latest(found, f.id) = j
    <3>1. Latest(found, f.id) \in DOMAIN found /\ found[Latest(found, f.id)].id = f.id /\ j <= Latest(found, f.id)
      BY <1>0, LatestIsLast
    <3> QED BY <1>0, <3>1
  <2>2. found[j] \in Call
    BY <1>0
  <2>3. CASE Done(found[j])
    BY <1>2, <2>3 DEF Done
  <2>4. CASE ~Done(found[j])
    <3>1. after = Append([found EXCEPT ![j].state = "superseded"], Opened(f.id, f.name))
      BY <1>0, <1>1, <2>1, <2>4 DEF OpenCall
    <3>2. [found EXCEPT ![j] = [found[j] EXCEPT !.state = "superseded"]] \in Seq(Call)
      BY <1>0, <2>2 DEF Call
    <3>3. Len([found EXCEPT ![j] = [found[j] EXCEPT !.state = "superseded"]]) = n
      BY <1>0, <3>2
    <3>4. after[j] = [found[j] EXCEPT !.state = "superseded"]
      BY <1>0, <3>1, <3>2, <3>3
    <3> QED BY <2>2, <3>4 DEF Done, Call
  <2> QED BY <2>3, <2>4
<1>5. Max({EventCall(found, f), EventTaskCall(f)}) = n + 1
  <2>3. {EventCall(found, f), EventTaskCall(f)} = {0, n + 1}
    BY DEF EventCall, EventTaskCall
  <2>4. \E x \in {0, n + 1} : \A y \in {0, n + 1} : x >= y
    BY <1>0
  <2>5. Max({0, n + 1}) = n + 1
    BY <1>0, <2>4 DEF Max
  <2> QED BY <2>3, <2>5
<1> QED BY <1>0, <1>2, <1>3, <1>4, <1>5 DEF Opens

-----------------------------------------------------------------------------
(* The types of what the collector keeps. *)
Kept ==
  /\ calls \in Seq(Call) /\ history \in Nat /\ history <= Len(calls)
  /\ Tallies(series) /\ cancelledCalls \in Seq(Nat)
  /\ operations \in [DOMAIN operations -> [tool : Tools, id : Ids, cancelled : BOOLEAN]]
  /\ inflight \in [DOMAIN inflight -> Nat]

(* Nothing is counted before the frames are live. *)
StartsEmpty == ~live => operations = <<>> /\ inflight = <<>> /\ series = <<>> /\ cancelledCalls = <<>>

(* A call has no error before its end was recorded. *)
ErrsMarked == \A i \in DOMAIN calls : Unmarked(calls[i]) => calls[i].err = Nothing

(* A call that is held is the newest of its id, and the one the id is in flight for. *)
Newest(i) == \A j \in DOMAIN calls : j > i => calls[j].id # calls[i].id
HeldById ==
  /\ \A i \in DOMAIN operations :
       /\ i \in Counted /\ Newest(i)
       /\ operations[i].tool = calls[i].name /\ operations[i].id = calls[i].id
       /\ calls[i].id \in DOMAIN inflight /\ inflight[calls[i].id] = i
  /\ \A id \in DOMAIN inflight : inflight[id] \in DOMAIN operations /\ calls[inflight[id]].id = id

(* It is open, or it is one of the cancelled ones remembered. *)
HeldOpen ==
  \A i \in DOMAIN operations :
    \/ calls[i].state = "pending" /\ ~operations[i].cancelled
    \/ /\ calls[i].state = "cancelled" /\ ~calls[i].late /\ operations[i].cancelled
       /\ \E k \in DOMAIN cancelledCalls : cancelledCalls[k] = i

(* Those are as many as fit, each once. *)
LateOnes ==
  /\ Len(cancelledCalls) <= MaxCancelled
  /\ \A k \in DOMAIN cancelledCalls : cancelledCalls[k] \in Counted /\ calls[cancelledCalls[k]].state = "cancelled"
  /\ \A k, l \in DOMAIN cancelledCalls : cancelledCalls[k] = cancelledCalls[l] => k = l

(* The errors counted are those of the calls whose end was recorded; of the others that are no longer
   held none has an error, as its id is another's or its answer finds it no more. *)
Overtaken(i) == Done(calls[i]) /\ calls[i].err = Nothing /\ \E j \in DOMAIN calls : j > i /\ calls[j].id = calls[i].id
Unanswered(i) == i \in forgotten /\ calls[i].state = "cancelled" /\ ~calls[i].late
Erred(C, err) == {i \in C : calls[i].err = err}
EndsRecorded(R) ==
  /\ R \subseteq Counted \ DOMAIN operations
  /\ \A i \in R : ~Unmarked(calls[i])
  /\ \A err \in {"tool", "protocol"} : Total(err) = Cardinality(Erred(R, err))
  /\ \A i \in Counted \ (R \cup DOMAIN operations) : Overtaken(i) \/ Unanswered(i)
Recorded == \E R \in SUBSET Counted : EndsRecorded(R)

(* A call's end is counted under the label its beginning was, and no label has more ends than calls
   less those that are held. *)
LabelOf(i) == SeriesFor(series, operations[i].tool)
On(t) == {i \in DOMAIN operations : LabelOf(i) = t}
Labelled ==
  /\ Total("calls") = Cardinality(Counted)
  /\ \A i \in DOMAIN operations : LabelOf(i) \in DOMAIN series
  /\ \A t \in DOMAIN series :
       /\ series[t].tool + series[t].protocol <= series[t].count
       /\ series[t].count + Cardinality(On(t)) <= series[t].calls

(* A cancelled call without an answer is still in the map only until the next frame. *)
Remembers ==
  /\ pointing \in {0} \cup DOMAIN calls /\ prompt \in {0, pointing}
  /\ forgotten \subseteq DOMAIN calls /\ \A i \in forgotten : Done(calls[i])
  /\ \A i \in DOMAIN calls : calls[i].state = "pending" => ~calls[i].late
  /\ \A i \in DOMAIN calls : calls[i].state = "cancelled" /\ ~calls[i].late => i \in forgotten \/ i = prompt
  /\ prompt # 0 => prompt \notin forgotten /\ calls[prompt].state = "cancelled" /\ ~calls[prompt].late

(* The store knows the calls as the wire has them, but for the answers it missed. *)
Agrees(i) ==
  IF i \in missed THEN /\ heard[i].id = calls[i].id /\ heard[i].state = "cancelled" /\ heard[i].late
                       /\ calls[i].state = "cancelled" /\ ~calls[i].late
  ELSE heard[i] = calls[i]
Apart == heard \in Seq(Call) /\ DOMAIN heard = DOMAIN calls /\ missed \subseteq forgotten /\ \A i \in DOMAIN calls : Agrees(i)

(* The inductive invariant. *)
CountingInv ==
  Kept /\ StartsEmpty /\ ErrsMarked /\ HeldById /\ HeldOpen /\ LateOnes /\ Recorded /\ Labelled
MetricsInv == CountingInv /\ Remembers /\ Apart

(* What a call that ends, is overtaken or forgotten leaves of what is held. *)
LetsGoOf(X) ==
  /\ DOMAIN operations' = DOMAIN operations \ X
  /\ \A i \in DOMAIN operations' : operations'[i].tool = operations[i].tool /\ operations'[i].id = operations[i].id
  /\ DOMAIN inflight' = {id \in DOMAIN inflight : inflight[id] \notin X}
  /\ \A id \in DOMAIN inflight' : inflight'[id] = inflight[id]
  /\ operations' \in [DOMAIN operations' -> [tool : Tools, id : Ids, cancelled : BOOLEAN]]
  /\ inflight' \in [DOMAIN inflight' -> Nat]

Flying(ops, x) ==
  IF ops[x].id \in DOMAIN inflight /\ inflight[ops[x].id] = x THEN Without(inflight, ops[x].id) ELSE inflight

(* A call that is finished leaves the others held, and its id in flight for nobody. *)
LEMMA FinishLetsGo ==
  ASSUME Kept, HeldById, NEW x \in DOMAIN operations,
         NEW ops \in [DOMAIN operations -> [tool : Tools, id : Ids, cancelled : BOOLEAN]],
         \A i \in DOMAIN operations : ops[i].id = operations[i].id
  PROVE  LET left   == Without(ops, x)
             flying == Flying(ops, x)
         IN
         /\ DOMAIN left = DOMAIN operations \ {x} /\ \A i \in DOMAIN left : left[i] = ops[i]
         /\ DOMAIN flying = {id \in DOMAIN inflight : inflight[id] # x}
         /\ \A id \in DOMAIN flying : flying[id] = inflight[id]
         /\ left \in [DOMAIN left -> [tool : Tools, id : Ids, cancelled : BOOLEAN]]
         /\ flying \in [DOMAIN flying -> Nat]
<1> DEFINE left == Without(ops, x)
           flying == Flying(ops, x)
<1>1. /\ DOMAIN left = DOMAIN operations \ {x} /\ \A i \in DOMAIN left : left[i] = ops[i]
      /\ left \in [DOMAIN left -> [tool : Tools, id : Ids, cancelled : BOOLEAN]]
  BY DEF Without, Restrict
<1>2. flying = Without(inflight, ops[x].id) /\ ops[x].id \in DOMAIN inflight /\ inflight[ops[x].id] = x
  BY DEF HeldById, Flying
<1>3. \A id \in DOMAIN inflight : inflight[id] = x => id = ops[x].id
  BY DEF HeldById
<1>4. /\ DOMAIN flying = DOMAIN inflight \ {ops[x].id}
      /\ \A id \in DOMAIN flying : flying[id] = inflight[id]
      /\ flying \in [DOMAIN flying -> Nat]
  BY <1>2 DEF Without, Restrict, Kept
<1> QED BY <1>1, <1>2, <1>3, <1>4

(* Finish, field by field. *)
LEMMA FinishIs ==
  ASSUME NEW s, NEW ops, NEW flying, NEW list, NEW key
  PROVE  Finish([series |-> s, operations |-> ops, inflight |-> flying, cancelled |-> list], key) =
           [series |-> s, operations |-> Without(ops, key),
            inflight |-> IF ops[key].id \in DOMAIN flying /\ flying[ops[key].id] = key THEN Without(flying, ops[key].id) ELSE flying,
            cancelled |-> list]
<1> DEFINE c == [series |-> s, operations |-> ops, inflight |-> flying, cancelled |-> list]
           left == Without(ops, key)
           on == IF ops[key].id \in DOMAIN flying /\ flying[ops[key].id] = key THEN Without(flying, ops[key].id) ELSE flying
<1>1. c.operations = ops /\ c.inflight = flying
  OBVIOUS
<1>2. Finish(c, key) = [c EXCEPT !.operations = left, !.inflight = on]
  BY <1>1 DEF Finish, RequestKey
<1> HIDE DEF left, on
<1>3. [c EXCEPT !.operations = left, !.inflight = on] = [[c EXCEPT !.operations = left] EXCEPT !.inflight = on]
  OBVIOUS
<1>4. [c EXCEPT !.operations = left] = [series |-> s, operations |-> left, inflight |-> flying, cancelled |-> list]
  OBVIOUS
<1>5. [[series |-> s, operations |-> left, inflight |-> flying, cancelled |-> list] EXCEPT !.inflight = on]
        = [series |-> s, operations |-> left, inflight |-> on, cancelled |-> list]
  OBVIOUS
<1> HIDE DEF c
<1>6. Finish(c, key) = [series |-> s, operations |-> left, inflight |-> on, cancelled |-> list]
  BY <1>2, <1>3, <1>4, <1>5
<1> QED BY <1>6 DEF c, left, on

(* What an answer, a cancellation or a task's end does to the counters. *)
Ignored(k) ==
  /\ UNCHANGED <<series, cancelledCalls, operations>> /\ LetsGoOf({})
  /\ \/ k \notin DOMAIN operations \/ ~Done(calls'[k])
     \/ calls'[k].state = "cancelled" /\ ~calls'[k].late /\ operations[k].cancelled
Awaits(k) ==
  /\ k \in DOMAIN operations /\ ~operations[k].cancelled /\ calls'[k].state = "cancelled" /\ ~calls'[k].late
  /\ series' = series
  /\ \E X \in SUBSET DOMAIN operations :
       /\ LetsGoOf(X)
       /\ \A i \in DOMAIN operations' : operations'[i].cancelled = IF i = k THEN TRUE ELSE operations[i].cancelled
       /\ \/ X = {} /\ Len(cancelledCalls) < MaxCancelled /\ cancelledCalls' = Append(cancelledCalls, k)
          \/ /\ Len(cancelledCalls) >= MaxCancelled /\ cancelledCalls' = Tail(Append(cancelledCalls, k))
             /\ X = {Append(cancelledCalls, k)[1]} \cap DOMAIN operations
Finishes(k) ==
  /\ k \in DOMAIN operations /\ Done(calls'[k]) /\ ~(calls'[k].state = "cancelled" /\ ~calls'[k].late)
  /\ cancelledCalls' = cancelledCalls /\ LetsGoOf({k})
  /\ \A i \in DOMAIN operations' : operations'[i] = operations[i]
  /\ series' = Records(series, calls'[k], LabelOf(k))

(* No other is done by a frame that is no request (Observe, Ends). *)
LEMMA ObservesEnd ==
  ASSUME CountingInv, NEW f \in Frame, f.kind # "request", Stores(f), Observe(f), ~Unmatched(f), NEW k, k = About(calls, f)
  PROVE  Ignored(k) \/ Awaits(k) \/ Finishes(k)
<1>1. Kept /\ HeldById /\ HeldOpen /\ calls \in Seq(Call)
  BY DEF CountingInv, Kept
<1>2. calls' = Ingest(calls, f) /\ StoreCall(f) = EventCall(calls, f)
  BY DEF Stores, StoreCall
<1> DEFINE key == Max({EventCall(calls, f), EventTaskCall(f)})
           on(x) == IF x \in DOMAIN operations /\ Done(calls'[x]) THEN Ends(Collector, calls', x) ELSE Collector
           d == on(k)
<1>3. key = k \/ (key = 0 /\ k \in DOMAIN calls /\ (Done(calls[k]) \/ calls[k].task) /\ calls'[k] = calls[k])
  <2>1. Observed(calls, calls', f, k)
    BY <1>1, <1>2, ObservedCall
  <2> QED BY <2>1 DEF Observed
<1>4. /\ series' = on(key).series /\ operations' = on(key).operations
      /\ inflight' = on(key).inflight /\ cancelledCalls' = on(key).cancelled
  <2> HIDE DEF Ends
  <2> QED BY <1>2 DEF Observe, Collector
<1> HIDE DEF key
<1>10. CASE key # k
  <2>1. key = 0 /\ k \in DOMAIN calls /\ calls'[k] = calls[k]
    BY <1>3, <1>10
  <2>2. 0 \notin DOMAIN operations
    BY <1>1 DEF HeldById, Counted
  <2>3. on(key) = Collector
    BY <2>1, <2>2
  <2>4. UNCHANGED <<series, operations, inflight, cancelledCalls>>
    BY <1>4, <2>3 DEF Collector
  <2>5. k \notin DOMAIN operations \/ ~Done(calls'[k]) \/ (calls'[k].state = "cancelled" /\ ~calls'[k].late /\ operations[k].cancelled)
    BY <1>1, <2>1 DEF HeldOpen, Done
  <2> QED BY <1>1, <2>4, <2>5 DEF Ignored, LetsGoOf, Kept
<1>5. CASE key = k /\ ~(k \in DOMAIN operations /\ Done(calls'[k]))
  <2>1. UNCHANGED <<series, operations, inflight, cancelledCalls>>
    BY <1>4, <1>5 DEF Collector
  <2> QED BY <1>1, <1>5, <2>1 DEF Ignored, LetsGoOf, Kept
<1>6. CASE key = k /\ k \in DOMAIN operations /\ Done(calls'[k])
  <2>0. d = Ends(Collector, calls', k)
    BY <1>6
  <2>9. series' = d.series /\ operations' = d.operations /\ inflight' = d.inflight /\ cancelledCalls' = d.cancelled
    <3> HIDE DEF Ends
    <3> QED BY <1>4, <1>6
  <2> HIDE DEF d
  <2>1. CASE calls'[k].state = "cancelled" /\ ~calls'[k].late /\ operations[k].cancelled
    <3>1. d = Collector
      BY <2>0, <2>1 DEF Ends, Collector
    <3>2. UNCHANGED <<series, operations, inflight, cancelledCalls>>
      BY <2>9, <3>1 DEF Collector
    <3> QED BY <1>1, <2>1, <3>2 DEF Ignored, LetsGoOf, Kept
  <2>2. CASE calls'[k].state = "cancelled" /\ ~calls'[k].late /\ ~operations[k].cancelled
    <3> DEFINE ops == [operations EXCEPT ![k].cancelled = TRUE]
               waiting == Append(cancelledCalls, k)
               c == [series |-> series, operations |-> ops, inflight |-> inflight, cancelled |-> waiting]
    <3>1. d = TrimCancelled(c)
      <4>1. d = TrimCancelled([Collector EXCEPT !.operations[k].cancelled = TRUE, !.cancelled = Append(@, k)])
        BY <2>0, <2>2 DEF Ends, Collector
      <4>2. [Collector EXCEPT !.operations[k].cancelled = TRUE] = [Collector EXCEPT !.operations = ops]
        BY DEF Collector
      <4>4. [Collector EXCEPT !.operations = ops]
              = [series |-> series, operations |-> ops, inflight |-> inflight, cancelled |-> cancelledCalls]
        <5> HIDE DEF ops
        <5> QED BY DEF Collector
      <4>5. [Collector EXCEPT !.operations[k].cancelled = TRUE, !.cancelled = Append(@, k)]
              = [[Collector EXCEPT !.operations[k].cancelled = TRUE] EXCEPT !.cancelled = waiting]
        BY DEF Collector
      <4>6. [[series |-> series, operations |-> ops, inflight |-> inflight, cancelled |-> cancelledCalls] EXCEPT !.cancelled = waiting] = c
        <5> HIDE DEF ops, waiting
        <5> QED OBVIOUS
      <4>3. [Collector EXCEPT !.operations[k].cancelled = TRUE, !.cancelled = Append(@, k)] = c
        <5> HIDE DEF ops, waiting, c
        <5> QED BY <4>2, <4>4, <4>5, <4>6
      <4> QED BY <4>1, <4>3
    <3>2. /\ ops \in [DOMAIN operations -> [tool : Tools, id : Ids, cancelled : BOOLEAN]]
          /\ \A i \in DOMAIN operations : /\ ops[i].tool = operations[i].tool /\ ops[i].id = operations[i].id
                                          /\ ops[i].cancelled = IF i = k THEN TRUE ELSE operations[i].cancelled
      BY <1>1, <1>6 DEF Kept
    <3>3. Len(waiting) = Len(cancelledCalls) + 1 /\ Len(cancelledCalls) \in Nat /\ Head(waiting) = waiting[1]
      BY <1>1 DEF Kept
    <3> HIDE DEF ops, waiting
    <3>4. CASE Len(waiting) <= MaxCancelled
      <4>1. d = c
        BY <3>1, <3>4 DEF TrimCancelled
      <4>2. series' = series /\ operations' = ops /\ inflight' = inflight /\ cancelledCalls' = waiting
        BY <2>9, <4>1
      <4>3. LetsGoOf({})
        BY <1>1, <3>2, <4>2 DEF LetsGoOf, Kept
      <4>4. Len(cancelledCalls) < MaxCancelled
        BY <3>3, <3>4, MetricsAssumption
      <4> QED BY <1>6, <2>2, <3>2, <4>2, <4>3, <4>4 DEF Awaits, waiting
    <3>5. CASE Len(waiting) > MaxCancelled
      <4> DEFINE old == waiting[1]
      <4>0. Len(cancelledCalls) >= MaxCancelled
        BY <3>3, <3>5, MetricsAssumption
      <4>1. CASE old \in DOMAIN operations
        <5> DEFINE left == Without(ops, old)
                   flying == Flying(ops, old)
        <5>1. d = [Finish(c, old) EXCEPT !.cancelled = Tail(@)]
          BY <3>1, <3>2, <3>3, <3>5, <4>1, MetricsAssumption DEF TrimCancelled
        <5>2. Finish(c, old) = [series |-> series, operations |-> left, inflight |-> flying, cancelled |-> waiting]
          BY FinishIs DEF Flying
        <5>9. /\ left = Without(ops, old)
              /\ flying = Flying(ops, old)
          OBVIOUS
        <5> HIDE DEF left, flying
        <5>3. series' = series /\ operations' = left /\ inflight' = flying /\ cancelledCalls' = Tail(waiting)
          BY <2>9, <5>1, <5>2
        <5>4. /\ DOMAIN left = DOMAIN operations \ {old} /\ \A i \in DOMAIN left : left[i] = ops[i]
              /\ DOMAIN flying = {id \in DOMAIN inflight : inflight[id] # old}
              /\ \A id \in DOMAIN flying : flying[id] = inflight[id]
              /\ left \in [DOMAIN left -> [tool : Tools, id : Ids, cancelled : BOOLEAN]]
              /\ flying \in [DOMAIN flying -> Nat]
          BY <1>1, <3>2, <4>1, <5>9, FinishLetsGo
        <5>5. LetsGoOf({old})
          BY <3>2, <5>3, <5>4 DEF LetsGoOf
        <5>6. {old} = {waiting[1]} \cap DOMAIN operations /\ {old} \in SUBSET DOMAIN operations
          BY <4>1
        <5>7. \A i \in DOMAIN operations' : operations'[i].cancelled = IF i = k THEN TRUE ELSE operations[i].cancelled
          BY <3>2, <5>3, <5>4
        <5> QED BY <1>6, <2>2, <4>0, <5>3, <5>5, <5>6, <5>7 DEF Awaits, waiting
      <4>2. CASE old \notin DOMAIN operations
        <5>1. d = [c EXCEPT !.cancelled = Tail(@)]
          BY <3>1, <3>2, <3>3, <3>5, <4>2, MetricsAssumption DEF TrimCancelled
        <5>2. series' = series /\ operations' = ops /\ inflight' = inflight /\ cancelledCalls' = Tail(waiting)
          BY <2>9, <5>1
        <5>3. LetsGoOf({})
          BY <1>1, <3>2, <5>2 DEF LetsGoOf, Kept
        <5>4. {} = {waiting[1]} \cap DOMAIN operations /\ {} \in SUBSET DOMAIN operations
          BY <4>2
        <5> QED BY <1>6, <2>2, <3>2, <4>0, <5>2, <5>3, <5>4 DEF Awaits, waiting
      <4> QED BY <4>1, <4>2
    <3> QED BY <3>3, <3>4, <3>5, MetricsAssumption
  <2>3. CASE ~(calls'[k].state = "cancelled" /\ ~calls'[k].late)
    <3> DEFINE left == Without(operations, k)
               flying == Flying(operations, k)
               counted == Records(series, calls'[k], LabelOf(k))
    <3>1. d = Finish([series |-> counted, operations |-> operations, inflight |-> inflight, cancelled |-> cancelledCalls], k)
      BY <2>0, <2>3 DEF Ends, Collector, LabelOf
    <3> HIDE DEF counted
    <3>2. d = [series |-> counted, operations |-> left, inflight |-> flying, cancelled |-> cancelledCalls]
      BY <3>1, FinishIs DEF Flying
    <3>6. /\ left = Without(operations, k)
          /\ flying = Flying(operations, k)
      OBVIOUS
    <3> HIDE DEF left, flying
    <3>3. series' = counted /\ operations' = left /\ inflight' = flying /\ cancelledCalls' = cancelledCalls
      BY <2>9, <3>2
    <3>4. /\ DOMAIN left = DOMAIN operations \ {k} /\ \A i \in DOMAIN left : left[i] = operations[i]
          /\ DOMAIN flying = {id \in DOMAIN inflight : inflight[id] # k}
          /\ \A id \in DOMAIN flying : flying[id] = inflight[id]
          /\ left \in [DOMAIN left -> [tool : Tools, id : Ids, cancelled : BOOLEAN]]
          /\ flying \in [DOMAIN flying -> Nat]
      <4>1. operations \in [DOMAIN operations -> [tool : Tools, id : Ids, cancelled : BOOLEAN]]
        BY <1>1 DEF Kept
      <4> QED BY <1>1, <1>6, <3>6, <4>1, FinishLetsGo
    <3>5. LetsGoOf({k})
      BY <3>3, <3>4 DEF LetsGoOf
    <3> QED BY <1>6, <2>3, <3>3, <3>4, <3>5 DEF Finishes, counted
  <2> QED BY <2>1, <2>2, <2>3
<1> QED BY <1>5, <1>6, <1>10

-----------------------------------------------------------------------------
(* How an end is recorded. *)
LEMMA RecordsCounts ==
  ASSUME NEW counters, Tallies(counters), NEW call \in Call, ~Unmarked(call), NEW label \in DOMAIN counters,
         NEW after, after = Records(counters, call, label)
  PROVE  /\ Tallies(after) /\ DOMAIN after = DOMAIN counters
         /\ \A err \in {"tool", "protocol"} :
              Cardinality(Units(after, err)) = Cardinality(Units(counters, err)) + (IF call.err = err THEN 1 ELSE 0)
         /\ Units(after, "calls") = Units(counters, "calls")
         /\ \A t \in DOMAIN counters \ {label} : after[t] = counters[t]
         /\ after[label].calls = counters[label].calls
         /\ after[label].count <= counters[label].count + 1
         /\ counters[label].tool + counters[label].protocol <= counters[label].count
              => after[label].tool + after[label].protocol <= after[label].count
<1> DEFINE failed == IF call.err = Nothing THEN counters ELSE Bump(counters, label, call.err)
           unending == call.state = "superseded" \/ (call.taskEnd = "cancelled" /\ call.err = Nothing)
<1>1. after = IF unending THEN failed ELSE Bump(failed, label, "count")
  BY DEF Records
<1>2. call.err \in {Nothing, "tool", "protocol"} /\ (unending => call.err = Nothing)
  BY DEF Call, Unmarked
<1>3. Counters = {"calls", "tool", "protocol", "count"} /\ Nothing \notin Counters
  BY DEF Counters, Nothing
<1>4. \A t \in DOMAIN counters : counters[t] \in [Counters -> Nat]
  BY DEF Tallies
<1> HIDE DEF unending
<1>5. /\ Tallies(failed) /\ DOMAIN failed = DOMAIN counters
      /\ \A err \in {"tool", "protocol"} :
           Cardinality(Units(failed, err)) = Cardinality(Units(counters, err)) + (IF call.err = err THEN 1 ELSE 0)
      /\ \A g \in {"calls", "count"} : Units(failed, g) = Units(counters, g)
      /\ \A t \in DOMAIN counters \ {label} : failed[t] = counters[t]
      /\ \A g \in Counters : failed[label][g] = counters[label][g] + (IF g = call.err THEN 1 ELSE 0)
  <2>1. CASE call.err = Nothing
    <3>1. \A g \in Counters : counters[label][g] \in Nat
      BY <1>4
    <3>2. \A g \in Counters : IsFiniteSet(Units(counters, g))
      BY DEF Tallies
    <3>3. \A g \in Counters : Cardinality(Units(counters, g)) \in Nat
      BY <3>2, FS_CardinalityType
    <3> QED BY <1>3, <2>1, <3>1, <3>3 DEF Nothing
  <2>2. CASE call.err # Nothing
    <3>1. failed = Bump(counters, label, call.err) /\ call.err \in Counters
      BY <1>2, <1>3, <2>2
    <3> HIDE DEF failed
    <3>2. OneMore(counters, label, call.err, failed)
      BY <3>1, BumpAdds
    <3>3. \A g \in Counters : IsFiniteSet(Units(counters, g))
      BY DEF Tallies
    <3>4. \A g \in Counters : Cardinality(Units(counters, g)) \in Nat
      BY <3>3, FS_CardinalityType
    <3> QED BY <1>2, <1>3, <2>2, <3>2, <3>4 DEF OneMore
  <2> QED BY <2>1, <2>2
<1> HIDE DEF failed
<1>6. \A g \in Counters : counters[label][g] \in Nat /\ failed[label][g] \in Nat
  BY <1>4, <1>5
<1>7. CASE unending
  <2>1. after = failed /\ call.err = Nothing
    BY <1>1, <1>2, <1>7
  <2> QED BY <1>3, <1>5, <1>6, <2>1
<1>8. CASE ~unending
  <2>1. after = Bump(failed, label, "count") /\ "count" \in Counters
    BY <1>1, <1>3, <1>8
  <2>2. OneMore(failed, label, "count", after)
    BY <1>5, <2>1, BumpAdds
  <2>3. /\ after[label].calls = counters[label].calls
        /\ after[label].count = counters[label].count + 1
        /\ after[label].tool = counters[label].tool + (IF call.err = "tool" THEN 1 ELSE 0)
        /\ after[label].protocol = counters[label].protocol + (IF call.err = "protocol" THEN 1 ELSE 0)
    <3>1. \A g \in Counters : after[label][g] = failed[label][g] + (IF g = "count" THEN 1 ELSE 0)
      BY <1>5, <2>2 DEF OneMore
    <3>2. \A g \in Counters : failed[label][g] = counters[label][g] + (IF g = call.err THEN 1 ELSE 0)
      BY <1>5
    <3>3. call.err # "count" /\ call.err # "calls"
      BY <1>2 DEF Nothing
    <3> QED BY <1>3, <1>6, <3>1, <3>2, <3>3
  <2>4. after[label].tool + after[label].protocol <= counters[label].tool + counters[label].protocol + 1
    BY <1>3, <1>6, <2>3
  <2> QED BY <1>3, <1>5, <1>6, <2>2, <2>3, <2>4 DEF OneMore
<1> QED BY <1>7, <1>8

-----------------------------------------------------------------------------
(* A frame that is no request. *)
OtherFrame(k, kind) ==
  /\ live /\ live' = live /\ history' = history
  /\ calls' \in Seq(Call) /\ DOMAIN calls' = DOMAIN calls
  /\ \A j \in DOMAIN calls : j # k => calls'[j] = calls[j]
  /\ k \in DOMAIN calls => MovesOn(calls[k], calls'[k], kind)
  /\ k \in DOMAIN calls /\ kind = "response" => Newest(k)
  /\ forgotten \subseteq forgotten' /\ \A j \in DOMAIN calls \cap forgotten : calls'[j] = calls[j]
  /\ prompt' \in {0, k}

(* The calls are the same, and what has an end keeps it. *)
LEMMA SameCalls ==
  ASSUME Kept, NEW k, NEW kind, OtherFrame(k, kind)
  PROVE  /\ Len(calls') = Len(calls)
         /\ \A i \in DOMAIN calls : calls[i] \in Call /\ calls'[i] \in Call /\ i \in Nat
         /\ \A i \in DOMAIN calls : calls'[i].id = calls[i].id /\ calls'[i].name = calls[i].name
         /\ Counted' = Counted /\ Counted \subseteq DOMAIN calls /\ IsFiniteSet(Counted)
         /\ \A i \in DOMAIN calls : Newest(i) => Newest(i)'
         /\ \A i \in DOMAIN calls : calls[i].state = "cancelled" => calls'[i].state = "cancelled"
         /\ \A i \in DOMAIN calls : calls[i].state = "done" \/ (calls[i].state = "cancelled" /\ calls[i].late) => calls'[i] = calls[i]
         /\ \A i \in DOMAIN calls : Overtaken(i) => Overtaken(i)' /\ calls'[i] = calls[i]
         /\ \A i \in DOMAIN calls : Unanswered(i) => Unanswered(i)'
<1>1. DOMAIN calls = 1 .. Len(calls) /\ Len(calls) \in Nat /\ calls \in Seq(Call)
  BY DEF Kept
<1>2. Len(calls') = Len(calls)
  BY <1>1, LenProperties DEF OtherFrame
<1>3. \A i \in DOMAIN calls : calls[i] \in Call /\ calls'[i] \in Call /\ i \in Nat
  BY <1>1 DEF OtherFrame
<1>4. \A i \in DOMAIN calls : calls'[i].id = calls[i].id /\ calls'[i].name = calls[i].name
  BY DEF OtherFrame, MovesOn
<1>5. Counted' = Counted
  BY <1>4 DEF Counted, OtherFrame, IsTool
<1>6. Counted \subseteq DOMAIN calls /\ IsFiniteSet(Counted)
  <2>1. IsFiniteSet(1 .. Len(calls)) /\ Counted \subseteq 1 .. Len(calls)
    BY <1>1, FS_Interval DEF Counted
  <2> QED BY <1>1, <2>1, FS_Subset
<1>7. \A i \in DOMAIN calls : Newest(i) => Newest(i)'
  BY <1>4 DEF Newest, OtherFrame
<1>8. \A i \in DOMAIN calls : calls[i].state = "cancelled" => calls'[i].state = "cancelled"
  BY DEF OtherFrame, MovesOn
<1>9. \A i \in DOMAIN calls : calls[i].state = "done" \/ (calls[i].state = "cancelled" /\ calls[i].late) => calls'[i] = calls[i]
  BY DEF OtherFrame, MovesOn
<1>10. \A i \in DOMAIN calls : Overtaken(i) => Overtaken(i)' /\ calls'[i] = calls[i]
  <2> SUFFICES ASSUME NEW i \in DOMAIN calls, Overtaken(i) PROVE Overtaken(i)' /\ calls'[i] = calls[i]
    OBVIOUS
  <2>1. PICK j \in DOMAIN calls : j > i /\ calls[j].id = calls[i].id
    BY DEF Overtaken
  <2>2. calls'[i] = calls[i]
    <3>1. ~Newest(i)
      BY <2>1 DEF Newest
    <3>2. calls[i].state \in {"done", "cancelled", "superseded"}
      BY <1>3 DEF Overtaken, Done, Call
    <3> QED BY <3>1, <3>2 DEF OtherFrame, MovesOn
  <2>3. j \in DOMAIN calls' /\ calls'[j].id = calls'[i].id
    BY <1>4, <2>1 DEF OtherFrame
  <2> QED BY <2>1, <2>2, <2>3 DEF Overtaken
<1>11. \A i \in DOMAIN calls : Unanswered(i) => Unanswered(i)'
  BY DEF OtherFrame, Unanswered
<1> QED BY <1>2, <1>3, <1>4, <1>5, <1>6, <1>7, <1>8, <1>9, <1>10, <1>11

(* What is still held is held by its id. *)
LEMMA OtherKeepsHeld ==
  ASSUME Kept, HeldById, NEW k, NEW kind, OtherFrame(k, kind), NEW X, LetsGoOf(X)
  PROVE  HeldById'
<1>1. /\ \A i \in DOMAIN calls : calls'[i].id = calls[i].id /\ calls'[i].name = calls[i].name
      /\ Counted' = Counted /\ Counted \subseteq DOMAIN calls
      /\ \A i \in DOMAIN calls : Newest(i) => Newest(i)'
  BY SameCalls
<1>2. ASSUME NEW i \in DOMAIN operations'
      PROVE  /\ i \in Counted' /\ Newest(i)'
             /\ operations'[i].tool = calls'[i].name /\ operations'[i].id = calls'[i].id
             /\ calls'[i].id \in DOMAIN inflight' /\ inflight'[calls'[i].id] = i
  <2>1. i \in DOMAIN operations /\ i \notin X
    BY DEF LetsGoOf
  <2>2. /\ i \in Counted /\ Newest(i)
        /\ operations[i].tool = calls[i].name /\ operations[i].id = calls[i].id
        /\ calls[i].id \in DOMAIN inflight /\ inflight[calls[i].id] = i
    BY <2>1 DEF HeldById
  <2>3. calls[i].id \in DOMAIN inflight' /\ inflight'[calls[i].id] = i
    BY <2>1, <2>2 DEF LetsGoOf
  <2> QED BY <1>1, <2>2, <2>3 DEF LetsGoOf
<1>3. ASSUME NEW id \in DOMAIN inflight' PROVE inflight'[id] \in DOMAIN operations' /\ calls'[inflight'[id]].id = id
  <2>1. id \in DOMAIN inflight /\ inflight'[id] = inflight[id] /\ inflight[id] \notin X
    BY DEF LetsGoOf
  <2>2. inflight[id] \in DOMAIN operations /\ calls[inflight[id]].id = id
    BY <2>1 DEF HeldById
  <2>3. inflight[id] \in DOMAIN calls
    BY <1>1, <2>2 DEF HeldById
  <2> QED BY <1>1, <2>1, <2>2, <2>3 DEF LetsGoOf
<1> QED BY <1>2, <1>3 DEF HeldById

(* A call has no error before its end is recorded, whatever the frame. *)
LEMMA IngestKeepsMarks ==
  ASSUME calls \in Seq(Call), ErrsMarked, NEW f \in Frame, calls' = Ingest(calls, f)
  PROVE  ErrsMarked'
<1>1. CASE f.kind = "request"
  <2> SUFFICES ASSUME NEW i \in DOMAIN calls', Unmarked(calls'[i]) PROVE calls'[i].err = Nothing
    BY DEF ErrsMarked
  <2>1. Opens(calls, calls', f)
    BY <1>1, ObservedRequest
  <2>2. CASE i = Len(calls) + 1
    BY <2>1, <2>2 DEF Opens, Opened
  <2>3. CASE i \in DOMAIN calls
    <3>1. calls[i] \in Call
      BY <2>3
    <3>2. calls'[i] = calls[i] \/ (calls[i].state = "pending" /\ calls'[i] = [calls[i] EXCEPT !.state = "superseded"])
      BY <2>1, <2>3 DEF Opens
    <3> QED BY <2>3, <3>1, <3>2 DEF ErrsMarked, Unmarked, Call
  <2> QED BY <2>1, <2>2, <2>3 DEF Opens
<1>2. CASE f.kind # "request"
  <2>1. PICK k : k = About(calls, f)
    OBVIOUS
  <2>2. /\ DOMAIN calls' = DOMAIN calls /\ \A j \in DOMAIN calls : j # k => calls'[j] = calls[j]
        /\ k \in DOMAIN calls => MovesOn(calls[k], calls'[k], f.kind)
    <3>1. Observed(calls, calls', f, k)
      BY <1>2, <2>1, ObservedCall
    <3> QED BY <3>1 DEF Observed
  <2> SUFFICES ASSUME NEW i \in DOMAIN calls, Unmarked(calls'[i]) PROVE calls'[i].err = Nothing
    BY <2>2 DEF ErrsMarked
  <2>3. CASE i # k
    BY <2>2, <2>3 DEF ErrsMarked
  <2>4. CASE i = k
    <3>1. MovesOn(calls[k], calls'[k], f.kind) /\ calls[k] \in Call
      BY <2>2, <2>4
    <3>2. CASE Unmarked(calls[k])
      BY <2>4, <3>1, <3>2 DEF MovesOn, ErrsMarked
    <3>3. CASE ~Unmarked(calls[k])
      <4>1. calls'[k] = calls[k]
        BY <2>4, <3>1, <3>3 DEF MovesOn, Unmarked, Call
      <4> QED BY <2>4, <3>3, <4>1
    <3> QED BY <3>2, <3>3
  <2> QED BY <2>3, <2>4
<1> QED BY <1>1, <1>2

(* One of the three things a frame that is no request does to the counters. *)
OtherStep(k, kind) == OtherFrame(k, kind) /\ (Ignored(k) \/ Awaits(k) \/ Finishes(k))

(* What is still held is open or remembered. *)
LEMMA OtherKeepsOpen ==
  ASSUME Kept, HeldById, HeldOpen, LateOnes, NEW k, NEW kind, OtherStep(k, kind)
  PROVE  HeldOpen'
<1>1. /\ \A i \in DOMAIN calls : calls[i] \in Call /\ calls'[i] \in Call /\ i \in Nat
      /\ DOMAIN operations \subseteq DOMAIN calls
  BY SameCalls DEF OtherStep, HeldById, Counted
<1>2. \A i \in DOMAIN calls : i # k => calls'[i] = calls[i]
  BY DEF OtherStep, OtherFrame
<1>3. k \in DOMAIN calls => MovesOn(calls[k], calls'[k], kind)
  BY DEF OtherStep, OtherFrame
<1>4. CASE Ignored(k)
  <2> SUFFICES ASSUME NEW i \in DOMAIN operations
               PROVE  \/ calls'[i].state = "pending" /\ ~operations[i].cancelled
                      \/ /\ calls'[i].state = "cancelled" /\ ~calls'[i].late /\ operations[i].cancelled
                         /\ \E n \in DOMAIN cancelledCalls : cancelledCalls[n] = i
    BY <1>4 DEF Ignored, HeldOpen
  <2>1. \/ calls[i].state = "pending" /\ ~operations[i].cancelled
        \/ /\ calls[i].state = "cancelled" /\ ~calls[i].late /\ operations[i].cancelled
           /\ \E n \in DOMAIN cancelledCalls : cancelledCalls[n] = i
    BY DEF HeldOpen
  <2>2. CASE i # k
    BY <1>1, <1>2, <2>1, <2>2
  <2>3. CASE i = k
    <3>1. \/ calls'[k].state = "pending"
          \/ calls'[k].state = "cancelled" /\ ~calls'[k].late /\ operations[k].cancelled
      BY <1>4, <2>3 DEF Ignored, Done
    <3>2. calls[k].state = "cancelled" => calls'[k].state = "cancelled"
      BY <1>1, <1>3, <2>3 DEF MovesOn
    <3> QED BY <2>1, <2>3, <3>1, <3>2
  <2> QED BY <2>2, <2>3
<1>5. CASE Awaits(k)
  <2>1. PICK X \in SUBSET DOMAIN operations :
          /\ LetsGoOf(X)
          /\ \A i \in DOMAIN operations' : operations'[i].cancelled = IF i = k THEN TRUE ELSE operations[i].cancelled
          /\ \/ X = {} /\ Len(cancelledCalls) < MaxCancelled /\ cancelledCalls' = Append(cancelledCalls, k)
             \/ /\ Len(cancelledCalls) >= MaxCancelled /\ cancelledCalls' = Tail(Append(cancelledCalls, k))
                /\ X = {Append(cancelledCalls, k)[1]} \cap DOMAIN operations
    BY <1>5 DEF Awaits
  <2> DEFINE waiting == Append(cancelledCalls, k)
             n == Len(cancelledCalls)
  <2>2. /\ n \in Nat /\ k \in Nat /\ waiting \in Seq(Nat) /\ Len(waiting) = n + 1 /\ waiting[n + 1] = k
        /\ \A m \in 1 .. n : waiting[m] = cancelledCalls[m]
        /\ DOMAIN cancelledCalls = 1 .. n
    BY <1>1, <1>5 DEF Kept, Awaits
  <2> HIDE DEF waiting, n
  <2>3. \A i \in DOMAIN operations' : \A m \in 1 .. n + 1 :
          waiting[m] = i => \E l \in DOMAIN cancelledCalls' : cancelledCalls'[l] = i
    <3> SUFFICES ASSUME NEW i \in DOMAIN operations', NEW m \in 1 .. n + 1, waiting[m] = i
                 PROVE  \E l \in DOMAIN cancelledCalls' : cancelledCalls'[l] = i
      OBVIOUS
    <3>1. CASE cancelledCalls' = waiting
      BY <2>2, <3>1
    <3>2. CASE cancelledCalls' = Tail(waiting) /\ X = {waiting[1]} \cap DOMAIN operations
      <4>1. /\ DOMAIN Tail(waiting) = 1 .. n
            /\ \A l \in 1 .. n : Tail(waiting)[l] = waiting[l + 1]
        BY <2>2
      <4>2. m # 1
        BY <2>1, <3>2 DEF LetsGoOf
      <4>3. m - 1 \in 1 .. n /\ m - 1 + 1 = m
        BY <2>2, <4>2
      <4> QED BY <3>2, <4>1, <4>3
    <3> QED BY <2>1, <3>1, <3>2 DEF waiting
  <2> SUFFICES ASSUME NEW i \in DOMAIN operations'
               PROVE  \/ calls'[i].state = "pending" /\ ~operations'[i].cancelled
                      \/ /\ calls'[i].state = "cancelled" /\ ~calls'[i].late /\ operations'[i].cancelled
                         /\ \E l \in DOMAIN cancelledCalls' : cancelledCalls'[l] = i
    BY DEF HeldOpen
  <2>4. i \in DOMAIN operations /\ operations'[i].cancelled = IF i = k THEN TRUE ELSE operations[i].cancelled
    BY <2>1 DEF LetsGoOf
  <2>5. CASE i = k
    <3>1. \E l \in DOMAIN cancelledCalls' : cancelledCalls'[l] = i
      BY <2>2, <2>3, <2>5
    <3> QED BY <1>5, <2>4, <2>5, <3>1 DEF Awaits
  <2>6. CASE i # k
    <3>1. calls'[i] = calls[i] /\ operations'[i].cancelled = operations[i].cancelled
      BY <1>1, <1>2, <2>4, <2>6
    <3>2. CASE calls[i].state = "pending" /\ ~operations[i].cancelled
      BY <3>1, <3>2
    <3>3. CASE calls[i].state = "cancelled" /\ ~calls[i].late /\ operations[i].cancelled
      <4>1. PICK m \in DOMAIN cancelledCalls : cancelledCalls[m] = i
        BY <2>4, <3>3 DEF HeldOpen
      <4>2. m \in 1 .. n + 1 /\ waiting[m] = i
        BY <2>2, <4>1
      <4> QED BY <2>3, <3>1, <3>3, <4>2
    <3> QED BY <2>4, <3>2, <3>3 DEF HeldOpen
  <2> QED BY <2>5, <2>6
<1>6. CASE Finishes(k)
  <2> SUFFICES ASSUME NEW i \in DOMAIN operations'
               PROVE  \/ calls'[i].state = "pending" /\ ~operations'[i].cancelled
                      \/ /\ calls'[i].state = "cancelled" /\ ~calls'[i].late /\ operations'[i].cancelled
                         /\ \E l \in DOMAIN cancelledCalls' : cancelledCalls'[l] = i
    BY DEF HeldOpen
  <2>1. i \in DOMAIN operations /\ i # k /\ operations'[i] = operations[i] /\ cancelledCalls' = cancelledCalls
    BY <1>6 DEF Finishes, LetsGoOf
  <2>2. calls'[i] = calls[i]
    BY <1>1, <1>2, <2>1
  <2> QED BY <2>1, <2>2 DEF HeldOpen
<1> QED BY <1>4, <1>5, <1>6 DEF OtherStep

(* What is remembered stays cancelled; one more is put at the end, and the first goes if it does not fit. *)
LEMMA OtherKeepsRemembered ==
  ASSUME Kept, HeldById, HeldOpen, LateOnes, NEW k, NEW kind, OtherStep(k, kind)
  PROVE  LateOnes' /\ cancelledCalls' \in Seq(Nat)
<1>1. /\ \A i \in DOMAIN calls : calls[i].state = "cancelled" => calls'[i].state = "cancelled"
      /\ Counted' = Counted /\ Counted \subseteq DOMAIN calls
      /\ \A i \in DOMAIN calls : i \in Nat
  BY SameCalls DEF OtherStep
<1>2. CASE cancelledCalls' = cancelledCalls
  BY <1>1, <1>2 DEF LateOnes, Kept
<1>3. CASE Awaits(k)
  <2> DEFINE waiting == Append(cancelledCalls, k)
             n == Len(cancelledCalls)
  <2>1. k \in DOMAIN operations /\ k \in Counted /\ calls'[k].state = "cancelled" /\ calls[k].state = "pending"
    BY <1>3 DEF Awaits, HeldById, HeldOpen
  <2>2. /\ n \in Nat /\ k \in Nat /\ waiting \in Seq(Nat) /\ Len(waiting) = n + 1 /\ waiting[n + 1] = k
        /\ \A m \in 1 .. n : waiting[m] = cancelledCalls[m]
        /\ DOMAIN cancelledCalls = 1 .. n
    BY <1>1, <2>1 DEF Kept
  <2> HIDE DEF waiting, n
  <2>3. \A m \in 1 .. n + 1 : waiting[m] \in Counted' /\ calls'[waiting[m]].state = "cancelled"
    <3> SUFFICES ASSUME NEW m \in 1 .. n + 1 PROVE waiting[m] \in Counted' /\ calls'[waiting[m]].state = "cancelled"
      OBVIOUS
    <3>1. CASE m = n + 1
      BY <1>1, <2>1, <2>2, <3>1
    <3>2. CASE m \in 1 .. n
      BY <1>1, <2>2, <3>2 DEF LateOnes
    <3> QED BY <2>2, <3>1, <3>2
  <2>4. \A m \in 1 .. n : waiting[m] # k
    BY <2>1, <2>2 DEF LateOnes
  <2>5. \A m, l \in 1 .. n + 1 : waiting[m] = waiting[l] => m = l
    <3> SUFFICES ASSUME NEW m \in 1 .. n + 1, NEW l \in 1 .. n + 1, waiting[m] = waiting[l] PROVE m = l
      OBVIOUS
    <3>1. CASE m \in 1 .. n /\ l \in 1 .. n
      BY <2>2, <3>1 DEF LateOnes
    <3>2. CASE m = n + 1 \/ l = n + 1
      BY <2>2, <2>4, <3>2
    <3> QED BY <2>2, <3>1, <3>2
  <2>6. CASE n < MaxCancelled /\ cancelledCalls' = waiting
    BY <2>2, <2>3, <2>5, <2>6, MetricsAssumption DEF LateOnes
  <2>7. CASE cancelledCalls' = Tail(waiting)
    <3>1. /\ Tail(waiting) \in Seq(Nat) /\ DOMAIN Tail(waiting) = 1 .. n /\ Len(Tail(waiting)) = n
          /\ \A l \in 1 .. n : Tail(waiting)[l] = waiting[l + 1] /\ l + 1 \in 1 .. n + 1
      BY <2>2
    <3>2. n <= MaxCancelled
      BY DEF LateOnes, n
    <3>3. \A m, l \in 1 .. n : Tail(waiting)[m] = Tail(waiting)[l] => m = l
      <4> SUFFICES ASSUME NEW m \in 1 .. n, NEW l \in 1 .. n, waiting[m + 1] = waiting[l + 1] PROVE m = l
        BY <3>1
      <4>1. m + 1 = l + 1
        BY <2>5, <3>1
      <4> QED BY <4>1
    <3>4. \A l \in 1 .. n : Tail(waiting)[l] \in Counted' /\ calls'[Tail(waiting)[l]].state = "cancelled"
      BY <2>3, <3>1
    <3> QED BY <2>7, <3>1, <3>2, <3>3, <3>4 DEF LateOnes
  <2> QED BY <1>3, <2>6, <2>7 DEF Awaits, waiting, n
<1> QED BY <1>2, <1>3 DEF OtherStep, Ignored, Finishes

(* What is let go for want of room was cancelled before the call that now is, and its answer can find
   it no more. *)
LEMMA TrimmedIsForgotten ==
  ASSUME Kept, HeldById, HeldOpen, LateOnes, NEW k, NEW kind, OtherStep(k, kind), Awaits(k), Remembers',
         Len(cancelledCalls) >= MaxCancelled, NEW i \in {Append(cancelledCalls, k)[1]} \cap DOMAIN operations
  PROVE  Unanswered(i)'
<1>1. DOMAIN cancelledCalls = 1 .. Len(cancelledCalls) /\ Len(cancelledCalls) \in Nat /\ cancelledCalls \in Seq(Nat)
  BY DEF Kept
<1>2. k \in DOMAIN operations /\ calls[k].state = "pending"
  BY DEF Awaits, HeldOpen
<1>3. 1 \in DOMAIN cancelledCalls /\ i = cancelledCalls[1] /\ i \in DOMAIN operations
  BY <1>1, MetricsAssumption
<1>4. i \in DOMAIN calls /\ calls[i].state = "cancelled" /\ i # k /\ i # 0
  BY <1>2, <1>3 DEF LateOnes, Counted, Kept
<1>5. calls'[i] = calls[i] /\ ~calls[i].late /\ i \in DOMAIN calls' /\ prompt' \in {0, k}
  BY <1>3, <1>4 DEF OtherStep, OtherFrame, HeldOpen
<1> QED BY <1>4, <1>5 DEF Remembers, Unanswered

(* What was recorded stays as it is, and what is let go was recorded, is overtaken or was forgotten. *)
LEMMA OtherKeepsRecorded ==
  ASSUME Kept, HeldById, HeldOpen, LateOnes, Labelled, Recorded, NEW k, NEW kind, OtherStep(k, kind), Remembers'
  PROVE  Recorded'
<1>1. /\ Counted' = Counted /\ Counted \subseteq DOMAIN calls /\ IsFiniteSet(Counted)
      /\ \A i \in DOMAIN calls : calls[i] \in Call /\ calls'[i] \in Call
      /\ \A i \in DOMAIN calls : calls[i].state = "done" \/ (calls[i].state = "cancelled" /\ calls[i].late) => calls'[i] = calls[i]
      /\ \A i \in DOMAIN calls : Overtaken(i) => Overtaken(i)' /\ calls'[i] = calls[i]
  BY SameCalls DEF OtherStep
<1>2. \A i \in DOMAIN calls : Unanswered(i) => Unanswered(i)'
  BY SameCalls DEF OtherStep
<1>3. PICK R \in SUBSET Counted : EndsRecorded(R)
  BY DEF Recorded
<1>4. \A i \in R : calls'[i] = calls[i] /\ ~Unmarked(calls'[i])
  BY <1>1, <1>3 DEF EndsRecorded, Unmarked, Call
<1>5. \A err : Erred(R, err)' = Erred(R, err)
  BY <1>4 DEF Erred
<1>6. \A i \in Counted \ (R \cup DOMAIN operations) : Overtaken(i)' \/ Unanswered(i)'
  BY <1>1, <1>2, <1>3 DEF EndsRecorded
<1>7. CASE Ignored(k)
  <2>1. DOMAIN operations' = DOMAIN operations /\ series' = series
    BY <1>7 DEF Ignored
  <2>2. \A err \in {"tool", "protocol"} : Total(err)' = Cardinality(Erred(R, err)')
    BY <1>3, <1>5, <2>1 DEF EndsRecorded, Total, Units
  <2>3. EndsRecorded(R)'
    BY <1>1, <1>3, <1>4, <1>6, <2>1, <2>2 DEF EndsRecorded
  <2> QED BY <1>1, <1>3, <2>3 DEF Recorded
<1>8. CASE Awaits(k)
  <2>1. PICK X \in SUBSET DOMAIN operations :
          LetsGoOf(X) /\ (X = {} \/ (Len(cancelledCalls) >= MaxCancelled /\ X = {Append(cancelledCalls, k)[1]} \cap DOMAIN operations))
    BY <1>8 DEF Awaits
  <2>2. series' = series /\ DOMAIN operations' = DOMAIN operations \ X
    BY <1>8, <2>1 DEF Awaits, LetsGoOf
  <2>3. \A err \in {"tool", "protocol"} : Total(err)' = Cardinality(Erred(R, err)')
    BY <1>3, <1>5, <2>2 DEF EndsRecorded, Total, Units
  <2>4. \A i \in X : Unanswered(i)'
    BY <1>8, <2>1, TrimmedIsForgotten
  <2>5. \A i \in Counted' \ (R \cup DOMAIN operations') : Overtaken(i)' \/ Unanswered(i)'
    BY <1>1, <1>6, <2>2, <2>4
  <2>6. EndsRecorded(R)'
    BY <1>1, <1>3, <1>4, <2>2, <2>3, <2>5 DEF EndsRecorded
  <2> QED BY <1>1, <1>3, <2>6 DEF Recorded
<1>9. CASE Finishes(k)
  <2> DEFINE Q == R \cup {k}
  <2>1. /\ k \in DOMAIN operations /\ k \in Counted /\ k \notin R /\ k \in DOMAIN calls
        /\ DOMAIN operations' = DOMAIN operations \ {k}
    BY <1>1, <1>3, <1>9 DEF Finishes, LetsGoOf, HeldById, EndsRecorded
  <2>2. ~Unmarked(calls'[k]) /\ calls'[k] \in Call
    <3>1. calls'[k].state # "superseded"
      BY <2>1 DEF OtherStep, OtherFrame, MovesOn, HeldOpen
    <3> QED BY <1>1, <1>9, <2>1, <3>1 DEF Finishes, Unmarked, Done
  <2>3. LabelOf(k) \in DOMAIN series /\ Tallies(series)
    BY <2>1 DEF Labelled, Kept
  <2>4. series' = Records(series, calls'[k], LabelOf(k))
    BY <1>9 DEF Finishes
  <2>5. \A err \in {"tool", "protocol"} :
          Cardinality(Units(series', err)) = Cardinality(Units(series, err)) + (IF calls'[k].err = err THEN 1 ELSE 0)
    BY <2>2, <2>3, <2>4, RecordsCounts
  <2>6. \A err : Erred(Q, err)' = IF calls'[k].err = err THEN Erred(R, err) \cup {k} ELSE Erred(R, err)
    <3> TAKE err
    <3>1. Erred(Q, err)' = Erred(R, err)' \cup {i \in {k} : calls'[i].err = err}
      BY DEF Erred
    <3> QED BY <1>5, <3>1
  <2>7. \A err : IsFiniteSet(Erred(R, err)) /\ k \notin Erred(R, err) /\ Cardinality(Erred(R, err)) \in Nat
    <3> TAKE err
    <3>1. IsFiniteSet(Erred(R, err))
      BY <1>1, FS_Subset DEF Erred
    <3> QED BY <2>1, <3>1, FS_CardinalityType DEF Erred
  <2>8. ASSUME NEW err \in {"tool", "protocol"} PROVE Total(err)' = Cardinality(Erred(Q, err)')
    <3>1. Cardinality(Units(series, err)) = Cardinality(Erred(R, err))
      BY <1>3 DEF EndsRecorded, Total
    <3>2. Cardinality(Erred(R, err) \cup {k}) = Cardinality(Erred(R, err)) + 1
      BY <2>7, FS_AddElement
    <3>3. Total(err)' = Cardinality(Units(series', err))
      BY DEF Total, Units
    <3>4. Cardinality(Units(series', err)) = Cardinality(Erred(R, err)) + (IF calls'[k].err = err THEN 1 ELSE 0)
      BY <2>5, <3>1
    <3>5. CASE calls'[k].err = err
      <4>1. Erred(Q, err)' = Erred(R, err) \cup {k}
        BY <2>6, <3>5
      <4> HIDE DEF Q
      <4> QED BY <3>2, <3>3, <3>4, <3>5, <4>1
    <3>6. CASE calls'[k].err # err
      <4>1. Erred(Q, err)' = Erred(R, err)
        BY <2>6, <3>6
      <4> HIDE DEF Q
      <4> QED BY <2>7, <3>3, <3>4, <3>6, <4>1
    <3> QED BY <3>5, <3>6
  <2>9. Q \subseteq Counted' \ DOMAIN operations' /\ \A i \in Q : ~Unmarked(calls'[i])
    BY <1>1, <1>3, <1>4, <2>1, <2>2 DEF EndsRecorded
  <2>10. \A i \in Counted' \ (Q \cup DOMAIN operations') : Overtaken(i)' \/ Unanswered(i)'
    BY <1>1, <1>6, <2>1
  <2> HIDE DEF Q
  <2>11. EndsRecorded(Q)'
    BY <2>8, <2>9, <2>10 DEF EndsRecorded
  <2> QED BY <2>9, <2>11 DEF Recorded
<1> QED BY <1>7, <1>8, <1>9 DEF OtherStep

(* A label depends on which labels there are only. *)
LEMMA SameLabels ==
  ASSUME NEW before, NEW after, DOMAIN after = DOMAIN before, NEW label
  PROVE  SeriesFor(after, label) = SeriesFor(before, label)
BY DEF SeriesFor

(* What is held and counted is finite. *)
LEMMA HeldIsFinite ==
  ASSUME Kept, HeldById
  PROVE  /\ DOMAIN operations \subseteq Counted /\ IsFiniteSet(Counted) /\ IsFiniteSet(DOMAIN operations)
         /\ Tallies(series) /\ \A t \in DOMAIN series : series[t] \in [Counters -> Nat]
         /\ \A t : IsFiniteSet(On(t)) /\ Cardinality(On(t)) \in Nat
<1>1. DOMAIN operations \subseteq Counted /\ Counted \subseteq 1 .. Len(calls) /\ Len(calls) \in Nat
  BY DEF HeldById, Counted, Kept
<1>2. IsFiniteSet(Counted)
  <2>1. IsFiniteSet(1 .. Len(calls))
    BY <1>1, FS_Interval
  <2> QED BY <1>1, <2>1, FS_Subset
<1>3. IsFiniteSet(DOMAIN operations)
  BY <1>1, <1>2, FS_Subset
<1>4. \A t : IsFiniteSet(On(t)) /\ Cardinality(On(t)) \in Nat
  <2> TAKE t
  <2>1. IsFiniteSet(On(t))
    BY <1>3, FS_Subset DEF On
  <2> QED BY <2>1, FS_CardinalityType
<1> QED BY <1>1, <1>2, <1>3, <1>4 DEF Kept, Tallies

(* Letting go of calls leaves the others under their labels. *)
LEMMA LabelsKept ==
  ASSUME NEW X, LetsGoOf(X), DOMAIN series' = DOMAIN series
  PROVE  /\ \A i \in DOMAIN operations' : LabelOf(i)' = LabelOf(i) /\ i \in DOMAIN operations
         /\ \A t : On(t)' = On(t) \ X
<1>1. ASSUME NEW i \in DOMAIN operations' PROVE LabelOf(i)' = LabelOf(i) /\ i \in DOMAIN operations
  <2>1. i \in DOMAIN operations /\ operations'[i].tool = operations[i].tool
    BY DEF LetsGoOf
  <2>2. SeriesFor(series', operations[i].tool) = SeriesFor(series, operations[i].tool)
    BY SameLabels
  <2> QED BY <2>1, <2>2 DEF LabelOf
<1>2. DOMAIN operations' = DOMAIN operations \ X
  BY DEF LetsGoOf
<1> QED BY <1>1, <1>2 DEF On

LEMMA LabelsLessened ==
  ASSUME Kept, HeldById, Labelled, NEW X, LetsGoOf(X), series' = series, Counted' = Counted
  PROVE  Labelled'
<1>1. /\ \A i \in DOMAIN operations' : LabelOf(i)' = LabelOf(i) /\ i \in DOMAIN operations
      /\ \A t : On(t)' = On(t) \ X
  BY LabelsKept
<1>2. /\ \A t \in DOMAIN series : series[t] \in [Counters -> Nat]
      /\ \A t : IsFiniteSet(On(t)) /\ Cardinality(On(t)) \in Nat
  BY HeldIsFinite
<1>3. \A t : Cardinality(On(t) \ X) <= Cardinality(On(t)) /\ Cardinality(On(t) \ X) \in Nat
  <2> TAKE t
  <2>1. On(t) \ X \in SUBSET On(t)
    OBVIOUS
  <2>2. IsFiniteSet(On(t) \ X) /\ Cardinality(On(t) \ X) <= Cardinality(On(t))
    BY <1>2, <2>1, FS_Subset
  <2> QED BY <2>2, FS_CardinalityType
<1>4. Total("calls")' = Cardinality(Counted')
  BY DEF Labelled, Total, Units
<1>5. \A i \in DOMAIN operations' : LabelOf(i)' \in DOMAIN series'
  BY <1>1 DEF Labelled
<1>6. ASSUME NEW t \in DOMAIN series'
      PROVE  /\ series'[t].tool + series'[t].protocol <= series'[t].count
             /\ series'[t].count + Cardinality(On(t)') <= series'[t].calls
  <2>1. /\ t \in DOMAIN series /\ series[t].tool + series[t].protocol <= series[t].count
        /\ series[t].count + Cardinality(On(t)) <= series[t].calls
    BY <1>6 DEF Labelled
  <2>2. series[t].count \in Nat /\ series[t].calls \in Nat
    BY <1>2, <2>1 DEF Counters
  <2>3. series[t].count + Cardinality(On(t) \ X) <= series[t].calls
    BY <1>2, <1>3, <2>1, <2>2
  <2> QED BY <1>1, <2>1, <2>3
<1> QED BY <1>4, <1>5, <1>6 DEF Labelled

(* An end is counted under a label that has one call more than ends and held calls. *)
LEMMA OtherKeepsLabelled ==
  ASSUME Kept, HeldById, HeldOpen, Labelled, NEW k, NEW kind, OtherStep(k, kind)
  PROVE  Labelled' /\ Tallies(series')
<1>1. /\ Counted' = Counted /\ Counted \subseteq DOMAIN calls
      /\ \A i \in DOMAIN calls : calls'[i] \in Call
  BY SameCalls DEF OtherStep
<1>2. /\ DOMAIN operations \subseteq Counted
      /\ Tallies(series) /\ \A t \in DOMAIN series : series[t] \in [Counters -> Nat]
      /\ \A t : IsFiniteSet(On(t)) /\ Cardinality(On(t)) \in Nat
  BY HeldIsFinite
<1>3. CASE Ignored(k)
  BY <1>1, <1>2, <1>3, LabelsLessened DEF Ignored
<1>4. CASE Awaits(k)
  BY <1>1, <1>2, <1>4, LabelsLessened DEF Awaits
<1>5. CASE Finishes(k)
  <2> DEFINE l == LabelOf(k)
  <2>1. k \in DOMAIN operations /\ k \in DOMAIN calls /\ LetsGoOf({k}) /\ l \in DOMAIN series
    BY <1>1, <1>2, <1>5 DEF Finishes, Labelled
  <2>2. ~Unmarked(calls'[k]) /\ calls'[k] \in Call
    <3>1. calls'[k].state # "superseded"
      BY <2>1 DEF OtherStep, OtherFrame, MovesOn, HeldOpen
    <3> QED BY <1>1, <1>5, <2>1, <3>1 DEF Finishes, Unmarked, Done
  <2>3. series' = Records(series, calls'[k], l)
    BY <1>5 DEF Finishes
  <2> HIDE DEF l
  <2>4. /\ Tallies(series') /\ DOMAIN series' = DOMAIN series
        /\ Units(series', "calls") = Units(series, "calls")
        /\ \A t \in DOMAIN series \ {l} : series'[t] = series[t]
        /\ series'[l].calls = series[l].calls
        /\ series'[l].count <= series[l].count + 1
        /\ series[l].tool + series[l].protocol <= series[l].count
             => series'[l].tool + series'[l].protocol <= series'[l].count
    BY <1>2, <2>1, <2>2, <2>3, RecordsCounts
  <2>5. /\ \A i \in DOMAIN operations' : LabelOf(i)' = LabelOf(i) /\ i \in DOMAIN operations
        /\ \A t : On(t)' = On(t) \ {k}
    BY <2>1, <2>4, LabelsKept
  <2>6. k \in On(l) /\ \A t : t # l => k \notin On(t)
    BY <2>1 DEF l, On
  <2>7. Total("calls")' = Cardinality(Counted')
    BY <1>1, <2>4 DEF Labelled, Total
  <2>8. \A i \in DOMAIN operations' : LabelOf(i)' \in DOMAIN series'
    BY <2>4, <2>5 DEF Labelled
  <2>9. ASSUME NEW t \in DOMAIN series'
        PROVE  /\ series'[t].tool + series'[t].protocol <= series'[t].count
               /\ series'[t].count + Cardinality(On(t)') <= series'[t].calls
    <3>1. /\ t \in DOMAIN series /\ series[t].tool + series[t].protocol <= series[t].count
          /\ series[t].count + Cardinality(On(t)) <= series[t].calls
      BY <2>4, <2>9 DEF Labelled
    <3>2. /\ series[t].count \in Nat /\ series[t].calls \in Nat
          /\ series'[t].count \in Nat /\ series'[t].calls \in Nat
      <4>1. series'[t] \in [Counters -> Nat]
        BY <2>4, <2>9 DEF Tallies
      <4> QED BY <1>2, <3>1, <4>1 DEF Counters
    <3>3. Cardinality(On(t) \ {k}) = IF t = l THEN Cardinality(On(t)) - 1 ELSE Cardinality(On(t))
      <4>1. IsFiniteSet(On(t)) /\ (k \in On(t) <=> t = l)
        BY <1>2, <2>6
      <4> QED BY <4>1, FS_RemoveElement
    <3>4. On(t)' = On(t) \ {k}
      BY <2>5
    <3>5. CASE t # l
      BY <2>4, <3>1, <3>3, <3>4, <3>5
    <3>6. CASE t = l
      <4>1. Cardinality(On(l)) \in Nat /\ Cardinality(On(l) \ {k}) = Cardinality(On(l)) - 1
        BY <1>2, <3>3, <3>6
      <4>2. /\ series'[l].calls = series[l].calls /\ series'[l].count <= series[l].count + 1
            /\ series'[l].tool + series'[l].protocol <= series'[l].count
            /\ series[l].count + Cardinality(On(l)) <= series[l].calls
        BY <2>4, <3>1, <3>6
      <4>3. series'[l].count + Cardinality(On(l) \ {k}) <= series'[l].calls
        BY <3>2, <3>6, <4>1, <4>2
      <4> QED BY <3>4, <3>6, <4>2, <4>3
    <3> QED BY <3>5, <3>6
  <2> QED BY <2>4, <2>7, <2>8, <2>9 DEF Labelled
<1> QED BY <1>3, <1>4, <1>5 DEF OtherStep

-----------------------------------------------------------------------------
(* A request: it takes its id over from the call that held it, and is held itself if it calls a tool. *)
Taken(id) == IF id \in DOMAIN inflight THEN {inflight[id]} ELSE {}

TakesOverOnly(f) == LetsGoOf(Taken(f.id)) /\ (\A i \in DOMAIN operations' : operations'[i] = operations[i]) /\ series' = series
Counts(f, n) ==
  /\ n \notin DOMAIN operations
  /\ DOMAIN operations' = (DOMAIN operations \ Taken(f.id)) \cup {n}
  /\ \A i \in DOMAIN operations \ Taken(f.id) : operations'[i] = operations[i]
  /\ operations'[n] = [tool |-> f.name, id |-> f.id, cancelled |-> FALSE]
  /\ DOMAIN inflight' = DOMAIN inflight \cup {f.id} /\ inflight'[f.id] = n
  /\ \A id \in DOMAIN inflight \ {f.id} : inflight'[id] = inflight[id]
  /\ operations' \in [DOMAIN operations' -> [tool : Tools, id : Ids, cancelled : BOOLEAN]]
  /\ inflight' \in [DOMAIN inflight' -> Nat]
  /\ series' = Bump(series, SeriesFor(series, f.name), "calls")

IsPut(f, k, v, g) == DOMAIN g = DOMAIN f \cup {k} /\ g[k] = v /\ \A x \in DOMAIN f \ {k} : g[x] = f[x]

(* Put, element by element. *)
LEMMA PutIs == ASSUME NEW f, NEW k, NEW v PROVE IsPut(f, k, v, Put(f, k, v))
BY DEF Put, IsPut

LEMMA PutTyped ==
  ASSUME NEW S, NEW f, f \in [DOMAIN f -> S], NEW k, NEW v \in S
  PROVE  Put(f, k, v) \in [DOMAIN Put(f, k, v) -> S]
BY DEF Put

(* A request does no other (Observe, Begins). *)
LEMMA ObservesRequest ==
  ASSUME CountingInv, NEW f \in Frame, f.kind = "request", Stores(f), Observe(f), NEW n, n = Len(calls) + 1
  PROVE  /\ cancelledCalls' = cancelledCalls
         /\ IF f.name = NotATool THEN TakesOverOnly(f) ELSE Counts(f, n)
<1>1. Kept /\ HeldById /\ calls \in Seq(Call)
  BY DEF CountingInv, Kept
<1>2. calls' = Ingest(calls, f) /\ StoreCall(f) = EventCall(calls, f)
  BY DEF Stores, StoreCall, Unmatched
<1>3. /\ Max({EventCall(calls, f), EventTaskCall(f)}) = n /\ calls'[n] = Opened(f.id, f.name)
      /\ Len(calls) \in Nat /\ DOMAIN calls = 1 .. Len(calls) /\ f.id \in Ids
  <2>1. Opens(calls, calls', f)
    BY <1>1, <1>2, ObservedRequest
  <2> QED BY <2>1 DEF Opens
<1>4. n \in Nat /\ n \notin DOMAIN operations /\ \A i \in DOMAIN operations : i \in DOMAIN calls
  BY <1>1, <1>3 DEF HeldById, Counted
<1>5. /\ ~Done(calls'[n]) /\ calls'[n].id = f.id /\ calls'[n].name = f.name
      /\ IsTool(calls'[n]) <=> f.name # NotATool
  BY <1>3 DEF Opened, Done, IsTool
<1> DEFINE c == Begins(Collector, calls', n)
<1>6. series' = c.series /\ operations' = c.operations /\ inflight' = c.inflight /\ cancelledCalls' = c.cancelled
  BY <1>2, <1>3, <1>5 DEF Observe, Collector
<1> DEFINE held == f.id \in DOMAIN inflight
           left == IF held THEN Without(operations, inflight[f.id]) ELSE operations
           flying == IF held THEN Flying(operations, inflight[f.id]) ELSE inflight
           free == [series |-> series, operations |-> left, inflight |-> flying, cancelled |-> cancelledCalls]
           op == [tool |-> f.name, id |-> f.id, cancelled |-> FALSE]
<1>7. held => inflight[f.id] \in DOMAIN operations /\ operations[inflight[f.id]].id = f.id
  BY <1>1 DEF HeldById
<1>8. c = IF f.name = NotATool THEN free
          ELSE [free EXCEPT !.operations = Put(@, n, op), !.inflight = Put(@, f.id, n),
                            !.series = Bump(@, SeriesFor(@, f.name), "calls")]
  <2>1. CASE held
    <3>1. Finish(Collector, inflight[f.id]) = free
      BY <2>1, FinishIs DEF Collector, Flying
    <3> HIDE DEF free
    <3> QED BY <1>5, <1>7, <2>1, <3>1 DEF Begins, RequestKey, Collector
  <2>2. CASE ~held
    <3>1. Collector = free
      BY <2>2 DEF Collector
    <3>2. ~(f.id \in DOMAIN Collector.inflight)
      BY <2>2 DEF Collector
    <3> HIDE DEF free, held
    <3> QED BY <1>5, <3>1, <3>2 DEF Begins, RequestKey
  <2> QED BY <2>1, <2>2
<1> HIDE DEF c
<1>9. /\ DOMAIN left = DOMAIN operations \ Taken(f.id) /\ \A i \in DOMAIN left : left[i] = operations[i]
      /\ DOMAIN flying = {id \in DOMAIN inflight : inflight[id] \notin Taken(f.id)}
      /\ \A id \in DOMAIN flying : flying[id] = inflight[id]
      /\ left \in [DOMAIN left -> [tool : Tools, id : Ids, cancelled : BOOLEAN]]
      /\ flying \in [DOMAIN flying -> Nat]
  <2>1. operations \in [DOMAIN operations -> [tool : Tools, id : Ids, cancelled : BOOLEAN]] /\ inflight \in [DOMAIN inflight -> Nat]
    BY <1>1 DEF Kept
  <2>2. CASE held
    <3> DEFINE x == inflight[f.id]
    <3>1. left = Without(operations, x) /\ flying = Flying(operations, x) /\ x \in DOMAIN operations /\ Taken(f.id) = {x}
      BY <1>7, <2>2 DEF Taken
    <3> HIDE DEF x, left, flying
    <3>2. /\ DOMAIN left = DOMAIN operations \ {x} /\ \A i \in DOMAIN left : left[i] = operations[i]
          /\ DOMAIN flying = {id \in DOMAIN inflight : inflight[id] # x}
          /\ \A id \in DOMAIN flying : flying[id] = inflight[id]
          /\ left \in [DOMAIN left -> [tool : Tools, id : Ids, cancelled : BOOLEAN]]
          /\ flying \in [DOMAIN flying -> Nat]
      BY <1>1, <2>1, <3>1, FinishLetsGo
    <3> QED BY <3>1, <3>2
  <2>3. CASE ~held
    BY <2>1, <2>3 DEF Taken
  <2> QED BY <2>2, <2>3
<1> HIDE DEF left, flying
<1>10. CASE f.name = NotATool
  <2>1. series' = series /\ operations' = left /\ inflight' = flying /\ cancelledCalls' = cancelledCalls
    BY <1>6, <1>8, <1>10
  <2> QED BY <1>9, <1>10, <2>1 DEF TakesOverOnly, LetsGoOf
<1>11. CASE f.name # NotATool
  <2>1. c = [free EXCEPT !.operations = Put(left, n, op), !.inflight = Put(flying, f.id, n),
                         !.series = Bump(series, SeriesFor(series, f.name), "calls")]
    BY <1>8, <1>11
  <2>2. /\ series' = Bump(series, SeriesFor(series, f.name), "calls")
        /\ operations' = Put(left, n, op) /\ inflight' = Put(flying, f.id, n) /\ cancelledCalls' = cancelledCalls
    <3> HIDE DEF op
    <3> QED BY <1>6, <2>1
  <2>3. op \in [tool : Tools, id : Ids, cancelled : BOOLEAN]
    <3>1. f.name \in Tools
      BY <1>11 DEF Frame
    <3> QED BY <1>3, <3>1
  <2> HIDE DEF op
  <2>4. /\ DOMAIN operations' = DOMAIN left \cup {n} /\ operations'[n] = op
        /\ \A i \in DOMAIN left \ {n} : operations'[i] = left[i]
    <3>1. IsPut(left, n, op, operations')
      BY <2>2, PutIs
    <3> QED BY <3>1 DEF IsPut
  <2>5. /\ DOMAIN inflight' = DOMAIN flying \cup {f.id} /\ inflight'[f.id] = n
        /\ \A id \in DOMAIN flying \ {f.id} : inflight'[id] = flying[id]
    <3>1. IsPut(flying, f.id, n, inflight')
      BY <2>2, PutIs
    <3> QED BY <3>1 DEF IsPut
  <2>6. \A id \in DOMAIN inflight : inflight[id] \in Taken(f.id) <=> id = f.id
    BY <1>1, <1>7 DEF Taken, HeldById
  <2>7. operations' \in [DOMAIN operations' -> [tool : Tools, id : Ids, cancelled : BOOLEAN]]
    BY <1>9, <2>2, <2>3, PutTyped
  <2>8. inflight' \in [DOMAIN inflight' -> Nat]
    BY <1>4, <1>9, <2>2, PutTyped
  <2>9. DOMAIN inflight' = DOMAIN inflight \cup {f.id} /\ \A id \in DOMAIN inflight \ {f.id} : inflight'[id] = inflight[id]
    BY <1>9, <2>5, <2>6
  <2> QED BY <1>4, <1>9, <1>11, <2>2, <2>4, <2>5, <2>7, <2>8, <2>9 DEF Counts, op
<1> QED BY <1>10, <1>11

RequestFrame(f, n) ==
  /\ live /\ live' = live /\ history' = history
  /\ n = Len(calls) + 1 /\ Opens(calls, calls', f) /\ forgotten \subseteq forgotten'
RequestStep(f, n) ==
  RequestFrame(f, n) /\ cancelledCalls' = cancelledCalls /\ IF f.name = NotATool THEN TakesOverOnly(f) ELSE Counts(f, n)

(* What a request leaves of the calls before it. *)
CallsBefore(f, n) ==
  /\ n \in Nat /\ n \notin DOMAIN calls /\ DOMAIN calls' = DOMAIN calls \cup {n} /\ calls' \in Seq(Call)
  /\ Len(calls') = n /\ history < n /\ history <= Len(calls') /\ calls'[n] = Opened(f.id, f.name) /\ f.id \in Ids
  /\ \A i \in DOMAIN calls : calls[i] \in Call /\ i < n
  /\ \A i \in DOMAIN calls :
       /\ calls'[i].id = calls[i].id /\ calls'[i].name = calls[i].name /\ calls'[i].err = calls[i].err
       /\ calls'[i] = calls[i] \/ (calls[i].state = "pending" /\ calls[i].id = f.id /\ calls'[i].state = "superseded")

(* The calls before a request stay as they are but for the one it supersedes. *)
LEMMA RequestCalls ==
  ASSUME Kept, NEW f, NEW n, RequestFrame(f, n) PROVE CallsBefore(f, n)
<1>1. Opens(calls, calls', f) /\ n = Len(calls) + 1 /\ calls \in Seq(Call) /\ history \in Nat /\ history <= Len(calls)
  BY DEF RequestFrame, Kept
<1>2. /\ n \in Nat /\ DOMAIN calls = 1 .. Len(calls) /\ Len(calls) \in Nat /\ DOMAIN calls' = 1 .. n /\ Len(calls') = n
      /\ calls'[n] = Opened(f.id, f.name) /\ f.id \in Ids /\ calls' \in Seq(Call)
      /\ \A j \in DOMAIN calls :
           \/ calls'[j] = calls[j]
           \/ calls[j].state = "pending" /\ calls[j].id = f.id /\ calls'[j] = [calls[j] EXCEPT !.state = "superseded"]
  BY <1>1 DEF Opens
<1>3. \A i \in DOMAIN calls : calls[i] \in Call /\ i < n
  BY <1>1, <1>2
<1>4. ASSUME NEW i \in DOMAIN calls
      PROVE  /\ calls'[i].id = calls[i].id /\ calls'[i].name = calls[i].name /\ calls'[i].err = calls[i].err
             /\ calls'[i] = calls[i] \/ (calls[i].state = "pending" /\ calls[i].id = f.id /\ calls'[i].state = "superseded")
  <2>1. CASE calls'[i] = calls[i]
    BY <2>1
  <2>2. CASE calls[i].state = "pending" /\ calls[i].id = f.id /\ calls'[i] = [calls[i] EXCEPT !.state = "superseded"]
    BY <1>3, <2>2 DEF Call
  <2> QED BY <1>2, <2>1, <2>2
<1>5. DOMAIN calls' = DOMAIN calls \cup {n} /\ n \notin DOMAIN calls /\ history < n /\ history <= Len(calls')
  BY <1>1, <1>2
<1> QED BY <1>2, <1>3, <1>4, <1>5 DEF CallsBefore

(* It is counted if it calls a tool, the newest of its id, and overtakes the call that was held. *)
LEMMA RequestOvertakes ==
  ASSUME Kept, HeldById, NEW f, NEW n, RequestFrame(f, n)
  PROVE  /\ IsFiniteSet(Counted) /\ Counted \subseteq DOMAIN calls
         /\ Counted' = IF f.name = NotATool THEN Counted ELSE Counted \cup {n}
         /\ Newest(n)' /\ \A i \in DOMAIN calls : Newest(i) /\ calls[i].id # f.id => Newest(i)'
         /\ \A i \in DOMAIN operations \ Taken(f.id) : calls[i].id # f.id /\ calls'[i] = calls[i]
         /\ \A i \in Taken(f.id) : i \in DOMAIN operations /\ calls[i].id = f.id /\ Done(calls'[i])
         /\ \A i \in DOMAIN calls : Overtaken(i) => Overtaken(i)'
         /\ \A i \in DOMAIN calls : Unanswered(i) => Unanswered(i)'
<1>1. CallsBefore(f, n)
  BY RequestCalls
<1>2. IsFiniteSet(Counted) /\ Counted \subseteq DOMAIN calls /\ DOMAIN operations \subseteq DOMAIN calls
  BY HeldIsFinite DEF Counted
<1>3. Counted' = IF f.name = NotATool THEN Counted ELSE Counted \cup {n}
  BY <1>1 DEF CallsBefore, RequestFrame, Counted, IsTool, Opened
<1>4. Newest(n)' /\ \A i \in DOMAIN calls : Newest(i) /\ calls[i].id # f.id => Newest(i)'
  BY <1>1 DEF CallsBefore, Newest, Opened
<1>5. ASSUME NEW i \in DOMAIN operations \ Taken(f.id) PROVE calls[i].id # f.id /\ calls'[i] = calls[i]
  <2>1. calls[i].id # f.id
    BY DEF HeldById, Taken
  <2> QED BY <1>1, <1>2, <2>1 DEF CallsBefore
<1>6. ASSUME NEW i \in Taken(f.id) PROVE i \in DOMAIN operations /\ calls[i].id = f.id /\ Done(calls'[i])
  <2>1. i \in DOMAIN operations /\ calls[i].id = f.id /\ Newest(i)
    BY <1>6 DEF HeldById, Taken
  <2> QED BY <1>2, <2>1 DEF RequestFrame, Opens, Newest
<1>7. ASSUME NEW i \in DOMAIN calls, Overtaken(i) PROVE Overtaken(i)'
  <2>1. PICK j \in DOMAIN calls : j > i /\ calls[j].id = calls[i].id
    BY <1>7 DEF Overtaken
  <2>2. calls'[i] = calls[i]
    BY <1>1, <1>7 DEF CallsBefore, Overtaken, Done
  <2>3. j \in DOMAIN calls' /\ calls'[j].id = calls'[i].id
    BY <1>1, <2>1 DEF CallsBefore
  <2> QED BY <1>7, <2>1, <2>2, <2>3 DEF Overtaken
<1>8. \A i \in DOMAIN calls : Unanswered(i) => Unanswered(i)'
  BY <1>1 DEF CallsBefore, RequestFrame, Unanswered
<1> QED BY <1>2, <1>3, <1>4, <1>5, <1>6, <1>7, <1>8

(* The call of a request is held by its id, and the one it overtakes no more. *)
LEMMA RequestKeepsHeld ==
  ASSUME Kept, HeldById, NEW f, NEW n, RequestStep(f, n) PROVE HeldById'
<1>1. CallsBefore(f, n)
  BY RequestCalls DEF RequestStep
<1>2. /\ Counted \subseteq DOMAIN calls
      /\ Counted' = IF f.name = NotATool THEN Counted ELSE Counted \cup {n}
      /\ Newest(n)' /\ \A i \in DOMAIN calls : Newest(i) /\ calls[i].id # f.id => Newest(i)'
      /\ \A i \in DOMAIN operations \ Taken(f.id) : calls[i].id # f.id /\ calls'[i] = calls[i]
      /\ \A i \in Taken(f.id) : i \in DOMAIN operations /\ calls[i].id = f.id
  BY RequestOvertakes DEF RequestStep
<1>3. \A i \in DOMAIN operations :
        /\ i \in Counted /\ i \in DOMAIN calls /\ Newest(i)
        /\ operations[i].tool = calls[i].name /\ operations[i].id = calls[i].id
        /\ calls[i].id \in DOMAIN inflight /\ inflight[calls[i].id] = i
  BY <1>2 DEF HeldById
<1>4. \A id \in DOMAIN inflight : inflight[id] \in DOMAIN operations /\ calls[inflight[id]].id = id
  BY DEF HeldById
<1>5. CASE f.name = NotATool
  <2>1. /\ DOMAIN operations' = DOMAIN operations \ Taken(f.id) /\ \A i \in DOMAIN operations' : operations'[i] = operations[i]
        /\ DOMAIN inflight' = {id \in DOMAIN inflight : inflight[id] \notin Taken(f.id)}
        /\ \A id \in DOMAIN inflight' : inflight'[id] = inflight[id]
    BY <1>5 DEF RequestStep, TakesOverOnly, LetsGoOf
  <2>2. ASSUME NEW i \in DOMAIN operations'
        PROVE  /\ i \in Counted' /\ Newest(i)'
               /\ operations'[i].tool = calls'[i].name /\ operations'[i].id = calls'[i].id
               /\ calls'[i].id \in DOMAIN inflight' /\ inflight'[calls'[i].id] = i
    BY <1>2, <1>3, <1>5, <2>1
  <2>3. ASSUME NEW id \in DOMAIN inflight' PROVE inflight'[id] \in DOMAIN operations' /\ calls'[inflight'[id]].id = id
    BY <1>2, <1>4, <2>1
  <2> QED BY <2>2, <2>3 DEF HeldById
<1>6. CASE f.name # NotATool
  <2>1. /\ DOMAIN operations' = (DOMAIN operations \ Taken(f.id)) \cup {n}
        /\ \A i \in DOMAIN operations \ Taken(f.id) : operations'[i] = operations[i]
        /\ operations'[n].tool = f.name /\ operations'[n].id = f.id
        /\ DOMAIN inflight' = DOMAIN inflight \cup {f.id} /\ inflight'[f.id] = n
        /\ \A id \in DOMAIN inflight \ {f.id} : inflight'[id] = inflight[id]
    BY <1>6 DEF RequestStep, Counts
  <2>2. calls'[n].id = f.id /\ calls'[n].name = f.name
    BY <1>1 DEF CallsBefore, Opened
  <2>3. ASSUME NEW i \in DOMAIN operations'
        PROVE  /\ i \in Counted' /\ Newest(i)'
               /\ operations'[i].tool = calls'[i].name /\ operations'[i].id = calls'[i].id
               /\ calls'[i].id \in DOMAIN inflight' /\ inflight'[calls'[i].id] = i
    BY <1>2, <1>3, <1>6, <2>1, <2>2
  <2>4. ASSUME NEW id \in DOMAIN inflight' PROVE inflight'[id] \in DOMAIN operations' /\ calls'[inflight'[id]].id = id
    <3>1. CASE id = f.id
      BY <2>1, <2>2, <3>1
    <3>2. CASE id # f.id
      BY <1>2, <1>4, <2>1, <3>2
    <3> QED BY <3>1, <3>2
  <2> QED BY <2>3, <2>4 DEF HeldById
<1> QED BY <1>5, <1>6

(* It is open, and what was remembered stays so. *)
LEMMA RequestKeepsOpen ==
  ASSUME Kept, HeldById, HeldOpen, LateOnes, NEW f, NEW n, RequestStep(f, n)
  PROVE  HeldOpen' /\ LateOnes'
<1>1. CallsBefore(f, n)
  BY RequestCalls DEF RequestStep
<1>2. /\ Counted \subseteq DOMAIN calls
      /\ Counted' = IF f.name = NotATool THEN Counted ELSE Counted \cup {n}
      /\ \A i \in DOMAIN operations \ Taken(f.id) : calls'[i] = calls[i]
  BY RequestOvertakes DEF RequestStep
<1>3. cancelledCalls' = cancelledCalls
  BY DEF RequestStep
<1>4. HeldOpen'
  <2> SUFFICES ASSUME NEW i \in DOMAIN operations'
               PROVE  \/ calls'[i].state = "pending" /\ ~operations'[i].cancelled
                      \/ /\ calls'[i].state = "cancelled" /\ ~calls'[i].late /\ operations'[i].cancelled
                         /\ \E k \in DOMAIN cancelledCalls : cancelledCalls[k] = i
    BY <1>3 DEF HeldOpen
  <2>1. CASE i \in DOMAIN operations \ Taken(f.id)
    <3>1. operations'[i] = operations[i] /\ calls'[i] = calls[i]
      BY <1>2, <2>1 DEF RequestStep, TakesOverOnly, LetsGoOf, Counts
    <3> QED BY <2>1, <3>1 DEF HeldOpen
  <2>2. CASE i = n /\ f.name # NotATool
    BY <1>1, <2>2 DEF CallsBefore, Opened, RequestStep, Counts
  <2> QED BY <2>1, <2>2 DEF RequestStep, TakesOverOnly, LetsGoOf, Counts
<1>5. LateOnes'
  <2>1. \A k \in DOMAIN cancelledCalls : cancelledCalls[k] \in Counted' /\ calls'[cancelledCalls[k]].state = "cancelled"
    BY <1>1, <1>2 DEF LateOnes, CallsBefore
  <2> QED BY <1>3, <2>1 DEF LateOnes
<1> QED BY <1>4, <1>5

(* The call it overtakes has no error, and is recorded by nobody. *)
LEMMA RequestKeepsRecorded ==
  ASSUME Kept, HeldById, HeldOpen, Recorded, ErrsMarked, NEW f, NEW n, RequestStep(f, n)
  PROVE  Recorded'
<1>1. CallsBefore(f, n)
  BY RequestCalls DEF RequestStep
<1>2. /\ IsFiniteSet(Counted) /\ Counted \subseteq DOMAIN calls
      /\ Counted' = IF f.name = NotATool THEN Counted ELSE Counted \cup {n}
      /\ \A i \in Taken(f.id) : i \in DOMAIN operations /\ calls[i].id = f.id /\ Done(calls'[i])
      /\ \A i \in DOMAIN calls : Overtaken(i) => Overtaken(i)'
  BY RequestOvertakes DEF RequestStep
<1>3. PICK R \in SUBSET Counted : EndsRecorded(R)
  BY DEF Recorded
<1>4. \A i \in R : calls'[i] = calls[i] /\ ~Unmarked(calls'[i])
  BY <1>1, <1>2, <1>3 DEF EndsRecorded, Unmarked, CallsBefore
<1>5. \A err : Erred(R, err)' = Erred(R, err)
  BY <1>4 DEF Erred
<1>6. \A err \in {"tool", "protocol"} : Units(series', err) = Units(series, err)
  <2>1. CASE f.name = NotATool
    BY <2>1 DEF RequestStep, TakesOverOnly
  <2>2. CASE f.name # NotATool
    <3>1. series' = Bump(series, SeriesFor(series, f.name), "calls")
      BY <2>2 DEF RequestStep, Counts
    <3>2. Tallies(series) /\ Counters = {"calls", "tool", "protocol", "count"}
      BY DEF Kept, Counters
    <3>3. OneMore(series, SeriesFor(series, f.name), "calls", series')
      BY <3>1, <3>2, BumpAdds
    <3> QED BY <3>2, <3>3 DEF OneMore
  <2> QED BY <2>1, <2>2
<1>7. \A err \in {"tool", "protocol"} : Total(err)' = Cardinality(Erred(R, err)')
  BY <1>3, <1>5, <1>6 DEF EndsRecorded, Total
<1>8. \A i \in DOMAIN calls : Unanswered(i) => Unanswered(i)'
  BY RequestOvertakes DEF RequestStep
<1>9. ASSUME NEW i \in Taken(f.id) PROVE Overtaken(i)'
  <2>1. i \in DOMAIN operations /\ i \in DOMAIN calls /\ calls[i].id = f.id /\ Done(calls'[i])
    BY <1>2, <1>9 DEF HeldById
  <2>2. calls[i].err = Nothing
    BY <2>1 DEF HeldOpen, ErrsMarked, Unmarked
  <2>3. n \in DOMAIN calls' /\ n > i /\ calls'[n].id = calls'[i].id /\ calls'[i].err = Nothing
    <3>1. i < n /\ n \in Nat /\ i \in Nat
      BY <1>1, <2>1 DEF CallsBefore, Kept
    <3> QED BY <1>1, <2>1, <2>2, <3>1 DEF CallsBefore, Opened
  <2> QED BY <2>1, <2>3 DEF Overtaken
<1>10. /\ \A i \in DOMAIN operations \ DOMAIN operations' : i \in Taken(f.id)
       /\ \A i \in R : i \notin DOMAIN operations'
       /\ f.name # NotATool => n \in DOMAIN operations'
  <2>1. \A i \in R : i \notin DOMAIN operations /\ i # n
    BY <1>1, <1>2, <1>3 DEF EndsRecorded, CallsBefore
  <2> QED BY <2>1 DEF RequestStep, TakesOverOnly, LetsGoOf, Counts
<1>11. ASSUME NEW i \in Counted' \ (R \cup DOMAIN operations') PROVE Overtaken(i)' \/ Unanswered(i)'
  <2>1. i \in Counted /\ i \in DOMAIN calls
    BY <1>2, <1>10
  <2>2. CASE i \in DOMAIN operations
    BY <1>9, <1>10, <2>2
  <2>3. CASE i \notin DOMAIN operations
    BY <1>2, <1>3, <1>8, <2>1, <2>3 DEF EndsRecorded
  <2> QED BY <2>2, <2>3
<1>12. R \in SUBSET Counted'
  BY <1>2
<1>13. EndsRecorded(R)'
  BY <1>4, <1>7, <1>10, <1>11, <1>12 DEF EndsRecorded
<1> QED BY <1>12, <1>13 DEF Recorded

(* A new label leaves those the held calls are counted under. *)
LEMMA LabelsStay ==
  ASSUME NEW before, NEW after, NEW name, IsFiniteSet(DOMAIN before),
         DOMAIN after = DOMAIN before \cup {SeriesFor(before, name)}
  PROVE  /\ SeriesFor(after, name) = SeriesFor(before, name)
         /\ \A tool : SeriesFor(before, tool) \in DOMAIN before => SeriesFor(after, tool) = SeriesFor(before, tool)
<1> DEFINE full(counters) == ~(Cardinality(DOMAIN counters) < MaxSeries)
<1>1. /\ Cardinality(DOMAIN before) \in Nat /\ Cardinality(DOMAIN after) \in Nat
      /\ Cardinality(DOMAIN before) <= Cardinality(DOMAIN after)
  <2>1. IsFiniteSet(DOMAIN after) /\ DOMAIN before \subseteq DOMAIN after
    BY FS_AddElement
  <2> QED BY <2>1, FS_Subset, FS_CardinalityType
<1>2. full(before) => full(after)
  BY <1>1, MetricsAssumption
<1> HIDE DEF full
<1>3. \A counters, tool : SeriesFor(counters, tool) =
        IF tool \in DOMAIN counters \/ ~full(counters) THEN tool ELSE OverflowTool
  BY DEF SeriesFor, full
<1>4. SeriesFor(after, name) = SeriesFor(before, name)
  <2>1. CASE name \in DOMAIN before \/ ~full(before)
    BY <1>3, <2>1
  <2>2. CASE name \notin DOMAIN before /\ full(before)
    BY <1>2, <1>3, <2>2
  <2> QED BY <2>1, <2>2
<1>5. ASSUME NEW tool, SeriesFor(before, tool) \in DOMAIN before PROVE SeriesFor(after, tool) = SeriesFor(before, tool)
  <2>1. CASE tool \in DOMAIN before
    BY <1>3, <2>1
  <2>2. CASE tool \notin DOMAIN before
    <3>1. full(before) /\ SeriesFor(before, tool) = OverflowTool /\ OverflowTool \in DOMAIN before
      BY <1>3, <1>5, <2>2
    <3>2. DOMAIN after = DOMAIN before
      BY <1>3, <3>1
    <3> QED BY <1>2, <1>3, <2>2, <3>1, <3>2
  <2> QED BY <2>1, <2>2
<1> QED BY <1>4, <1>5

(* It is one more call under its label, and one more that is held. *)
LEMMA RequestKeepsLabelled ==
  ASSUME Kept, HeldById, Labelled, NEW f, NEW n, RequestStep(f, n)
  PROVE  Labelled' /\ Tallies(series')
<1>1. CallsBefore(f, n)
  BY RequestCalls DEF RequestStep
<1>2. /\ IsFiniteSet(Counted) /\ Counted \subseteq DOMAIN calls /\ DOMAIN operations \subseteq DOMAIN calls
      /\ Counted' = IF f.name = NotATool THEN Counted ELSE Counted \cup {n}
  BY RequestOvertakes, HeldIsFinite DEF RequestStep
<1>3. CASE f.name = NotATool
  <2>1. LetsGoOf(Taken(f.id)) /\ series' = series
    BY <1>3 DEF RequestStep, TakesOverOnly
  <2> QED BY <1>2, <1>3, <2>1, LabelsLessened DEF Kept
<1>4. CASE f.name # NotATool
  <2>0. PICK l : l = SeriesFor(series, f.name)
    OBVIOUS
  <2>1. /\ DOMAIN operations' = (DOMAIN operations \ Taken(f.id)) \cup {n} /\ n \notin DOMAIN operations
        /\ \A i \in DOMAIN operations \ Taken(f.id) : operations'[i] = operations[i]
        /\ operations'[n].tool = f.name
        /\ series' = Bump(series, l, "calls")
    BY <1>4, <2>0 DEF RequestStep, Counts
  <2>2. Counters = {"calls", "tool", "protocol", "count"} /\ Tallies(series)
    BY DEF Counters, Kept
  <2>3. OneMore(series, l, "calls", series')
    BY <2>1, <2>2, BumpAdds
  <2>4. /\ Tallies(series') /\ DOMAIN series' = DOMAIN series \cup {l}
        /\ Cardinality(Units(series', "calls")) = Cardinality(Units(series, "calls")) + 1
        /\ \A t \in DOMAIN series \ {l} : series'[t] = series[t]
        /\ \A g \in Counters :
             series'[l][g] = (IF l \in DOMAIN series THEN series[l][g] ELSE 0) + (IF g = "calls" THEN 1 ELSE 0)
    BY <2>3 DEF OneMore
  <2>5. /\ \A t \in DOMAIN series : series[t] \in [Counters -> Nat]
        /\ \A t : IsFiniteSet(On(t)) /\ Cardinality(On(t)) \in Nat
    BY HeldIsFinite
  <2>6. /\ SeriesFor(series', f.name) = l
        /\ \A tool : SeriesFor(series, tool) \in DOMAIN series => SeriesFor(series', tool) = SeriesFor(series, tool)
    BY <2>0, <2>2, <2>4, LabelsStay DEF Tallies
  <2>7. LabelOf(n)' = l
    BY <2>1, <2>6 DEF LabelOf
  <2>8. \A i \in DOMAIN operations \ Taken(f.id) : LabelOf(i)' = LabelOf(i) /\ LabelOf(i) \in DOMAIN series
    <3> TAKE i \in DOMAIN operations \ Taken(f.id)
    <3>1. LabelOf(i) \in DOMAIN series /\ LabelOf(i) = SeriesFor(series, operations[i].tool)
      BY DEF Labelled, LabelOf
    <3>2. LabelOf(i)' = SeriesFor(series', operations[i].tool)
      BY <2>1 DEF LabelOf
    <3> QED BY <2>6, <3>1, <3>2
  <2>9. \A i \in DOMAIN operations' : LabelOf(i)' \in DOMAIN series'
    BY <2>1, <2>4, <2>7, <2>8
  <2>10. \A t : On(t)' = (On(t) \ Taken(f.id)) \cup (IF t = l THEN {n} ELSE {})
    <3> TAKE t
    <3> SUFFICES ASSUME NEW i PROVE i \in On(t)' <=> i \in (On(t) \ Taken(f.id)) \cup (IF t = l THEN {n} ELSE {})
      OBVIOUS
    <3> QED BY <2>1, <2>7, <2>8 DEF On
  <2>11. \A t : Cardinality(On(t) \ Taken(f.id)) <= Cardinality(On(t)) /\ IsFiniteSet(On(t) \ Taken(f.id))
                 /\ Cardinality(On(t) \ Taken(f.id)) \in Nat
    <3> TAKE t
    <3>1. On(t) \ Taken(f.id) \in SUBSET On(t)
      OBVIOUS
    <3>2. IsFiniteSet(On(t) \ Taken(f.id)) /\ Cardinality(On(t) \ Taken(f.id)) <= Cardinality(On(t))
      BY <2>5, <3>1, FS_Subset
    <3> QED BY <3>2, FS_CardinalityType
  <2>12. Total("calls")' = Cardinality(Counted')
    <3>1. n \notin Counted
      BY <1>1, <1>2 DEF CallsBefore
    <3>2. Cardinality(Counted \cup {n}) = Cardinality(Counted) + 1
      BY <1>2, <3>1, FS_AddElement
    <3> QED BY <1>2, <1>4, <2>4, <3>2 DEF Labelled, Total
  <2>13. ASSUME NEW t \in DOMAIN series'
         PROVE  /\ series'[t].tool + series'[t].protocol <= series'[t].count
                /\ series'[t].count + Cardinality(On(t)') <= series'[t].calls
    <3>1. CASE t # l
      <4>1. /\ t \in DOMAIN series /\ series'[t] = series[t] /\ On(t)' = On(t) \ Taken(f.id)
        BY <2>4, <2>10, <3>1
      <4>2. /\ series[t].tool + series[t].protocol <= series[t].count
            /\ series[t].count + Cardinality(On(t)) <= series[t].calls
            /\ series[t].count \in Nat /\ series[t].calls \in Nat
        BY <2>5, <4>1 DEF Labelled, Counters
      <4> QED BY <2>5, <2>11, <4>1, <4>2
    <3>2. CASE t = l
      <4> DEFINE rest == On(l) \ Taken(f.id)
      <4>1. On(l)' = rest \cup {n}
        BY <2>10
      <4>2. Cardinality(rest) \in Nat /\ Cardinality(rest) <= Cardinality(On(l)) /\ IsFiniteSet(rest) /\ n \notin rest
        BY <2>1, <2>11 DEF On
      <4> HIDE DEF rest
      <4>3. Cardinality(On(l)') = Cardinality(rest) + 1
        BY <4>1, <4>2, FS_AddElement
      <4>4. CASE l \in DOMAIN series
        <5>1. /\ series[l].tool + series[l].protocol <= series[l].count
              /\ series[l].count + Cardinality(On(l)) <= series[l].calls
              /\ \A g \in Counters : series[l][g] \in Nat
          BY <2>5, <4>4 DEF Labelled
        <5>2. \A g \in Counters : series'[l][g] = series[l][g] + (IF g = "calls" THEN 1 ELSE 0)
          BY <2>4, <4>4
        <5>3. /\ series'[l].calls = series[l].calls + 1 /\ series'[l].count = series[l].count
              /\ series'[l].tool = series[l].tool /\ series'[l].protocol = series[l].protocol
              /\ series[l].count \in Nat /\ series[l].calls \in Nat
          BY <2>2, <5>1, <5>2
        <5>4. series'[l].count + Cardinality(On(l)') <= series'[l].calls
          BY <2>5, <4>2, <4>3, <5>1, <5>3
        <5> QED BY <3>2, <5>1, <5>3, <5>4
      <4>5. CASE l \notin DOMAIN series
        <5>1. \A g \in Counters : series'[l][g] = 0 + (IF g = "calls" THEN 1 ELSE 0)
          BY <2>4, <4>5
        <5>2. series'[l].calls = 1 /\ series'[l].count = 0 /\ series'[l].tool = 0 /\ series'[l].protocol = 0
          BY <2>2, <5>1
        <5>3. On(l) = {}
          BY <4>5 DEF On, Labelled
        <5>4. Cardinality(rest) = 0
          BY <5>3, FS_EmptySet DEF rest
        <5> QED BY <3>2, <4>3, <5>2, <5>4
      <4> QED BY <4>4, <4>5
    <3> QED BY <3>1, <3>2
  <2> QED BY <2>4, <2>9, <2>12, <2>13 DEF Labelled
<1> QED BY <1>3, <1>4

(* A live frame. *)
LEMMA RequestStepKeeps ==
  ASSUME CountingInv, NEW f \in Frame, f.kind = "request", ObservesLive(f) PROVE CountingInv'
<1>0. Kept /\ ErrsMarked /\ HeldById /\ HeldOpen /\ LateOnes /\ Recorded /\ Labelled /\ calls \in Seq(Call)
  BY DEF CountingInv, Kept
<1>1. Stores(f) /\ Observe(f) /\ live /\ live' = live /\ history' = history
  BY DEF ObservesLive
<1>2. PICK n : n = Len(calls) + 1
  OBVIOUS
<1>3. calls' = Ingest(calls, f) /\ Opens(calls, calls', f) /\ forgotten \subseteq forgotten'
  <2>1. calls' = Ingest(calls, f) /\ forgotten \subseteq forgotten'
    BY <1>1 DEF Stores, Unmatched, Replaces
  <2> QED BY <1>0, <2>1, ObservedRequest
<1>4. cancelledCalls' = cancelledCalls /\ IF f.name = NotATool THEN TakesOverOnly(f) ELSE Counts(f, n)
  BY <1>1, <1>2, ObservesRequest
<1>5. RequestStep(f, n)
  BY <1>1, <1>2, <1>3, <1>4 DEF RequestStep, RequestFrame
<1>6. CallsBefore(f, n)
  BY <1>0, <1>5, RequestCalls DEF RequestStep
<1>7. HeldById' /\ HeldOpen' /\ LateOnes' /\ Recorded' /\ Labelled' /\ Tallies(series') /\ ErrsMarked'
  BY <1>0, <1>3, <1>5, RequestKeepsHeld, RequestKeepsOpen, RequestKeepsRecorded, RequestKeepsLabelled, IngestKeepsMarks
<1>8. /\ operations' \in [DOMAIN operations' -> [tool : Tools, id : Ids, cancelled : BOOLEAN]]
      /\ inflight' \in [DOMAIN inflight' -> Nat]
  BY <1>4 DEF TakesOverOnly, LetsGoOf, Counts
<1>9. Kept'
  BY <1>0, <1>1, <1>4, <1>6, <1>7, <1>8 DEF Kept, CallsBefore
<1>10. StartsEmpty'
  BY <1>1 DEF StartsEmpty
<1> QED BY <1>7, <1>9, <1>10 DEF CountingInv

LEMMA OtherStepKeeps ==
  ASSUME CountingInv, Remembers, Remembers', NEW f \in Frame, f.kind # "request", ~Unmatched(f), ObservesLive(f) PROVE CountingInv'
<1>0. Kept /\ ErrsMarked /\ HeldById /\ HeldOpen /\ LateOnes /\ Recorded /\ Labelled /\ calls \in Seq(Call)
  BY DEF CountingInv, Kept
<1>1. Stores(f) /\ Observe(f) /\ live /\ live' = live /\ history' = history
  BY DEF ObservesLive
<1>2. PICK k : k = About(calls, f)
  OBVIOUS
<1>3. OtherFrame(k, f.kind) /\ calls' = Ingest(calls, f)
  <2>1. calls' = Ingest(calls, f) /\ StoreCall(f) = EventCall(calls, f) /\ forgotten \subseteq forgotten'
    BY <1>1 DEF Stores, StoreCall, Replaces
  <2>2. Observed(calls, calls', f, k)
    BY <1>0, <1>2, <2>1, ObservedCall
  <2>3. ASSUME NEW j \in DOMAIN calls \cap forgotten PROVE calls'[j] = calls[j]
    <3>1. CASE j # k
      BY <2>2, <3>1 DEF Observed
    <3>2. CASE j = k
      <4>1. MovesOn(calls[k], calls'[k], f.kind) /\ f.kind # "response"
        BY <1>2, <2>2, <3>2 DEF Observed, Unmatched, About, Frame
      <4>2. calls[k].state \in {"done", "cancelled", "superseded"}
        <5>1. calls[k] \in Call /\ Done(calls[k])
          BY <1>0, <3>2 DEF Remembers
        <5> QED BY <5>1 DEF Call, Done
      <4> QED BY <3>2, <4>1, <4>2 DEF MovesOn
    <3> QED BY <3>1, <3>2
  <2>4. prompt' \in {0, k}
    <3>1. f.kind = "cancel" => EventCall(calls, f) \in {0, k}
      BY <1>2 DEF EventCall, About
    <3> QED BY <1>1, <2>1, <3>1 DEF Stores
  <2>5. /\ calls' \in Seq(Call) /\ DOMAIN calls' = DOMAIN calls
        /\ \A j \in DOMAIN calls : j # k => calls'[j] = calls[j]
        /\ k \in DOMAIN calls => MovesOn(calls[k], calls'[k], f.kind)
        /\ k \in DOMAIN calls /\ f.kind = "response" => \A j \in DOMAIN calls : j > k => calls[j].id # calls[k].id
    BY <2>2 DEF Observed
  <2> QED BY <1>1, <2>1, <2>3, <2>4, <2>5 DEF OtherFrame, Newest
<1>4. OtherStep(k, f.kind)
  BY <1>1, <1>2, <1>3, ObservesEnd DEF OtherStep
<1>5. PICK X : LetsGoOf(X)
  BY <1>4 DEF OtherStep, Ignored, Awaits, Finishes
<1>6. HeldById' /\ ErrsMarked'
  BY <1>0, <1>3, <1>5, OtherKeepsHeld, IngestKeepsMarks
<1>7. HeldOpen' /\ LateOnes' /\ cancelledCalls' \in Seq(Nat) /\ Recorded' /\ Labelled' /\ Tallies(series')
  BY <1>0, <1>4, OtherKeepsOpen, OtherKeepsRemembered, OtherKeepsRecorded, OtherKeepsLabelled
<1>8. Len(calls') = Len(calls)
  BY <1>0, <1>3, SameCalls
<1>9. Kept'
  BY <1>0, <1>1, <1>3, <1>5, <1>7, <1>8 DEF Kept, LetsGoOf, OtherFrame
<1>10. StartsEmpty'
  BY <1>1 DEF StartsEmpty
<1> QED BY <1>6, <1>7, <1>9, <1>10 DEF CountingInv

-----------------------------------------------------------------------------
(* What the store keeps of a call, and what it misses. *)

(* A frame takes the place of the last: e is the call it is about, if any. *)
LEMMA RemembersStep ==
  ASSUME Remembers, 0 \notin DOMAIN calls, NEW e \in {0} \cup DOMAIN calls', Replaces(e), DOMAIN calls \subseteq DOMAIN calls',
         \A i \in DOMAIN calls : Done(calls[i]) => Done(calls'[i]),
         \A i \in DOMAIN calls' : calls'[i].state = "pending" => ~calls'[i].late,
         \/ prompt' = 0
         \/ /\ prompt' = e /\ e \in DOMAIN calls /\ e # pointing
            /\ ~Done(calls[e]) /\ calls'[e].state = "cancelled" /\ ~calls'[e].late,
         \A i \in DOMAIN calls' : calls'[i].state = "cancelled" /\ ~calls'[i].late =>
           (i \in DOMAIN calls /\ calls[i].state = "cancelled" /\ ~calls[i].late) \/ i = prompt' \/ (i = pointing /\ i # 0)
  PROVE  Remembers'
<1>1. pointing' = e /\ forgotten' = forgotten \cup {j \in {pointing} : j # 0 /\ Done(calls'[j])}
  BY DEF Replaces
<1>2. /\ pointing \in {0} \cup DOMAIN calls /\ prompt \in {0, pointing}
      /\ forgotten \subseteq DOMAIN calls /\ \A i \in forgotten : Done(calls[i])
      /\ \A i \in DOMAIN calls : calls[i].state = "cancelled" /\ ~calls[i].late => i \in forgotten \/ i = prompt
  BY DEF Remembers
<1>3. forgotten' \subseteq DOMAIN calls' /\ \A i \in forgotten' : Done(calls'[i])
  BY <1>1, <1>2
<1>4. ASSUME NEW i \in DOMAIN calls', calls'[i].state = "cancelled", ~calls'[i].late PROVE i \in forgotten' \/ i = prompt'
  <2>1. CASE i = pointing /\ i # 0
    BY <1>1, <1>4, <2>1 DEF Done
  <2>2. CASE i \in DOMAIN calls /\ calls[i].state = "cancelled" /\ ~calls[i].late
    BY <1>1, <1>2, <2>1, <2>2
  <2> QED BY <1>4, <2>1, <2>2
<1>5. prompt' # 0 => prompt' \notin forgotten' /\ calls'[prompt'].state = "cancelled" /\ ~calls'[prompt'].late
  BY <1>1, <1>2
<1> QED BY <1>1, <1>3, <1>4, <1>5 DEF Remembers

(* The calls' ids tell which of them a frame is about. *)
LEMMA SameLatest ==
  ASSUME NEW one, NEW other, DOMAIN one = DOMAIN other, \A i \in DOMAIN one : one[i].id = other[i].id, NEW id
  PROVE  Latest(one, id) = Latest(other, id)
<1>1. {i \in DOMAIN one : one[i].id = id} = {i \in DOMAIN other : other[i].id = id}
  OBVIOUS
<1> QED BY <1>1 DEF Latest

(* A request, call by call. *)
LEMMA OpensExactly ==
  ASSUME NEW seen \in Seq(Call), NEW f \in Frame, f.kind = "request", NEW i \in DOMAIN seen
  PROVE  /\ Ingest(seen, f)[i] = IF i = Latest(seen, f.id) /\ ~Done(seen[i]) THEN [seen[i] EXCEPT !.state = "superseded"] ELSE seen[i]
         /\ Ingest(seen, f)[Len(seen) + 1] = Opened(f.id, f.name) /\ Len(Ingest(seen, f)) = Len(seen) + 1
         /\ Ingest(seen, f) \in Seq(Call)
<1> DEFINE k == Latest(seen, f.id)
           over == [seen[k] EXCEPT !.state = "superseded"]
           base == IF k # 0 /\ ~Done(seen[k]) THEN [seen EXCEPT ![k] = over] ELSE seen
<1>1. Ingest(seen, f) = Append(base, Opened(f.id, f.name)) /\ Ingest(seen, f) = OpenCall(seen, f)
  BY DEF Ingest, OpenCall
<1>2. DOMAIN seen = 1 .. Len(seen) /\ Len(seen) \in Nat /\ k \in Nat /\ (k = 0 \/ k \in DOMAIN seen)
  BY LatestIsLast
<1>3. k \in DOMAIN seen => over \in Call
  <2> HIDE DEF k
  <2>1. k \in DOMAIN seen => seen[k] \in Call
    OBVIOUS
  <2> QED BY <2>1 DEF Call
<1> HIDE DEF k, over
<1>4. base \in Seq(Call) /\ DOMAIN base = DOMAIN seen /\ Len(base) = Len(seen)
  <2>1. CASE k # 0 /\ ~Done(seen[k])
    <3>1. k \in DOMAIN seen /\ Moved(seen, [seen EXCEPT ![k] = over], k)
      BY <1>2, <1>3, <2>1, MoveOne
    <3>2. base = [seen EXCEPT ![k] = over]
      BY <2>1
    <3>3. base \in Seq(Call) /\ DOMAIN base = DOMAIN seen
      BY <3>1, <3>2 DEF Moved
    <3> QED BY <3>3, LenProperties
  <2>2. CASE ~(k # 0 /\ ~Done(seen[k]))
    BY <2>2
  <2> QED BY <2>1, <2>2
<1>5. base[i] = IF i = k /\ ~Done(seen[i]) THEN over ELSE seen[i]
  <2>1. CASE k # 0 /\ ~Done(seen[k])
    BY <2>1
  <2>2. CASE ~(k # 0 /\ ~Done(seen[k]))
    BY <1>2, <2>2
  <2> QED BY <2>1, <2>2
<1> HIDE DEF base
<1>6. Ingest(seen, f)[i] = base[i]
  <2>1. Opened(f.id, f.name) \in Call
    <3>1. Ingest(seen, f) \in Seq(Call) /\ Len(Ingest(seen, f)) = Len(seen) + 1
          /\ Ingest(seen, f)[Len(seen) + 1] = Opened(f.id, f.name)
      BY <1>1, OpenOne
    <3> QED BY <1>2, <3>1
  <2>2. i \in 1 .. Len(base)
    BY <1>2, <1>4
  <2>3. ASSUME NEW c \in Call PROVE Append(base, c)[i] = base[i]
    BY <1>4, <2>2, AppendProperties
  <2> QED BY <1>1, <2>1, <2>3
<1> QED BY <1>1, <1>5, <1>6, OpenOne DEF k, over

(* A frame about a call the store forgot: the wire's calls move on, the store's do not. *)
LEMMA UnmatchedKeeps ==
  ASSUME calls \in Seq(Call), Remembers, Apart, NEW f \in Frame, Stores(f), Unmatched(f)
  PROVE  Remembers' /\ Apart'
<1>0. PICK j : j = Latest(calls, f.id)
  OBVIOUS
<1>1. /\ heard \in Seq(Call) /\ DOMAIN heard = DOMAIN calls /\ missed \subseteq forgotten /\ \A i \in DOMAIN calls : Agrees(i)
      /\ \A i \in DOMAIN calls : heard[i].id = calls[i].id
  BY DEF Apart, Agrees
<1>2. Latest(heard, f.id) = j
  BY <1>0, <1>1, SameLatest
<1>3. /\ f.kind = "response" /\ f.result \in Results /\ j \in forgotten /\ j \in DOMAIN calls /\ Done(calls[j]) /\ j # prompt
      /\ 0 \notin DOMAIN calls
  BY <1>0 DEF Unmatched, Frame, Remembers
<1>4. /\ heard' = Ingest(heard, f) /\ calls' = calls /\ Replaces(0) /\ prompt' = 0
      /\ missed' = missed \cup (LateAnswers(f) \ {prompt})
  BY <1>3 DEF Stores, StoreCall
<1>5. Moved(heard, heard', j) /\ heard'[j] = AnswerCall(heard[j], f.result)
  BY <1>1, <1>2, <1>3, <1>4, IngestMoves
<1>6. LateAnswers(f) = IF heard[j].state = "cancelled" /\ ~heard[j].late THEN {j} ELSE {}
  BY <1>1, <1>2, <1>3 DEF LateAnswers
<1>7. Remembers'
  BY <1>3, <1>4, RemembersStep DEF Remembers
<1>8. missed' \subseteq forgotten'
  BY <1>1, <1>3, <1>4, <1>6 DEF Replaces
<1>9. ASSUME NEW i \in DOMAIN calls, i # j PROVE Agrees(i)'
  BY <1>1, <1>4, <1>5, <1>6, <1>9 DEF Agrees, Moved
<1>10. Agrees(j)'
  <2>0. heard[j] \in Call /\ calls[j] \in Call
    BY <1>1, <1>3
  <2>1. CASE heard[j].state = "cancelled" /\ ~heard[j].late
    <3>1. j \notin missed /\ heard[j] = calls[j] /\ j \in missed'
      BY <1>1, <1>3, <1>4, <1>6, <2>1 DEF Agrees
    <3>2. heard'[j] = [heard[j] EXCEPT !.late = TRUE, !.err = ErrOf(f.result)]
      BY <1>5, <2>1 DEF AnswerCall
    <3>3. heard'[j].id = heard[j].id /\ heard'[j].state = "cancelled" /\ heard'[j].late
      BY <2>0, <2>1, <3>2 DEF Call
    <3> QED BY <1>4, <2>1, <3>1, <3>3 DEF Agrees
  <2>2. CASE ~(heard[j].state = "cancelled" /\ ~heard[j].late)
    <3>1. Done(heard[j])
      BY <1>1, <1>3 DEF Agrees, Done
    <3>2. heard'[j] = heard[j]
      BY <1>5, <2>2, <3>1 DEF AnswerCall, Done
    <3> QED BY <1>1, <1>3, <1>4, <1>6, <2>2, <3>2 DEF Agrees
  <2> QED BY <2>1, <2>2
<1>11. heard' \in Seq(Call) /\ DOMAIN heard' = DOMAIN calls'
  BY <1>1, <1>4, <1>5 DEF Moved
<1> QED BY <1>4, <1>7, <1>8, <1>9, <1>10, <1>11 DEF Apart

(* A request both know. *)
LEMMA RequestKeepsApart ==
  ASSUME calls \in Seq(Call), Remembers, Apart, NEW f \in Frame, f.kind = "request", Stores(f)
  PROVE  Remembers' /\ Apart'
<1> DEFINE n == Len(calls)
<1>1. /\ heard \in Seq(Call) /\ DOMAIN heard = DOMAIN calls /\ missed \subseteq forgotten /\ \A i \in DOMAIN calls : Agrees(i)
      /\ \A i \in DOMAIN calls : heard[i].id = calls[i].id
  BY DEF Apart, Agrees
<1>2. Latest(heard, f.id) = Latest(calls, f.id)
  BY <1>1, SameLatest
<1>3. /\ heard' = Ingest(heard, f) /\ calls' = Ingest(calls, f) /\ Replaces(n + 1) /\ prompt' = 0 /\ missed' = missed
  BY DEF Stores, StoreCall, Unmatched, EventCall, LateAnswers
<1>4. n \in Nat /\ DOMAIN calls = 1 .. n /\ Len(heard) = n
  BY <1>1, LenProperties
<1>5. /\ calls' \in Seq(Call) /\ DOMAIN calls' = 1 .. n + 1 /\ calls'[n + 1] = Opened(f.id, f.name)
      /\ heard' \in Seq(Call) /\ DOMAIN heard' = 1 .. n + 1 /\ heard'[n + 1] = Opened(f.id, f.name)
  <2>1. \A seen \in Seq(Call) : /\ Ingest(seen, f) \in Seq(Call) /\ Len(Ingest(seen, f)) = Len(seen) + 1
                                /\ Ingest(seen, f)[Len(seen) + 1] = Opened(f.id, f.name)
    <3>1. \A seen : Ingest(seen, f) = OpenCall(seen, f)
      BY DEF Ingest
    <3> QED BY <3>1, OpenOne
  <2> QED BY <1>1, <1>3, <1>4, <2>1, LenProperties
<1>6. \A i \in DOMAIN calls :
        /\ calls'[i] = IF i = Latest(calls, f.id) /\ ~Done(calls[i]) THEN [calls[i] EXCEPT !.state = "superseded"] ELSE calls[i]
        /\ heard'[i] = IF i = Latest(calls, f.id) /\ ~Done(heard[i]) THEN [heard[i] EXCEPT !.state = "superseded"] ELSE heard[i]
  BY <1>1, <1>2, <1>3, OpensExactly
<1>7. \A i \in DOMAIN calls : \/ calls'[i] = calls[i]
                              \/ calls[i].state = "pending" /\ calls'[i].state = "superseded"
  <2> TAKE i \in DOMAIN calls
  <2>1. calls[i] \in Call
    OBVIOUS
  <2> QED BY <1>6, <2>1 DEF Call, Done
<1>8. calls'[n + 1].state = "pending" /\ ~calls'[n + 1].late
  BY <1>5 DEF Opened
<1> HIDE DEF n
<1>9. Remembers'
  <2>1. 0 \notin DOMAIN calls /\ DOMAIN calls \subseteq DOMAIN calls' /\ n + 1 \in {0} \cup DOMAIN calls'
        /\ \A i \in DOMAIN calls' : i = n + 1 \/ i \in DOMAIN calls
    BY <1>4, <1>5
  <2>2. \A i \in DOMAIN calls : Done(calls[i]) => Done(calls'[i])
    BY <1>7 DEF Done
  <2>3. \A i \in DOMAIN calls' : calls'[i].state = "pending" => ~calls'[i].late
    BY <1>7, <1>8, <2>1 DEF Remembers
  <2>4. \A i \in DOMAIN calls' : calls'[i].state = "cancelled" /\ ~calls'[i].late =>
           (i \in DOMAIN calls /\ calls[i].state = "cancelled" /\ ~calls[i].late)
    BY <1>7, <1>8, <2>1
  <2> QED BY <1>3, <2>1, <2>2, <2>3, <2>4, RemembersStep
<1>10. ASSUME NEW i \in DOMAIN calls' PROVE Agrees(i)'
  <2>1. CASE i = n + 1
    <3>1. i \notin missed
      BY <1>1, <1>4, <2>1 DEF Remembers
    <3> QED BY <1>3, <1>5, <2>1, <3>1 DEF Agrees
  <2>2. CASE i \in DOMAIN calls
    <3>1. CASE i \in missed
      <4>1. Done(calls[i]) /\ Done(heard[i])
        BY <1>1, <2>2, <3>1 DEF Agrees, Done
      <4>2. heard'[i] = heard[i] /\ calls'[i] = calls[i]
        BY <1>6, <2>2, <4>1
      <4> QED BY <1>1, <1>3, <2>2, <3>1, <4>2 DEF Agrees
    <3>2. CASE i \notin missed
      <4>1. heard[i] = calls[i]
        BY <1>1, <2>2, <3>2 DEF Agrees
      <4>2. heard'[i] = calls'[i]
        BY <1>6, <2>2, <4>1
      <4> QED BY <1>3, <3>2, <4>2 DEF Agrees
    <3> QED BY <3>1, <3>2
  <2> QED BY <1>4, <1>5, <2>1, <2>2
<1>11. missed' \subseteq forgotten'
  BY <1>1, <1>3 DEF Replaces
<1> QED BY <1>5, <1>9, <1>10, <1>11 DEF Apart

(* Any other frame both know. *)
LEMMA OtherKeepsApart ==
  ASSUME calls \in Seq(Call), Remembers, Apart, NEW f \in Frame, f.kind # "request", ~Unmatched(f), Stores(f)
  PROVE  Remembers' /\ Apart'
<1> DEFINE k == About(calls, f)
           e == EventCall(calls, f)
<1>1. /\ heard \in Seq(Call) /\ DOMAIN heard = DOMAIN calls /\ missed \subseteq forgotten /\ \A i \in DOMAIN calls : Agrees(i)
      /\ \A i \in DOMAIN calls : heard[i].id = calls[i].id
  BY DEF Apart, Agrees
<1>2. About(heard, f) = k /\ (f.kind # "task" => Latest(heard, f.id) = k)
  BY <1>1, SameLatest DEF About
<1>3. /\ heard' = Ingest(heard, f) /\ calls' = Ingest(calls, f) /\ Replaces(e)
      /\ prompt' = (IF f.kind = "cancel" /\ e # pointing THEN e ELSE 0) /\ missed' = missed \cup (LateAnswers(f) \ {prompt})
  BY DEF Stores, StoreCall
<1>4. /\ f.kind \in {"response", "cancel", "task"} /\ 0 \notin DOMAIN calls
      /\ f.kind = "response" => f.result \in Results
      /\ f.kind = "task" => f.result \in TaskEnds
  BY DEF Frame
<1>5. /\ Observed(calls, calls', f, k) /\ Moved(heard, heard', k)
      /\ k \in DOMAIN heard =>
           heard'[k] = CASE f.kind = "response" -> AnswerCall(heard[k], f.result)
                         [] f.kind = "cancel" -> CancelCall(heard[k])
                         [] f.kind = "task" -> ApplyTaskState(heard[k], f.result)
      /\ k \in DOMAIN calls =>
           calls'[k] = CASE f.kind = "response" -> AnswerCall(calls[k], f.result)
                         [] f.kind = "cancel" -> CancelCall(calls[k])
                         [] f.kind = "task" -> ApplyTaskState(calls[k], f.result)
  BY <1>1, <1>2, <1>3, ObservedCall, IngestMoves DEF About
<1>6. /\ calls' \in Seq(Call) /\ DOMAIN calls' = DOMAIN calls
      /\ \A j \in DOMAIN calls : j # k => calls'[j] = calls[j]
      /\ k \in DOMAIN calls => MovesOn(calls[k], calls'[k], f.kind)
  BY <1>5 DEF Observed
<1>7. /\ e = 0 \/ (e = k /\ f.kind # "task")
      /\ f.kind = "cancel" /\ e # 0 => Cancellable(calls[e])
      /\ f.kind = "cancel" /\ e = 0 /\ k # 0 => ~Cancellable(calls[k])
      /\ f.kind # "task" => k = 0 \/ k \in DOMAIN calls
  <2>1. f.kind # "task" => k = 0 \/ k \in DOMAIN calls
    BY LatestIsLast DEF About
  <2>2. /\ e = 0 \/ (e = k /\ f.kind # "task")
        /\ f.kind = "cancel" /\ e # 0 => Cancellable(calls[e])
        /\ f.kind = "cancel" /\ e = 0 /\ k # 0 => ~Cancellable(calls[k])
    BY <1>4 DEF EventCall, About
  <2> QED BY <2>1, <2>2
<1>8. k \in DOMAIN calls => calls[k] \in Call /\ calls'[k] \in Call
  BY <1>6
<1>9. f.kind = "response" /\ k # 0 => k \notin forgotten
  BY <1>4 DEF Unmatched, About
<1> HIDE DEF k, e
<1>10. \A i \in DOMAIN calls : calls[i] \in Call
  OBVIOUS
<1>11. Remembers'
  <2>1. \A i \in DOMAIN calls : Done(calls[i]) => Done(calls'[i])
    <3> SUFFICES ASSUME NEW i \in DOMAIN calls, Done(calls[i]), i = k PROVE Done(calls'[i])
      BY <1>6
    <3>1. calls[k].state \in {"done", "cancelled", "superseded"}
      BY <1>8 DEF Call, Done
    <3> QED BY <1>6, <3>1 DEF MovesOn, Done
  <2>2. \A i \in DOMAIN calls' : calls'[i].state = "pending" => ~calls'[i].late
    <3> SUFFICES ASSUME NEW i \in DOMAIN calls, calls'[i].state = "pending" PROVE ~calls'[i].late
      BY <1>6
    <3>1. CASE i # k
      BY <1>6, <3>1 DEF Remembers
    <3>2. CASE i = k
      <4>1. calls[k].state = "pending"
        BY <1>8, <2>1, <3>2 DEF Done
      <4> QED BY <1>6, <3>2, <4>1 DEF MovesOn, Remembers
    <3> QED BY <3>1, <3>2
  <2>3. \A i \in DOMAIN calls' : calls'[i].state = "cancelled" /\ ~calls'[i].late =>
          (i \in DOMAIN calls /\ calls[i].state = "cancelled" /\ ~calls[i].late) \/ (i = e /\ f.kind = "cancel" /\ calls[i].state = "pending")
    <3> SUFFICES ASSUME NEW i \in DOMAIN calls, calls'[i].state = "cancelled", ~calls'[i].late, i = k
                 PROVE  (calls[i].state = "cancelled" /\ ~calls[i].late) \/ (i = e /\ f.kind = "cancel" /\ calls[i].state = "pending")
      BY <1>6
    <3>1. calls[k].state \in {"pending", "done", "cancelled", "superseded"} /\ MovesOn(calls[k], calls'[k], f.kind)
      BY <1>6, <1>8 DEF Call
    <3>2. CASE calls[k].state = "pending"
      <4>1. f.kind = "cancel" /\ ~calls[k].task
        BY <3>1, <3>2 DEF MovesOn
      <4>2. Cancellable(calls[k]) /\ k # 0
        BY <1>4, <3>2, <4>1 DEF Cancellable, Done
      <4> QED BY <1>7, <3>2, <4>1, <4>2
    <3>3. CASE calls[k].state # "pending"
      BY <3>1, <3>3 DEF MovesOn
    <3> QED BY <3>2, <3>3
  <2>4. f.kind = "cancel" /\ e # 0 =>
          e \in DOMAIN calls /\ ~Done(calls[e]) /\ calls'[e].state = "cancelled" /\ ~calls'[e].late
    <3> SUFFICES ASSUME f.kind = "cancel", e # 0
                 PROVE  e \in DOMAIN calls /\ ~Done(calls[e]) /\ calls'[e].state = "cancelled" /\ ~calls'[e].late
      OBVIOUS
    <3>1. e = k /\ e \in DOMAIN calls /\ Cancellable(calls[e])
      BY <1>7
    <3>2. calls'[e] = [calls[e] EXCEPT !.state = "cancelled"]
      BY <1>5, <3>1 DEF CancelCall
    <3>3. calls[e].state = "pending" /\ ~calls[e].late
      BY <3>1 DEF Remembers, Cancellable, Done
    <3> QED BY <1>8, <3>1, <3>2, <3>3 DEF Call, Done
  <2>5. e \in {0} \cup DOMAIN calls'
    BY <1>6, <1>7
  <2>6. \/ prompt' = 0
        \/ /\ prompt' = e /\ e \in DOMAIN calls /\ e # pointing
           /\ ~Done(calls[e]) /\ calls'[e].state = "cancelled" /\ ~calls'[e].late
    BY <1>3, <2>4
  <2>7. \A i \in DOMAIN calls' : calls'[i].state = "cancelled" /\ ~calls'[i].late =>
          (i \in DOMAIN calls /\ calls[i].state = "cancelled" /\ ~calls[i].late) \/ i = prompt' \/ (i = pointing /\ i # 0)
    BY <1>3, <1>4, <1>6, <2>3
  <2> QED BY <1>3, <1>4, <1>6, <2>1, <2>2, <2>5, <2>6, <2>7, RemembersStep
<1>12. missed' = missed
  <2> SUFFICES ASSUME NEW i \in LateAnswers(f) \ {prompt} PROVE FALSE
    BY <1>3
  <2>1. f.kind = "response" /\ i = k /\ i \in DOMAIN calls /\ heard[i].state = "cancelled" /\ ~heard[i].late
    BY <1>1, <1>2 DEF LateAnswers
  <2>2. heard[i] = calls[i]
    BY <1>1, <2>1 DEF Agrees
  <2>3. i \in forgotten
    BY <2>1, <2>2 DEF Remembers
  <2> QED BY <1>4, <1>9, <2>1, <2>3
<1>13. ASSUME NEW i \in DOMAIN calls PROVE Agrees(i)'
  <2>1. CASE i # k
    BY <1>1, <1>5, <1>6, <1>12, <2>1 DEF Agrees, Moved
  <2>2. CASE i = k /\ i \in missed
    <3>1. Done(calls[k]) /\ Done(heard[k]) /\ f.kind # "response"
      BY <1>1, <1>4, <1>9, <1>13, <2>2 DEF Agrees, Done
    <3>2. calls'[k] = calls[k] /\ heard'[k] = heard[k]
      BY <1>1, <1>4, <1>5, <1>13, <2>2, <3>1 DEF CancelCall, Cancellable, ApplyTaskState
    <3> QED BY <1>1, <1>12, <1>13, <2>2, <3>2 DEF Agrees
  <2>3. CASE i = k /\ i \notin missed
    BY <1>1, <1>5, <1>12, <1>13, <2>3 DEF Agrees
  <2> QED BY <2>1, <2>2, <2>3
<1>14. missed' \subseteq forgotten' /\ heard' \in Seq(Call) /\ DOMAIN heard' = DOMAIN calls'
  BY <1>1, <1>3, <1>5, <1>6, <1>12 DEF Replaces, Moved
<1> QED BY <1>6, <1>11, <1>13, <1>14 DEF Apart

LEMMA StoresKeep ==
  ASSUME calls \in Seq(Call), Remembers, Apart, NEW f \in Frame, Stores(f)
  PROVE  Remembers' /\ Apart'
BY UnmatchedKeeps, RequestKeepsApart, OtherKeepsApart DEF Unmatched

(* A frame about no call pushes the last one out. *)
LEMMA TakesOtherKeeps ==
  ASSUME calls \in Seq(Call), Remembers, Apart, TakesOther
  PROVE  Remembers' /\ Apart'
<1>1. calls' = calls /\ heard' = heard /\ missed' = missed /\ Replaces(0) /\ prompt' = 0 /\ 0 \notin DOMAIN calls
  BY DEF TakesOther
<1>2. Remembers'
  BY <1>1, RemembersStep DEF Remembers
<1>3. Apart'
  BY <1>1 DEF Apart, Agrees, Replaces
<1> QED BY <1>2, <1>3

(* While nothing is counted. *)
Idle ==
  /\ operations = <<>> /\ inflight = <<>> /\ series = <<>> /\ cancelledCalls = <<>> /\ Counted = {}
  /\ calls \in Seq(Call) /\ history \in Nat /\ history <= Len(calls) /\ ErrsMarked

LEMMA IdleHolds == Idle => CountingInv
<1> SUFFICES ASSUME Idle PROVE CountingInv
  OBVIOUS
<1>1. /\ DOMAIN operations = {} /\ DOMAIN inflight = {} /\ DOMAIN series = {} /\ DOMAIN cancelledCalls = {} /\ Counted = {}
      /\ Len(cancelledCalls) = 0 /\ cancelledCalls \in Seq(Nat)
  BY DEF Idle
<1>2. Cardinality({}) = 0 /\ IsFiniteSet({})
  BY FS_EmptySet
<1>3. \A field : Units(series, field) = {}
  BY <1>1 DEF Units
<1>4. Kept
  <2>1. Tallies(series)
    <3>1. series \in [DOMAIN series -> [Counters -> Nat]]
      BY <1>1 DEF Idle
    <3> QED BY <1>1, <1>2, <1>3, <3>1 DEF Tallies
  <2>2. /\ operations \in [DOMAIN operations -> [tool : Tools, id : Ids, cancelled : BOOLEAN]]
        /\ inflight \in [DOMAIN inflight -> Nat]
    BY <1>1 DEF Idle
  <2> QED BY <1>1, <2>1, <2>2 DEF Kept, Idle
<1>5. HeldById /\ HeldOpen
  BY <1>1 DEF HeldById, HeldOpen
<1>6. LateOnes
  BY <1>1, MetricsAssumption DEF LateOnes
<1>7. Recorded
  <2>1. \A err : Erred({}, err) = {}
    BY DEF Erred
  <2>2. EndsRecorded({})
    BY <1>1, <1>2, <1>3, <2>1 DEF EndsRecorded, Total
  <2> QED BY <2>2 DEF Recorded
<1>8. Labelled
  BY <1>1, <1>2, <1>3 DEF Labelled, Total
<1>9. StartsEmpty /\ ErrsMarked
  BY DEF StartsEmpty, Idle
<1> QED BY <1>4, <1>5, <1>6, <1>7, <1>8, <1>9 DEF CountingInv

(* The steps of the metrics. *)
LEMMA MetricsInitInv == MetricsInit => MetricsInv
<1> SUFFICES ASSUME MetricsInit PROVE MetricsInv
  OBVIOUS
<1>1. Idle
  BY DEF MetricsInit, Idle, Counted, ErrsMarked
<1>2. DOMAIN calls = {} /\ heard \in Seq(Call) /\ heard = calls
  BY DEF MetricsInit
<1>3. Remembers /\ Apart
  BY <1>2 DEF MetricsInit, Remembers, Apart
<1> QED BY <1>1, <1>3, IdleHolds DEF MetricsInv

LEMMA BackfillStaysIdle ==
  ASSUME CountingInv, heard \in Seq(Call), Primes \/ GoesLive PROVE Idle'
<1>1. /\ operations' = <<>> /\ inflight' = <<>> /\ series' = <<>> /\ cancelledCalls' = <<>>
      /\ calls \in Seq(Call) /\ history \in Nat /\ history <= Len(calls) /\ ErrsMarked /\ Len(calls) \in Nat
  BY DEF Primes, GoesLive, CountingInv, StartsEmpty, Kept, countVars
<1>2. CASE Primes
  <2>1. PICK f \in Frame : calls' = calls \/ calls' = Ingest(calls, f)
    BY <1>2, FramesAreFrames DEF Primes, Stores
  <2>2. calls' \in Seq(Call) /\ Len(calls') \in {Len(calls), Len(calls) + 1} /\ history' = history
    BY <1>1, <1>2, <2>1, IngestTyped DEF Primes
  <2>3. ErrsMarked'
    <3>1. CASE calls' = calls
      BY <1>1, <3>1 DEF ErrsMarked
    <3>2. CASE calls' = Ingest(calls, f)
      BY <1>1, <3>2, IngestKeepsMarks
    <3> QED BY <2>1, <3>1, <3>2
  <2>4. Counted' = {}
    BY <1>2 DEF Primes, Counted
  <2> QED BY <1>1, <2>2, <2>3, <2>4 DEF Idle
<1>3. CASE GoesLive
  <2>1. calls' = calls /\ history' = Len(calls)
    BY <1>3 DEF GoesLive, storeVars
  <2>2. Counted' = {}
    BY <1>1, <2>1 DEF Counted
  <2>3. ErrsMarked'
    BY <1>1, <2>1 DEF ErrsMarked
  <2> QED BY <1>1, <2>1, <2>2, <2>3 DEF Idle
<1> QED BY <1>2, <1>3

(* What leaves the counters and the calls alone, and lets the store forget. *)
LEMMA MetricsQuiet ==
  ASSUME CountingInv, UNCHANGED <<calls, live, history, series, operations, inflight, cancelledCalls>>, forgotten \subseteq forgotten'
  PROVE  CountingInv'
<1>1. UNCHANGED <<calls, live, history, series, operations, inflight, cancelledCalls>>
  OBVIOUS
<1>2. Counted' = Counted /\ (\A err : Total(err)' = Total(err)) /\ (\A t : On(t)' = On(t))
  BY <1>1 DEF Counted, Total, On, LabelOf
<1>3. Recorded'
  <2>1. PICK R \in SUBSET Counted : EndsRecorded(R)
    BY DEF CountingInv, Recorded
  <2>2. EndsRecorded(R)'
    <3>1. \A i : (Overtaken(i) => Overtaken(i)') /\ (Unanswered(i) => Unanswered(i)')
      BY <1>1 DEF Overtaken, Unanswered
    <3> QED BY <1>1, <1>2, <2>1, <3>1 DEF EndsRecorded, Erred
  <2> QED BY <1>2, <2>2 DEF Recorded
<1>4. Kept' /\ StartsEmpty' /\ ErrsMarked'
  BY <1>1 DEF CountingInv, Kept, StartsEmpty, ErrsMarked
<1>5. HeldById' /\ HeldOpen' /\ LateOnes'
  BY <1>1, <1>2 DEF CountingInv, HeldById, HeldOpen, LateOnes, Newest
<1>6. Labelled'
  BY <1>1, <1>2 DEF CountingInv, Labelled, LabelOf
<1> QED BY <1>3, <1>4, <1>5, <1>6 DEF CountingInv

(* A late answer the store does not match counts for nothing. *)
LEMMA UnmatchedIsQuiet ==
  ASSUME CountingInv, NEW f \in Frame, ObservesLive(f), Unmatched(f)
  PROVE  CountingInv'
<1>1. f.kind = "response" /\ calls' = calls /\ StoreCall(f) = 0 /\ EventTaskCall(f) = 0 /\ forgotten \subseteq forgotten'
  BY DEF ObservesLive, Stores, Unmatched, StoreCall, EventTaskCall, Replaces
<1>2. Max({StoreCall(f), EventTaskCall(f)}) = 0
  <2>1. {StoreCall(f), EventTaskCall(f)} = {0} /\ \E x \in {0} : \A y \in {0} : x >= y
    BY <1>1
  <2> QED BY <2>1 DEF Max
<1>3. 0 \notin DOMAIN operations
  BY DEF CountingInv, HeldById, Counted, Kept
<1>4. UNCHANGED <<series, operations, inflight, cancelledCalls>>
  <2> HIDE DEF Ends, Begins
  <2> QED BY <1>1, <1>2, <1>3 DEF ObservesLive, Observe, Collector
<1> QED BY <1>1, <1>4, MetricsQuiet DEF ObservesLive

LEMMA MetricsStep == MetricsInv /\ [MetricsNext]_metricsVars => MetricsInv'
<1>1. (Idle => CountingInv)'
  BY IdleHolds, PTL
<1> SUFFICES ASSUME MetricsInv, [MetricsNext]_metricsVars PROVE MetricsInv'
  OBVIOUS
<1>2. CountingInv /\ Remembers /\ Apart /\ calls \in Seq(Call) /\ heard \in Seq(Call)
  BY DEF MetricsInv, CountingInv, Kept, Apart
<1>3. CASE Primes
  <2>1. PICK f \in Frame : Stores(f)
    BY <1>2, <1>3, FramesAreFrames DEF Primes
  <2> QED BY <1>1, <1>2, <1>3, <2>1, BackfillStaysIdle, StoresKeep DEF MetricsInv
<1>4. CASE GoesLive
  <2>1. Remembers' /\ Apart'
    BY <1>2, <1>4 DEF GoesLive, storeVars, Remembers, Apart, Agrees
  <2> QED BY <1>1, <1>2, <1>4, <2>1, BackfillStaysIdle DEF MetricsInv
<1>5. CASE TakesOther
  <2>1. UNCHANGED <<calls, live, history, series, operations, inflight, cancelledCalls>> /\ forgotten \subseteq forgotten'
    BY <1>5 DEF TakesOther, Replaces, countVars
  <2> QED BY <1>2, <1>5, <2>1, MetricsQuiet, TakesOtherKeeps DEF MetricsInv
<1>6. ASSUME NEW f \in Frames(heard), ObservesLive(f) PROVE MetricsInv'
  <2>1. f \in Frame /\ Stores(f)
    BY <1>2, <1>6, FramesAreFrames DEF ObservesLive
  <2>2. Remembers' /\ Apart'
    BY <1>2, <2>1, StoresKeep
  <2>3. CountingInv'
    BY <1>2, <1>6, <2>1, <2>2, RequestStepKeeps, OtherStepKeeps, UnmatchedIsQuiet
  <2> QED BY <2>2, <2>3 DEF MetricsInv
<1>7. CASE UNCHANGED metricsVars
  <2>1. /\ UNCHANGED <<calls, live, history, series, operations, inflight, cancelledCalls>> /\ forgotten \subseteq forgotten'
        /\ UNCHANGED <<heard, pointing, forgotten, prompt, missed>>
    BY <1>7 DEF metricsVars, storeVars, countVars
  <2>2. Remembers' /\ Apart'
    BY <1>2, <2>1 DEF Remembers, Apart, Agrees
  <2> QED BY <1>2, <2>1, <2>2, MetricsQuiet DEF MetricsInv
<1> QED BY <1>3, <1>4, <1>5, <1>6, <1>7 DEF MetricsNext

(* The errors recorded are those of the counted calls that the store has an error of, which are those
   the wire has but for the answers that were missed. *)
LEMMA InvCountsExactly == MetricsInv => MetricsExact
<1> SUFFICES ASSUME MetricsInv PROVE MetricsExact
  OBVIOUS
<1>1. Kept /\ HeldById /\ HeldOpen /\ ErrsMarked /\ Labelled /\ Recorded /\ Apart
  BY DEF MetricsInv, CountingInv
<1>2. /\ IsFiniteSet(Counted) /\ Counted \subseteq DOMAIN calls
      /\ \A t \in DOMAIN series : series[t] \in [Counters -> Nat]
      /\ \A t : Cardinality(On(t)) \in Nat
  BY <1>1, HeldIsFinite DEF Counted
<1>3. PICK R \in SUBSET Counted : EndsRecorded(R)
  BY <1>1 DEF Recorded
<1>4. ASSUME NEW err \in {"tool", "protocol"}
      PROVE  Total(err) = Cardinality({i \in Counted \ missed : heard[i].err = err})
  <2> DEFINE erred == {i \in Counted \ missed : heard[i].err = err}
  <2>1. Total(err) = Cardinality(Erred(R, err))
    BY <1>3 DEF EndsRecorded
  <2>2. ASSUME NEW i \in Erred(R, err) PROVE i \in erred
    <3>1. i \in Counted /\ i \in DOMAIN calls /\ calls[i].err = err /\ ~Unmarked(calls[i])
      BY <1>2, <1>3 DEF EndsRecorded, Erred
    <3>2. i \notin missed
      BY <1>1, <3>1 DEF Apart, Agrees, Unmarked
    <3> QED BY <1>1, <3>1, <3>2 DEF Apart, Agrees
  <2>3. ASSUME NEW i \in erred PROVE i \in Erred(R, err)
    <3>1. i \in Counted /\ i \in DOMAIN calls /\ calls[i].err = err /\ err # Nothing
      BY <1>1, <1>2 DEF Nothing, Apart, Agrees
    <3>2. ~Unmarked(calls[i])
      BY <1>1, <3>1 DEF ErrsMarked
    <3>3. i \notin DOMAIN operations
      BY <1>1, <3>2 DEF HeldOpen, Unmarked
    <3>4. i \in R
      BY <1>3, <3>1, <3>2, <3>3 DEF EndsRecorded, Overtaken, Unanswered, Unmarked
    <3> QED BY <3>1, <3>4 DEF Erred
  <2>4. Erred(R, err) = erred
    BY <2>2, <2>3
  <2> QED BY <2>1, <2>4
<1>5. ASSUME NEW t \in DOMAIN series
      PROVE  series[t].tool + series[t].protocol <= series[t].count /\ series[t].count <= series[t].calls
  <2>1. /\ series[t].tool + series[t].protocol <= series[t].count
        /\ series[t].count + Cardinality(On(t)) <= series[t].calls
        /\ series[t].count \in Nat /\ series[t].calls \in Nat /\ Cardinality(On(t)) \in Nat
    BY <1>1, <1>2 DEF Labelled, Counters
  <2> QED BY <2>1
<1>6. CountsExact
  BY <1>1, <1>4, <1>5 DEF CountsExact, Labelled
<1>7. HoldsOnlyOpen
  <2> SUFFICES ASSUME NEW i \in DOMAIN operations
               PROVE  /\ calls[i].state = "pending" \/ (calls[i].state = "cancelled" /\ Contains(cancelledCalls, i))
                      /\ RequestKey(calls[i].id) \in DOMAIN inflight
    BY DEF HoldsOnlyOpen
  <2>1. DOMAIN cancelledCalls = 1 .. Len(cancelledCalls)
    BY <1>1 DEF Kept
  <2> QED BY <1>1, <2>1 DEF HeldOpen, HeldById, Contains, RequestKey
<1> QED BY <1>6, <1>7 DEF MetricsExact

(* The counters are exact but for the late answers a store of one frame must miss, and nothing ended is
   held, for any number of series, cancelled calls and frames (Observe, finish, trimCancelled). *)
THEOREM MetricsAreExact == LiveSpec => []MetricsExact
<1>1. LiveInit => MetricsInv
  BY MetricsInitInv DEF LiveInit
<1>2. MetricsInv /\ [LiveNext]_liveVars => MetricsInv'
  <2> SUFFICES ASSUME MetricsInv, [LiveNext]_liveVars PROVE MetricsInv'
    OBVIOUS
  <2>1. [MetricsNext]_metricsVars
    BY DEF LiveNext, liveVars
  <2> QED BY <2>1, MetricsStep
<1>3. MetricsInv => MetricsExact
  BY InvCountsExactly
<1> QED BY <1>1, <1>2, <1>3, PTL DEF LiveSpec
=============================================================================
