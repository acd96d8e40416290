------------------------------ MODULE HubProofs ------------------------------
(***************************************************************************)
(* The hub's backfill, gate and sweep, for any logs, any frames and any    *)
(* bound of the map of marks.                                              *)
(*                                                                         *)
(* That an envelope is handed on once and in order is inductive only with  *)
(* what is on its way: everything handed on or carried stays at or below   *)
(* its session's mark, in order (BelowMark).  That only what was seen is   *)
(* turned away needs to know where a mark came from: from the log, of      *)
(* which then everything was passed or is still to be replayed (Replaying, *)
(* MarksFromLogs), or from the session's own connection.  Both need that   *)
(* backfill and shims do not hand on at once (Phases): Run accepts only    *)
(* after the backfill.                                                     *)
(***************************************************************************)
EXTENDS MCHub, SequenceTheorems, WellFoundedInduction, TLAPS

(* Run serves only when the backfill is over, and a session's connection hands on only its own. *)
Phases ==
  /\ main # "backfill" => carried[Backfiller] = NoEnv /\ rest = {} /\ (files = {} \/ ctx)
  /\ main = "accepted" => accepted # None
  /\ \A s \in Session : goroutine[s] # "none" => main # "backfill"
  /\ \A s \in Session : carried[s] # NoEnv => goroutine[s] # "none" /\ carried[s].session = s

(* The log of s was passed to the store or is still to be replayed. *)
Covered(s) == \A n \in disk[s] : [session |-> s, seq |-> n] \in passed \cup rest

(* The log being replayed is all ahead of its mark, and one log is replayed at a time. *)
Replaying ==
  /\ main = "backfill" => \A s \in files : marks[s] = 0
  /\ \A e \in rest : /\ e.seq \in disk[e.session] /\ marks[e.session] < e.seq
                     /\ e.session \notin files /\ Covered(e.session)
  /\ \A e, f \in rest : e.session = f.session

(* A mark that is ahead of what a shim still has to send is one its whole log left. *)
MarksFromLogs ==
  \A s \in Session : \A n \in queue[s] : marks[s] < n \/ (marks[s] \in disk[s] /\ Covered(s))

(* Frames of one session in the order their sequence numbers have. *)
Rising(h) == \A i, j \in 1 .. Len(h) : i < j => h[i] < h[j]

(* What was handed on and what is on its way stay below the mark, in order. *)
BelowMark ==
  \A s \in Session \ swept :
    /\ Rising(handled[s])
    /\ \A i \in 1 .. Len(handled[s]) : handled[s][i] <= marks[s]
    /\ \A x \in Source : carried[x].session = s =>
         /\ carried[x].seq <= marks[s]
         /\ \A i \in 1 .. Len(handled[s]) : handled[s][i] < carried[x].seq

(* The inductive invariant. *)
HubInv == TypeOK /\ Phases /\ Replaying /\ MarksFromLogs /\ OnlySeenRefused /\ BelowMark

(* Every set of sequence numbers has a least one: the well-founded order of Nat, with no induction. *)
LEMMA LeastExists == ASSUME NEW T, T \subseteq Nat, T # {} PROVE \E x \in T : \A y \in T : x <= y
<1> DEFINE below == {p \in Nat \X Nat : p[1] < p[2]}
<1>1. IsWellFoundedOn(below, Nat)
  BY NatLessThanWellFounded DEF OpToRel
<1>2. PICK x \in T : \A y \in T : ~ (<<y, x>> \in below)
  <2> HIDE DEF below
  <2> QED BY <1>1, WFMin
<1>3. \A y \in T : y \in Nat /\ x \in Nat /\ ~(y < x)
  BY <1>2
<1> QED BY <1>3

(* What a log's replay takes next. *)
LEMMA LeastIsLeast ==
  ASSUME NEW T, T \subseteq Nat, T # {} PROVE Least(T) \in T /\ \A n \in T : Least(T) <= n
BY LeastExists DEF Least

(* Sessions and frame numbers are positive, and no session stands for the backfill or for none. *)
LEMMA Numbers ==
  /\ Sessions \in Nat /\ Session \subseteq Nat \ {0} /\ FrameNo \subseteq Nat
  /\ \A n \in FrameNo : n \in Nat /\ n > 0
  /\ \A n \in FrameNo \cup {0} : n \in Nat
  /\ Backfiller \notin Session /\ None \notin Session /\ \A e \in Envelope : e.session \in Session /\ e.seq \in FrameNo
<1>1. Sessions \in Nat
  BY HubAssumption DEF Sessions
<1>2. Session \subseteq Nat \ {0}
  BY <1>1 DEF Session
<1>3. \A n \in FrameNo : n \in Nat /\ n > 0
  <2> TAKE n \in FrameNo
  <2>1. PICK s \in Session : n \in 1 .. Frames[s]
    BY DEF FrameNo
  <2>2. Frames[s] \in Nat
    BY HubAssumption DEF Session, Sessions
  <2> QED BY <2>1, <2>2
<1>4. FrameNo \subseteq Nat /\ \A n \in FrameNo \cup {0} : n \in Nat
  BY <1>3
<1> QED BY <1>1, <1>2, <1>3, <1>4 DEF Backfiller, None, Envelope

(* The session that passes becomes the last one touched, and the map of marks stays within its
   bound. *)
LEMMA TouchFacts ==
  ASSUME NEW r \in Seq(Session), Len(r) <= SeenCap, NEW s \in Session
  PROVE  /\ Sweep(Touch(r, s)) \in Seq(Session)
         /\ Len(Sweep(Touch(r, s))) <= SeenCap
         /\ Kept(Sweep(Touch(r, s)), s)
         /\ \A u \in Session : Kept(Sweep(Touch(r, s)), u) => u = s \/ Kept(r, u)
<1> USE HubAssumption
<1> DEFINE k == CHOOSE i \in DOMAIN r : r[i] = s
           q == IF Kept(r, s) THEN RemoveAt(r, k) ELSE r
           t == Touch(r, s)
<1>1. /\ q \in Seq(Session) /\ Len(q) <= Len(r) /\ Len(q) \in Nat
      /\ \A i \in 1 .. Len(q) : Kept(r, q[i])
  <2>1. CASE Kept(r, s)
    <3>1. k \in 1 .. Len(r)
      BY <2>1 DEF Kept
    <3> DEFINE a == SubSeq(r, 1, k - 1)
               b == SubSeq(r, k + 1, Len(r))
    <3> HIDE DEF k
    <3>2. /\ a \in Seq(Session) /\ Len(a) = k - 1
          /\ \A i \in 1 .. k - 1 : a[i] = r[i]
      BY <3>1, SubSeqProperties
    <3>3. /\ b \in Seq(Session) /\ Len(b) = Len(r) - k
          /\ \A i \in 1 .. Len(r) - k : b[i] = r[k + i]
      BY <3>1, SubSeqProperties
    <3> HIDE DEF a, b
    <3>4. /\ a \o b \in Seq(Session) /\ Len(a \o b) = Len(r) - 1
          /\ \A i \in 1 .. Len(r) - 1 : (a \o b)[i] = IF i <= k - 1 THEN a[i] ELSE b[i - (k - 1)]
      <4>1. /\ a \o b \in Seq(Session) /\ Len(a \o b) = Len(a) + Len(b)
            /\ \A i \in 1 .. Len(a) + Len(b) : (a \o b)[i] = IF i <= Len(a) THEN a[i] ELSE b[i - Len(a)]
        BY <3>2, <3>3, ConcatProperties
      <4>2. Len(a) + Len(b) = Len(r) - 1 /\ Len(a) = k - 1
        BY <3>1, <3>2, <3>3
      <4> QED BY <4>1, <4>2
    <3>5. \A i \in 1 .. Len(r) - 1 : Kept(r, (a \o b)[i])
      <4> TAKE i \in 1 .. Len(r) - 1
      <4>1. CASE i <= k - 1
        <5>1. i \in 1 .. k - 1 /\ i \in DOMAIN r
          BY <3>1, <4>1
        <5>2. (a \o b)[i] = r[i]
          BY <3>2, <3>4, <4>1, <5>1
        <5> QED BY <5>1, <5>2 DEF Kept
      <4>2. CASE ~(i <= k - 1)
        <5>1. i - (k - 1) \in 1 .. Len(r) - k /\ i + 1 \in DOMAIN r
          BY <3>1, <4>2
        <5>2. (a \o b)[i] = r[i + 1]
          BY <3>1, <3>3, <3>4, <4>2, <5>1
        <5> QED BY <5>1, <5>2 DEF Kept
      <4> QED BY <4>1, <4>2
    <3>6. q = a \o b
      BY <2>1 DEF RemoveAt, a, b
    <3>7. Len(r) \in Nat /\ Len(r) >= 1
      BY <3>1
    <3> HIDE DEF q
    <3>8. q \in Seq(Session) /\ Len(q) = Len(r) - 1 /\ \A i \in 1 .. Len(q) : Kept(r, q[i])
      BY <3>4, <3>5, <3>6
    <3> QED BY <3>7, <3>8
  <2>2. CASE ~Kept(r, s)
    BY <2>2 DEF Kept
  <2> QED BY <2>1, <2>2
<1>2. t = Append(q, s)
  BY DEF Touch
<1> HIDE DEF q, t
<1>3. /\ t \in Seq(Session) /\ Len(t) = Len(q) + 1 /\ t[Len(t)] = s /\ Len(t) <= SeenCap + 1
      /\ \A i \in 1 .. Len(t) : t[i] = s \/ Kept(r, t[i])
  BY <1>1, <1>2
<1>4. CASE Len(t) > SeenCap
  <2> DEFINE m == Len(t) \div 4 + 1
             n == Len(t)
  <2>1. m \in 2 .. n /\ n \in Nat /\ n = SeenCap + 1
    BY <1>3, <1>4
  <2> HIDE DEF m
  <2>2. /\ SubSeq(t, m, n) \in Seq(Session) /\ Len(SubSeq(t, m, n)) = n - m + 1
        /\ \A i \in 1 .. n - m + 1 : SubSeq(t, m, n)[i] = t[m + i - 1]
    <3>1. m \in Int /\ n \in Int /\ m <= n
      BY <2>1
    <3>2. \A i \in m .. n : t[i] \in Session
      <4>1. \A i \in m .. n : i \in 1 .. Len(t)
        BY <2>1
      <4> QED BY <1>3, <4>1
    <3> HIDE DEF n
    <3> QED BY <3>1, <3>2, SubSeqProperties
  <2>3. Sweep(t) = SubSeq(t, m, n)
    BY <1>4 DEF Sweep, m
  <2>4. SubSeq(t, m, n)[n - m + 1] = s
    <3>1. m + (n - m + 1) - 1 = n /\ n - m + 1 \in 1 .. n - m + 1
      BY <2>1
    <3> QED BY <1>3, <2>2, <3>1
  <2>5. \A i \in 1 .. n - m + 1 : m + i - 1 \in 1 .. n
    BY <2>1
  <2> HIDE DEF n
  <2>6. DOMAIN SubSeq(t, m, n) = 1 .. n - m + 1
    BY <2>2
  <2>7. \A i \in 1 .. n - m + 1 : SubSeq(t, m, n)[i] = s \/ Kept(r, SubSeq(t, m, n)[i])
    BY <1>3, <2>2, <2>5 DEF n
  <2>8. Kept(SubSeq(t, m, n), s)
    <3>1. n - m + 1 \in 1 .. n - m + 1
      BY <2>1
    <3> QED BY <2>4, <2>6, <3>1 DEF Kept
  <2>9. Len(SubSeq(t, m, n)) <= SeenCap
    BY <2>1, <2>2
  <2> QED BY <2>2, <2>3, <2>6, <2>7, <2>8, <2>9 DEF Kept, t
<1>5. CASE ~(Len(t) > SeenCap)
  <2>1. Sweep(t) = t
    BY <1>5 DEF Sweep
  <2>2. Len(t) <= SeenCap /\ Kept(t, s)
    BY <1>1, <1>3, <1>5 DEF Kept
  <2>3. \A u \in Session : Kept(t, u) => u = s \/ Kept(r, u)
    BY <1>3 DEF Kept
  <2> QED BY <1>3, <2>1, <2>2, <2>3 DEF t
<1> QED BY <1>4, <1>5

(* What emitFrom does to the marks, up to its unlock. *)
MarksTypeOK ==
  /\ marks \in [Session -> FrameNo \cup {0}]
  /\ swept \subseteq Session
  /\ recency \in Seq(Session) /\ Len(recency) <= SeenCap
  /\ \A s \in Session : marks[s] # 0 <=> Kept(recency, s)
  /\ passed \subseteq Envelope /\ refused \subseteq Envelope
  /\ carried \in [Source -> Envelope \cup {NoEnv}]

(* emitFrom: an envelope at or below the mark is refused; one above it passes and raises the mark. *)
LEMMA GateFacts ==
  ASSUME TypeOK, NEW x \in Source, NEW e \in Envelope, Gate(x, e)
  PROVE  /\ MarksTypeOK'
         /\ \/ /\ e.seq <= marks[e.session] /\ refused' = refused \cup {e}
               /\ UNCHANGED <<marks, swept, passed, carried>>
            \/ /\ marks[e.session] < e.seq /\ marks'[e.session] = e.seq
               /\ \A u \in Session \ {e.session} : marks'[u] = marks[u] \/ (marks'[u] = 0 /\ u \in swept')
               /\ swept \subseteq swept' /\ (e.session \in swept' => e.session \in swept)
               /\ passed' = passed \cup {e} /\ refused' = refused
               /\ carried' = [carried EXCEPT ![x] = e]
<1>1. MarksTypeOK /\ e.session \in Session /\ e.seq \in FrameNo /\ e.seq # 0
  BY Numbers DEF TypeOK, MarksTypeOK, Kept
<1>2. CASE Seen(e)
  <2>1. refused' = refused \cup {e} /\ UNCHANGED <<marks, recency, swept, passed, carried>>
    BY <1>2 DEF Gate
  <2> QED BY <1>1, <1>2, <2>1 DEF MarksTypeOK, Seen
<1>3. CASE ~Seen(e)
  <2> DEFINE gone == {s \in Session : marks[s] # 0 /\ ~Kept(recency', s)}
  <2>1. /\ recency' = Sweep(Touch(recency, e.session))
        /\ marks' = [s \in Session |-> IF s \in gone THEN 0 ELSE IF s = e.session THEN e.seq ELSE marks[s]]
        /\ swept' = swept \cup gone
        /\ passed' = passed \cup {e}
        /\ carried' = [carried EXCEPT ![x] = e]
        /\ refused' = refused
    BY <1>3 DEF Gate
  <2>2. /\ recency' \in Seq(Session) /\ Len(recency') <= SeenCap /\ Kept(recency', e.session)
        /\ \A u \in Session : Kept(recency', u) => u = e.session \/ Kept(recency, u)
    BY <1>1, <2>1, TouchFacts DEF MarksTypeOK
  <2>3. e.session \notin gone /\ gone \subseteq Session
    BY <2>2
  <2>4. \A u \in Session : marks'[u] # 0 <=> Kept(recency', u)
    BY <1>1, <2>1, <2>2 DEF MarksTypeOK
  <2>5. marks[e.session] < e.seq
    <3>1. marks[e.session] \in Nat /\ e.seq \in Nat
      <4>1. marks[e.session] \in FrameNo \cup {0}
        BY <1>1 DEF MarksTypeOK
      <4> QED BY <1>1, <4>1, Numbers
    <3> QED BY <1>3, <3>1 DEF Seen
  <2>6. marks' \in [Session -> FrameNo \cup {0}]
    BY <1>1, <2>1 DEF MarksTypeOK
  <2>7. MarksTypeOK'
    BY <1>1, <2>1, <2>2, <2>3, <2>4, <2>6 DEF MarksTypeOK
  <2>8. \A u \in Session \ {e.session} : marks'[u] = marks[u] \/ (marks'[u] = 0 /\ u \in swept')
    BY <2>1
  <2> QED BY <1>1, <2>1, <2>3, <2>5, <2>7, <2>8
<1> QED BY <1>2, <1>3

(* Before the backfill no mark is set and nothing was handed on. *)
LEMMA HubInitInv == Init => HubInv
<1> SUFFICES ASSUME Init PROVE HubInv
  OBVIOUS
<1> USE HubAssumption, Numbers
<1>1. TypeOK
  <2>1. /\ disk \in [Session -> SUBSET FrameNo] /\ queue \in [Session -> SUBSET FrameNo]
        /\ shim \in [Session -> {"out", "dialled", "open"}]
        /\ goroutine \in [Session -> {"none", "decode", "gate", "handle"}]
        /\ carried \in [Source -> Envelope \cup {NoEnv}]
        /\ marks \in [Session -> FrameNo \cup {0}]
    BY DEF Init
  <2>2. handled \in [Session -> Seq(FrameNo)]
    BY DEF Init
  <2>3. recency \in Seq(Session) /\ Len(recency) <= SeenCap /\ DOMAIN recency = {}
    BY DEF Init
  <2>4. files \subseteq Session
    BY DEF Init, Chosen
  <2> QED BY <2>1, <2>2, <2>3, <2>4 DEF Init, TypeOK
<1>2. Phases /\ Replaying /\ OnlySeenRefused
  BY DEF Init, Phases, Replaying, OnlySeenRefused, Chosen, Source
<1>3. MarksFromLogs
  BY DEF Init, MarksFromLogs
<1>4. BelowMark
  <2>1. \A x \in Source, s \in Session : carried[x].session # s
    BY DEF Init, NoEnv
  <2>2. \A s \in Session : handled[s] = <<>> /\ 1 .. Len(handled[s]) = {}
    BY DEF Init
  <2> QED BY <2>1, <2>2 DEF BelowMark, Rising
<1> QED BY <1>1, <1>2, <1>3, <1>4 DEF HubInv

(* Every step keeps the types. *)
LEMMA TypeStep == HubInv /\ [Next]_vars => TypeOK'
<1> SUFFICES ASSUME HubInv, [Next]_vars PROVE TypeOK'
  OBVIOUS
<1> USE DEF HubInv, lifeVars, seenVars
<1>1. CASE OpenLog
  <2>1. Least(files) \in Session
    BY <1>1, Numbers, LeastIsLeast DEF OpenLog, TypeOK
  <2>2. rest' \subseteq Envelope
    BY <1>1, <2>1 DEF OpenLog, TypeOK, Envelope
  <2> QED BY <1>1, <2>2 DEF OpenLog, TypeOK
<1>2. CASE ReplayFrame
  <2>1. PICK e \in rest : Gate(Backfiller, e) /\ rest' = rest \ {e}
    BY <1>2 DEF ReplayFrame
  <2>2. e \in Envelope /\ Backfiller \in Source
    BY <2>1 DEF TypeOK, Source
  <2>3. MarksTypeOK'
    BY <2>1, <2>2, GateFacts
  <2> QED BY <1>2, <2>1, <2>3 DEF TypeOK, MarksTypeOK, Kept, ReplayFrame
<1>3. CASE HandReplayed
  <2>1. Backfiller \in Source /\ carried[Backfiller] \in Envelope
    BY <1>3 DEF TypeOK, Source, HandReplayed, Hand
  <2>2. carried[Backfiller].session \in Session /\ carried[Backfiller].seq \in FrameNo
    BY <2>1, Numbers
  <2>3. handled' \in [Session -> Seq(FrameNo)]
    BY <1>3, <2>2 DEF TypeOK, HandReplayed, Hand
  <2> QED BY <1>3, <2>1, <2>3 DEF TypeOK, HandReplayed, Hand
<1>4. CASE StartAccepting
  BY <1>4 DEF TypeOK, StartAccepting, BackfillOver
<1>5. CASE AcceptFails
  BY <1>5 DEF TypeOK, AcceptFails
<1>6. CASE Register
  BY <1>6, Numbers DEF TypeOK, Phases, Register, TooLate
<1>7. CASE Discard
  BY <1>7, Numbers DEF TypeOK, Phases, Discard, TooLate
<1>8. CASE Return
  BY <1>8 DEF TypeOK, Return
<1>9. ASSUME NEW s \in Session, Dial(s) PROVE TypeOK'
  BY <1>9 DEF TypeOK, Dial
<1>10. ASSUME NEW s \in Session, Accept(s) PROVE TypeOK'
  BY <1>10 DEF TypeOK, Accept
<1>11. ASSUME NEW s \in Session, ShimEnds(s) PROVE TypeOK'
  BY <1>11 DEF TypeOK, ShimEnds
<1>12. ASSUME NEW s \in Session, Receive(s) PROVE TypeOK'
  <2> DEFINE e == [session |-> s, seq |-> Least(queue[s])]
  <2>1. Least(queue[s]) \in FrameNo
    <3>1. queue[s] \subseteq FrameNo /\ queue[s] # {}
      BY <1>12 DEF TypeOK, Receive
    <3>2. queue[s] \subseteq Nat
      BY <3>1, Numbers
    <3>3. Least(queue[s]) \in queue[s]
      BY <3>1, <3>2, LeastIsLeast
    <3> QED BY <3>1, <3>3
  <2>2. e \in Envelope /\ s \in Source /\ Gate(s, e)
    BY <1>12, <2>1 DEF Envelope, Source, Receive
  <2>3. MarksTypeOK'
    BY <2>2, GateFacts
  <2>4. queue' \in [Session -> SUBSET FrameNo]
    BY <1>12 DEF Receive, TypeOK
  <2> QED BY <1>12, <2>3, <2>4 DEF TypeOK, MarksTypeOK, Kept, Receive
<1>13. ASSUME NEW s \in Session, HandReceived(s) PROVE TypeOK'
  <2>1. s \in Source /\ carried[s] \in Envelope
    BY <1>13 DEF TypeOK, Source, HandReceived, Hand
  <2>2. carried[s].session \in Session /\ carried[s].seq \in FrameNo
    BY <2>1, Numbers
  <2>3. handled' \in [Session -> Seq(FrameNo)]
    BY <1>13, <2>2 DEF TypeOK, HandReceived, Hand
  <2> QED BY <1>13, <2>1, <2>3 DEF TypeOK, HandReceived, Hand
<1>14. ASSUME NEW s \in Session, EndConn(s) PROVE TypeOK'
  BY <1>14 DEF TypeOK, EndConn, DecodeFails
<1>15. CASE Cancel
  BY <1>15 DEF TypeOK, Cancel
<1>16. CASE CloseListener
  BY <1>16 DEF TypeOK, CloseListener
<1>17. CASE HangUp
  BY <1>17 DEF TypeOK, HangUp, HangUpOn
<1>18. CASE UNCHANGED vars
  BY <1>18 DEF TypeOK, vars
<1> QED BY <1>1, <1>2, <1>3, <1>4, <1>5, <1>6, <1>7, <1>8, <1>9, <1>10, <1>11, <1>12, <1>13, <1>14, <1>15, <1>16, <1>17, <1>18 DEF Next

(* Run turns to the shims when the backfill is over, for good. *)
LEMMA PhasesStep == HubInv /\ [Next]_vars => Phases'
<1> SUFFICES ASSUME HubInv, [Next]_vars PROVE Phases'
  OBVIOUS
<1> USE DEF HubInv, lifeVars, seenVars
<1>1. CASE OpenLog
  BY <1>1 DEF TypeOK, Phases, OpenLog
<1>2. CASE ReplayFrame
  <2>1. PICK e \in rest : Gate(Backfiller, e)
    BY <1>2 DEF ReplayFrame
  <2>2. main = "backfill" /\ main' = main /\ goroutine' = goroutine
    BY <1>2, <2>1 DEF Phases, ReplayFrame
  <2>3. \A s \in Session : carried'[s] = carried[s]
    BY <2>1, Numbers DEF TypeOK, Gate, Source
  <2> QED BY <2>2, <2>3 DEF Phases
<1>3. CASE HandReplayed
  <2>1. carried' = [carried EXCEPT ![Backfiller] = NoEnv]
    BY <1>3 DEF HandReplayed, Hand
  <2>2. \A t \in Source : carried'[t] = carried[t] \/ carried'[t] = NoEnv
    BY <2>1 DEF TypeOK
  <2> QED BY <1>3, <2>2 DEF Phases, HandReplayed, Source
<1>4. CASE StartAccepting
  BY <1>4 DEF TypeOK, Phases, StartAccepting, BackfillOver
<1>5. CASE AcceptFails
  BY <1>5 DEF TypeOK, Phases, AcceptFails
<1>6. CASE Register
  BY <1>6, Numbers DEF TypeOK, Phases, Register, TooLate
<1>7. CASE Discard
  BY <1>7 DEF TypeOK, Phases, Discard, TooLate
<1>8. CASE Return
  BY <1>8 DEF TypeOK, Phases, Return
<1>9. ASSUME NEW s \in Session, Dial(s) PROVE Phases'
  BY <1>9 DEF TypeOK, Phases, Dial
<1>10. ASSUME NEW s \in Session, Accept(s) PROVE Phases'
  BY <1>10, Numbers DEF TypeOK, Phases, Accept
<1>11. ASSUME NEW s \in Session, ShimEnds(s) PROVE Phases'
  BY <1>11 DEF TypeOK, Phases, ShimEnds
<1>12. ASSUME NEW s \in Session, Receive(s) PROVE Phases'
  <2> DEFINE e == [session |-> s, seq |-> Least(queue[s])]
  <2>1. carried' = carried \/ carried' = [carried EXCEPT ![s] = e]
    BY <1>12 DEF Receive, Gate
  <2>2. goroutine[s] = "decode" /\ UNCHANGED <<goroutine, main, rest, files, ctx, accepted>>
    BY <1>12 DEF Receive
  <2>3. carried'[Backfiller] = carried[Backfiller]
    BY <2>1, Numbers DEF TypeOK, Source
  <2>4. \A t \in Session : carried'[t] = carried[t] \/ (t = s /\ carried'[t] = e)
    BY <2>1, Numbers DEF TypeOK, Source
  <2> QED BY <2>2, <2>3, <2>4 DEF Phases
<1>13. ASSUME NEW s \in Session, HandReceived(s) PROVE Phases'
  <2>1. carried' = [carried EXCEPT ![s] = NoEnv]
    BY <1>13 DEF HandReceived, Hand
  <2>2. \A t \in Source : carried'[t] = carried[t] \/ carried'[t] = NoEnv
    BY <2>1 DEF TypeOK
  <2> QED BY <1>13, <2>2 DEF Phases, HandReceived, Source
<1>14. ASSUME NEW s \in Session, EndConn(s) PROVE Phases'
  BY <1>14 DEF TypeOK, Phases, EndConn
<1>15. CASE Cancel
  BY <1>15 DEF TypeOK, Phases, Cancel
<1>16. CASE CloseListener
  BY <1>16 DEF TypeOK, Phases, CloseListener
<1>17. CASE HangUp
  BY <1>17 DEF TypeOK, Phases, HangUp, HangUpOn
<1>18. CASE UNCHANGED vars
  BY <1>18 DEF TypeOK, Phases, vars
<1> QED BY <1>1, <1>2, <1>3, <1>4, <1>5, <1>6, <1>7, <1>8, <1>9, <1>10, <1>11, <1>12, <1>13, <1>14, <1>15, <1>16, <1>17, <1>18 DEF Next

(* What is replayed, kept and handed on. *)
Flow == Replaying /\ MarksFromLogs /\ OnlySeenRefused /\ BelowMark

(* Most of what Run and the shims do leaves the flow of envelopes alone. *)
LEMMA QuietStep ==
  ASSUME Flow, main' = "backfill" => main = "backfill",
         UNCHANGED <<disk, queue, files, rest, marks, swept, passed, refused, handled, carried>>
  PROVE  Flow'
BY DEF Flow, Replaying, MarksFromLogs, OnlySeenRefused, BelowMark, Covered

(* backfill opens a log: none of it was passed, and all of it is ahead of the mark. *)
LEMMA OpenLogStep == HubInv /\ OpenLog => Flow'
<1> SUFFICES ASSUME HubInv, OpenLog PROVE Flow'
  OBVIOUS
<1> USE DEF HubInv, lifeVars, seenVars
<1> DEFINE l == Least(files)
<1>1. /\ files # {} /\ rest = {} /\ main = "backfill"
      /\ files' = files \ {l} /\ rest' = {[session |-> l, seq |-> n] : n \in disk[l]}
      /\ UNCHANGED <<disk, queue, main, marks, swept, passed, refused, handled, carried>>
  BY DEF OpenLog, Phases
<1>2. l \in files /\ l \in Session
  BY <1>1, Numbers, LeastIsLeast DEF TypeOK
<1> HIDE DEF l
<1>3. marks[l] = 0 /\ \A n \in disk[l] : n \in Nat /\ 0 < n
  BY <1>1, <1>2, Numbers DEF Replaying, TypeOK
<1>4. \A e \in rest' : e.session = l /\ e.seq \in disk[l]
  BY <1>1
<1>5. Replaying'
  <2>1. \A s \in files' : marks'[s] = 0
    BY <1>1 DEF Replaying
  <2>2. \A e \in rest' : /\ e.seq \in disk'[e.session] /\ marks'[e.session] < e.seq
                         /\ e.session \notin files'
    BY <1>1, <1>3, <1>4
  <2>3. \A e \in rest' : Covered(e.session)'
    <3> TAKE e \in rest'
    <3>1. e.session = l
      BY <1>4
    <3> QED BY <1>1, <3>1 DEF Covered
  <2>4. \A e, f \in rest' : e.session = f.session
    BY <1>4
  <2> QED BY <2>1, <2>2, <2>3, <2>4 DEF Replaying
<1>6. MarksFromLogs'
  BY <1>1 DEF MarksFromLogs, Covered
<1>7. OnlySeenRefused' /\ BelowMark'
  BY <1>1 DEF OnlySeenRefused, BelowMark
<1> QED BY <1>5, <1>6, <1>7 DEF Flow

(* An envelope that passes the gate is above all its session handed on before. *)
LEMMA PassKeepsOrder ==
  ASSUME HubInv, NEW x \in Source, NEW e \in Envelope, Gate(x, e), UNCHANGED handled,
         \A y \in Source : carried[y].session = e.session => y = x
  PROVE  BelowMark'
<1> USE DEF HubInv
<1>1. MarksTypeOK' /\ e.session \in Session
  BY GateFacts, Numbers
<1>2. CASE UNCHANGED <<marks, swept, passed, carried>>
  BY <1>2 DEF BelowMark
<1>3. CASE /\ marks[e.session] < e.seq /\ marks'[e.session] = e.seq
           /\ \A u \in Session \ {e.session} : marks'[u] = marks[u] \/ (marks'[u] = 0 /\ u \in swept')
           /\ swept \subseteq swept' /\ (e.session \in swept' => e.session \in swept)
           /\ carried' = [carried EXCEPT ![x] = e]
  <2> SUFFICES ASSUME NEW s \in Session \ swept'
               PROVE  /\ Rising(handled[s])
                      /\ \A i \in 1 .. Len(handled[s]) : handled[s][i] <= marks'[s]
                      /\ \A y \in Source : carried'[y].session = s =>
                           /\ carried'[y].seq <= marks'[s]
                           /\ \A i \in 1 .. Len(handled[s]) : handled[s][i] < carried'[y].seq
    BY DEF BelowMark
  <2>1. s \in Session \ swept
    BY <1>3
  <2>2. /\ Rising(handled[s])
        /\ \A i \in 1 .. Len(handled[s]) : handled[s][i] <= marks[s]
        /\ \A y \in Source : carried[y].session = s =>
             /\ carried[y].seq <= marks[s]
             /\ \A i \in 1 .. Len(handled[s]) : handled[s][i] < carried[y].seq
    BY <2>1 DEF BelowMark
  <2>3. /\ \A i \in 1 .. Len(handled[s]) : handled[s][i] \in Nat
        /\ marks[s] \in Nat /\ e.seq \in Nat
    <3>1. handled[s] \in Seq(FrameNo) /\ marks[s] \in FrameNo \cup {0} /\ e.seq \in FrameNo
      BY Numbers DEF TypeOK
    <3> HIDE DEF HubInv
    <3>2. \A i \in 1 .. Len(handled[s]) : handled[s][i] \in FrameNo
      BY <3>1
    <3> QED BY <3>1, <3>2, Numbers
  <2>4. \A y \in Source : IF y = x THEN carried'[y] = e ELSE carried'[y] = carried[y]
    BY <1>3 DEF TypeOK
  <2>5. CASE s = e.session
    <3>1. \A i \in 1 .. Len(handled[s]) : handled[s][i] < e.seq
      BY <1>3, <2>2, <2>3, <2>5
    <3>2. \A y \in Source : carried'[y].session = s => carried'[y] = e
      BY <2>4, <2>5
    <3> QED BY <1>3, <2>2, <2>3, <2>5, <3>1, <3>2
  <2>6. CASE s # e.session
    <3>1. marks'[s] = marks[s]
      BY <1>3, <2>6
    <3>2. \A y \in Source : carried'[y].session = s => carried'[y] = carried[y]
      BY <2>4, <2>6
    <3> QED BY <2>2, <3>1, <3>2
  <2> QED BY <2>5, <2>6
<1> QED BY <1>2, <1>3, GateFacts

(* Who hands on a session's envelopes: its log's replay, or later its connection. *)
LEMMA OneCarrier ==
  ASSUME HubInv, NEW x \in Source, NEW y \in Source, NEW s \in Session,
         carried[x].session = s, carried[y].session = s
  PROVE  x = y
<1> USE DEF HubInv
<1>1. \A z \in Source : carried[z].session = s => carried[z] # NoEnv /\ (z = s \/ z = Backfiller)
  <2> SUFFICES ASSUME NEW z \in Source, carried[z].session = s
               PROVE  carried[z] # NoEnv /\ (z = s \/ z = Backfiller)
    OBVIOUS
  <2>1. carried[z] # NoEnv
    BY Numbers DEF NoEnv
  <2> QED BY <2>1 DEF Phases, Source
<1>2. carried[Backfiller] # NoEnv => \A t \in Session : carried[t] = NoEnv
  BY DEF Phases
<1> QED BY <1>1, <1>2

(* One frame of the log being replayed reaches the gate, the least that is left. *)
LEMMA ReplayFrameStep == HubInv /\ ReplayFrame => Flow'
<1> SUFFICES ASSUME HubInv, ReplayFrame PROVE Flow'
  OBVIOUS
<1> USE DEF HubInv, lifeVars
<1>1. PICK e \in rest : /\ \A f \in rest : e.seq <= f.seq
                        /\ Gate(Backfiller, e) /\ rest' = rest \ {e}
  BY DEF ReplayFrame
<1>2. /\ carried[Backfiller] = NoEnv /\ main = "backfill" /\ Backfiller \in Source
      /\ UNCHANGED <<disk, queue, files, handled, main>>
  BY <1>1 DEF ReplayFrame, Phases, Source
<1>3. e \in Envelope /\ e.session \in Session /\ e.seq \in FrameNo /\ e.seq \in Nat
  BY Numbers DEF TypeOK
<1>4. /\ e.seq \in disk[e.session] /\ marks[e.session] < e.seq /\ e.session \notin files
      /\ Covered(e.session)
  BY DEF Replaying
<1>5. MarksTypeOK'
  BY <1>1, <1>2, <1>3, GateFacts
<1>6. /\ marks'[e.session] = e.seq
      /\ \A u \in Session \ {e.session} : marks'[u] = marks[u] \/ marks'[u] = 0
      /\ passed' = passed \cup {e} /\ refused' = refused
  <2>1. marks[e.session] \in Nat
    <3>1. marks[e.session] \in FrameNo \cup {0}
      BY <1>3 DEF TypeOK
    <3> QED BY <3>1, Numbers
  <2>2. ~(e.seq <= marks[e.session])
    BY <1>3, <1>4, <2>1
  <2> QED BY <1>1, <1>2, <1>3, <2>2, GateFacts
<1>7. BelowMark'
  <2>1. \A y \in Source : carried[y] = NoEnv
    BY <1>2 DEF Phases, Source
  <2>2. \A y \in Source : carried[y].session # e.session
    BY <1>3, <2>1, Numbers DEF NoEnv
  <2> QED BY <1>1, <1>2, <1>3, <2>2, PassKeepsOrder
<1>8. \A s \in Session : Covered(s) => Covered(s)'
  BY <1>1, <1>2, <1>6 DEF Covered
<1>9. Replaying'
  <2>1. \A s \in files' : marks'[s] = 0
    <3>1. \A s \in files : s \in Session /\ s # e.session /\ marks[s] = 0
      BY <1>2, <1>4 DEF Replaying, TypeOK
    <3> QED BY <1>2, <1>6, <3>1
  <2>2. ASSUME NEW f \in rest' PROVE /\ f.seq \in disk[f.session] /\ marks'[f.session] < f.seq
                                     /\ f.session \notin files /\ Covered(f.session)'
    <3>1. f \in rest /\ f # e /\ f \in Envelope /\ f.session = e.session /\ e.seq <= f.seq
      BY <1>1, <2>2 DEF Replaying, TypeOK
    <3>2. f.seq # e.seq /\ f.seq \in Nat
      <4>1. f.seq \in Nat
        BY <3>1, Numbers
      <4>2. f = [session |-> f.session, seq |-> f.seq] /\ e = [session |-> e.session, seq |-> e.seq]
        BY <1>3, <3>1 DEF Envelope
      <4> QED BY <3>1, <4>1, <4>2
    <3>3. marks'[f.session] < f.seq
      BY <1>3, <1>6, <3>1, <3>2
    <3> QED BY <1>3, <1>4, <1>8, <3>1, <3>3 DEF Replaying
  <2>3. \A f, g \in rest' : f.session = g.session
    BY <1>1 DEF Replaying
  <2> QED BY <1>2, <2>1, <2>2, <2>3 DEF Replaying
<1>10. MarksFromLogs'
  <2> SUFFICES ASSUME NEW s \in Session, NEW n \in queue[s]
               PROVE  marks'[s] < n \/ (marks'[s] \in disk[s] /\ Covered(s)')
    BY <1>2 DEF MarksFromLogs
  <2>1. CASE s = e.session
    BY <1>4, <1>6, <1>8, <2>1
  <2>2. CASE s # e.session /\ marks'[s] = marks[s]
    BY <1>8, <2>2 DEF MarksFromLogs
  <2>3. CASE marks'[s] = 0
    <3>1. n \in FrameNo
      BY DEF TypeOK
    <3> QED BY <2>3, <3>1, Numbers
  <2> QED BY <1>6, <2>1, <2>2, <2>3
<1>11. OnlySeenRefused'
  BY <1>2, <1>6 DEF OnlySeenRefused
<1> QED BY <1>7, <1>9, <1>10, <1>11 DEF Flow

(* handleConn decodes what its shim sends next, which the gate passes or refuses. *)
LEMMA ReceiveStep == ASSUME HubInv, NEW s \in Session, Receive(s) PROVE Flow'
<1> USE DEF HubInv, lifeVars
<1> DEFINE l == Least(queue[s])
           e == [session |-> s, seq |-> l]
<1>1. l \in queue[s] /\ l \in FrameNo /\ l \in Nat /\ \A n \in queue[s] : l <= n /\ n \in Nat
  <2>1. queue[s] # {} /\ queue[s] \subseteq FrameNo /\ queue[s] \subseteq Nat
    BY Numbers DEF Receive, TypeOK
  <2> QED BY <2>1, LeastIsLeast
<1>2. /\ Gate(s, e) /\ goroutine[s] = "decode" /\ carried[s] = NoEnv
      /\ queue' = [queue EXCEPT ![s] = @ \ {l}]
      /\ UNCHANGED <<disk, files, rest, handled, main>>
  BY DEF Receive
<1> HIDE DEF l
<1>3. e \in Envelope /\ s \in Source /\ e.session = s /\ e.seq = l
  BY <1>1 DEF Envelope, Source
<1> HIDE DEF e
<1>4. main # "backfill" /\ rest = {} /\ carried[Backfiller] = NoEnv
  BY <1>2 DEF Phases
<1>5. marks[s] \in Nat /\ \A u \in Session : queue'[u] \subseteq queue[u] /\ queue[u] \subseteq Nat \ {0}
  <2>1. marks[s] \in FrameNo \cup {0} /\ \A u \in Session : queue[u] \subseteq FrameNo
    BY DEF TypeOK
  <2>2. \A u \in Session : queue'[u] \subseteq queue[u]
    BY <1>2 DEF TypeOK
  <2>3. marks[s] \in Nat
    BY <2>1, Numbers
  <2>4. \A u \in Session : queue[u] \subseteq Nat \ {0}
    <3> SUFFICES ASSUME NEW u \in Session, NEW n \in queue[u] PROVE n \in Nat \ {0}
      OBVIOUS
    <3>1. n \in FrameNo
      BY <2>1
    <3> QED BY <3>1, Numbers
  <2> QED BY <2>2, <2>3, <2>4
<1>6. BelowMark'
  <2>1. \A y \in Source : carried[y].session = s => y = s
    <3> SUFFICES ASSUME NEW y \in Source, carried[y].session = s PROVE y = s
      OBVIOUS
    <3>1. carried[y] # NoEnv
      BY Numbers DEF NoEnv
    <3> QED BY <1>4, <3>1 DEF Phases, Source
  <2> QED BY <1>2, <1>3, <2>1, PassKeepsOrder
<1>7. Replaying'
  BY <1>2, <1>4 DEF Replaying
<1>8. CASE /\ e.seq <= marks[s] /\ refused' = refused \cup {e} /\ UNCHANGED <<marks, swept, passed, carried>>
  <2>1. \A u \in Session : Covered(u) => Covered(u)'
    BY <1>2, <1>8 DEF Covered
  <2>2. MarksFromLogs'
    BY <1>2, <1>5, <1>8, <2>1 DEF MarksFromLogs
  <2>3. marks[s] \in disk[s] /\ Covered(s)
    BY <1>1, <1>3, <1>5, <1>8 DEF MarksFromLogs
  <2>4. e \notin passed => l \notin disk[s]
    BY <1>3, <1>4, <2>3 DEF Covered, e
  <2>5. e \notin passed => l \notin disk[s] /\ marks[s] > l
    BY <1>1, <1>3, <1>5, <1>8, <2>3, <2>4
  <2>6. OnlySeenRefused'
    BY <1>2, <1>3, <1>8, <2>3, <2>5 DEF OnlySeenRefused
  <2> QED BY <1>6, <1>7, <2>2, <2>6 DEF Flow
<1>9. CASE /\ marks'[s] = l /\ passed' = passed \cup {e} /\ refused' = refused
           /\ \A u \in Session \ {s} : marks'[u] = marks[u] \/ marks'[u] = 0
  <2>1. \A u \in Session : Covered(u) => Covered(u)'
    BY <1>2, <1>9 DEF Covered
  <2>2. MarksFromLogs'
    <3> SUFFICES ASSUME NEW u \in Session, NEW n \in queue'[u]
                 PROVE  marks'[u] < n \/ (marks'[u] \in disk[u] /\ Covered(u)')
      BY <1>2 DEF MarksFromLogs
    <3>1. CASE u = s
      <4>1. n \in queue[s] /\ n # l
        BY <1>2, <3>1 DEF TypeOK
      <4> QED BY <1>1, <1>9, <3>1, <4>1
    <3>2. CASE u # s /\ marks'[u] = marks[u]
      BY <1>5, <2>1, <3>2 DEF MarksFromLogs
    <3>3. CASE marks'[u] = 0
      BY <1>5, <3>3
    <3> QED BY <1>9, <3>1, <3>2, <3>3
  <2>3. OnlySeenRefused'
    BY <1>2, <1>9 DEF OnlySeenRefused
  <2> QED BY <1>6, <1>7, <2>2, <2>3 DEF Flow
<1> QED BY <1>2, <1>3, <1>8, <1>9, GateFacts

(* Handing on the envelope carried keeps the order. *)
LEMMA HandStep ==
  ASSUME HubInv, NEW x \in Source, Hand(x),
         UNCHANGED <<disk, queue, files, rest, main, marks, swept, passed, refused>>
  PROVE  Flow'
<1> USE DEF HubInv
<1> DEFINE e == carried[x]
<1>1. e \in Envelope /\ e.session \in Session /\ e.seq \in FrameNo /\ e.seq \in Nat
  <2>1. e \in Envelope
    BY DEF Hand, TypeOK
  <2> QED BY <2>1, Numbers
<1>2. /\ handled' = [handled EXCEPT ![e.session] = Append(handled[e.session], e.seq)]
      /\ carried' = [carried EXCEPT ![x] = NoEnv]
  BY DEF Hand
<1>3. \A y \in Source : carried'[y] = IF y = x THEN NoEnv ELSE carried[y]
  BY <1>2 DEF TypeOK
<1>4. Replaying' /\ MarksFromLogs' /\ OnlySeenRefused'
  BY DEF Replaying, MarksFromLogs, OnlySeenRefused, Covered
<1> HIDE DEF e
<1>5. BelowMark'
  <2> SUFFICES ASSUME NEW s \in Session \ swept
               PROVE  /\ Rising(handled'[s])
                      /\ \A i \in 1 .. Len(handled'[s]) : handled'[s][i] <= marks[s]
                      /\ \A y \in Source : carried'[y].session = s =>
                           /\ carried'[y].seq <= marks[s]
                           /\ \A i \in 1 .. Len(handled'[s]) : handled'[s][i] < carried'[y].seq
    BY DEF BelowMark
  <2>1. /\ Rising(handled[s])
        /\ \A i \in 1 .. Len(handled[s]) : handled[s][i] <= marks[s]
        /\ \A y \in Source : carried[y].session = s =>
             /\ carried[y].seq <= marks[s]
             /\ \A i \in 1 .. Len(handled[s]) : handled[s][i] < carried[y].seq
    BY DEF BelowMark
  <2>2. CASE s = e.session
    <3>1. /\ handled[s] \in Seq(FrameNo) /\ handled'[s] = Append(handled[s], e.seq)
      BY <1>1, <1>2, <2>2 DEF TypeOK
    <3>2. /\ Len(handled'[s]) = Len(handled[s]) + 1 /\ handled'[s][Len(handled[s]) + 1] = e.seq
          /\ \A i \in 1 .. Len(handled[s]) : handled'[s][i] = handled[s][i]
          /\ Len(handled[s]) \in Nat
      BY <1>1, <3>1
    <3>3. e.seq <= marks[s] /\ \A i \in 1 .. Len(handled[s]) : handled[s][i] < e.seq
      BY <2>1, <2>2 DEF e
    <3>4. Rising(handled'[s])
      <4> SUFFICES ASSUME NEW i \in 1 .. Len(handled'[s]), NEW j \in 1 .. Len(handled'[s]), i < j
                   PROVE  handled'[s][i] < handled'[s][j]
        BY DEF Rising
      <4>1. i \in 1 .. Len(handled[s]) /\ (j \in 1 .. Len(handled[s]) \/ j = Len(handled[s]) + 1)
        BY <3>2
      <4> QED BY <2>1, <3>2, <3>3, <4>1 DEF Rising
    <3>5. \A i \in 1 .. Len(handled'[s]) : handled'[s][i] <= marks[s]
      <4>1. \A i \in 1 .. Len(handled[s]) : handled[s][i] <= marks[s]
        BY <2>1
      <4>2. \A i \in 1 .. Len(handled'[s]) : i \in 1 .. Len(handled[s]) \/ i = Len(handled[s]) + 1
        BY <3>2
      <4> QED BY <3>2, <3>3, <4>1, <4>2
    <3>6. \A y \in Source : carried'[y].session # s
      <4> TAKE y \in Source
      <4>1. y # x => carried[y].session # s
        BY <2>2, OneCarrier DEF e
      <4> QED BY <1>3, <4>1, Numbers DEF NoEnv
    <3> QED BY <3>4, <3>5, <3>6
  <2>3. CASE s # e.session
    <3>1. handled'[s] = handled[s]
      BY <1>1, <1>2, <2>3 DEF TypeOK
    <3>2. \A y \in Source : carried'[y].session = s => carried'[y] = carried[y]
      BY <1>3, Numbers DEF NoEnv
    <3> QED BY <2>1, <3>1, <3>2
  <2> QED BY <2>2, <2>3
<1> QED BY <1>4, <1>5 DEF Flow

(* Every step keeps the flow in order. *)
LEMMA FlowStep == HubInv /\ [Next]_vars => Flow'
<1> SUFFICES ASSUME HubInv, [Next]_vars PROVE Flow'
  OBVIOUS
<1> USE DEF lifeVars, seenVars
<1>0. Flow
  BY DEF HubInv, Flow
<1>1. CASE OpenLog
  BY <1>1, OpenLogStep
<1>2. CASE ReplayFrame
  BY <1>2, ReplayFrameStep
<1>3. CASE HandReplayed
  <2>1. Backfiller \in Source
    BY DEF Source
  <2> QED BY <1>3, <2>1, HandStep DEF HandReplayed
<1>4. ASSUME NEW s \in Session, Receive(s) PROVE Flow'
  BY <1>4, ReceiveStep
<1>5. ASSUME NEW s \in Session, HandReceived(s) PROVE Flow'
  <2>1. s \in Source
    BY DEF Source
  <2> QED BY <1>5, <2>1, HandStep DEF HandReceived
<1>6. ASSUME NEW s \in Session, Dial(s) \/ Accept(s) \/ ShimEnds(s) \/ EndConn(s) PROVE Flow'
  <2>1. /\ main' = "backfill" => main = "backfill"
        /\ UNCHANGED <<disk, queue, files, rest, marks, swept, passed, refused, handled, carried>>
    BY <1>6 DEF Dial, Accept, ShimEnds, EndConn
  <2> QED BY <1>0, <2>1, QuietStep
<1>7. CASE StartAccepting \/ AcceptFails \/ Register \/ Discard \/ Return
  <2>1. /\ main' # "backfill"
        /\ UNCHANGED <<disk, queue, files, rest, marks, swept, passed, refused, handled, carried>>
    BY <1>7 DEF StartAccepting, AcceptFails, Register, Discard, Return
  <2> QED BY <1>0, <2>1, QuietStep
<1>8. CASE Cancel \/ CloseListener \/ HangUp \/ UNCHANGED vars
  <2>1. /\ main' = main
        /\ UNCHANGED <<disk, queue, files, rest, marks, swept, passed, refused, handled, carried>>
    BY <1>8 DEF Cancel, CloseListener, HangUp, vars
  <2> QED BY <1>0, <2>1, QuietStep
<1> QED BY <1>1, <1>2, <1>3, <1>4, <1>5, <1>6, <1>7, <1>8 DEF Next

(* The inductive invariant holds throughout (Run, backfill, handleConn, emitFrom). *)
THEOREM HubInvariance == Spec => []HubInv
<1>1. HubInv /\ [Next]_vars => HubInv'
  BY TypeStep, PhasesStep, FlowStep DEF HubInv, Flow
<1> QED BY HubInitInv, <1>1, PTL DEF Spec

(* Whatever order logs and live streams arrive in, a session's frames are handed on once and in order
   as long as the map of marks remembers the session (emitFrom). *)
THEOREM HandledOnceInOrder == Spec => []OnceInOrder
<1>1. HubInv => OnceInOrder
  <2> SUFFICES ASSUME HubInv, NEW s \in Session \ swept PROVE Ascending(s)
    BY DEF OnceInOrder
  <2>1. Rising(handled[s]) /\ Len(handled[s]) \in Nat
    BY DEF HubInv, BelowMark, TypeOK
  <2> QED BY <2>1 DEF Rising, Ascending
<1> QED BY HubInvariance, <1>1, PTL

(* The map of marks keeps its bound and its entries, and the gate turns away only what was handed on
   before or what its log lacks while holding later ones (emitFrom, sweepSeen). *)
THEOREM MarksAreExact == Spec => []MarksExact
<1>1. HubInv => MarksExact
  BY DEF HubInv, MarksExact
<1> QED BY HubInvariance, <1>1, PTL

=============================================================================
