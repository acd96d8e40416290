-------------------------- MODULE CallStoreProofs --------------------------
(***************************************************************************)
(* The correlation of calls, for any clients, connections, ids, tasks,     *)
(* tools and answers, and any number of calls.                             *)
(*                                                                         *)
(* That the books agree with the calls is inductive only with what the     *)
(* store's pointers mean.  An id, a task, an attempt and a parked entry    *)
(* name a call there is (StoreFormed).  The marks of an outcome go with    *)
(* the state they are on, so that a frame that ends a call counts an error *)
(* at most once (Marks).  A task is known by a call that was handed off,   *)
(* which no answer settles (HandlesGiven): without that the end of a task  *)
(* could take a slot back that an answer already gave.  The attempt kept   *)
(* for a signature is its newest call exactly while that is undecided      *)
(* (AttemptsKept).                                                         *)
(*                                                                         *)
(* Every frame either opens one call (Opening) or moves the calls there    *)
(* are as Becomes says (Frame); StoreStep is the two, and what a frame may *)
(* never do to an outcome follows from it alone.                           *)
(***************************************************************************)
EXTENDS CallStore, FiniteSetTheorems, FunctionTheorems, TLAPS

(* A call as the store keeps it. *)
Entry == [dir : Dir, id : Id \cup {NullId}, conn : Conn, exch : Nat,
          method : {"tool", "listen", "tasks", "list", "other"}, sig : Signature \cup {NoSig},
          closes : BOOLEAN, state : State, task : Task \cup {NoTask}, late : BOOLEAN,
          errored : BOOLEAN, failure : {"none", "refused", "upstream"}, asked : Asks,
          retired : BOOLEAN, retryOf : Nat, counted : Nat,
          name : (Id \cup {NullId}) \X Conn, via : Nat, named : BOOLEAN]

Post == [conn : Conn, opened : SUBSET Nat, continued : SUBSET Nat, done : BOOLEAN]

(* What the store keeps is well formed, and everything it points at exists. *)
StoreFormed ==
  /\ scene \in Scene
  /\ calls \in Seq(Entry) /\ Len(calls) <= scene.most
  /\ held \in [Key -> {Nobody} \cup Known] /\ tasks \in [Task -> {Nobody} \cup Known]
  /\ attempts \in [Signature -> {Nobody} \cup Known]
  /\ awaiting \in Seq(Nat) /\ \A i \in DOMAIN awaiting : awaiting[i] \in Known
  /\ \A c \in Known : calls[c].retryOf < c

(* So is what the model knows of the peers. *)
PeersFormed ==
  /\ posts \in Seq(Post) /\ \A x \in DOMAIN posts : Carried(x) \subseteq Known
  /\ \A c \in Known : calls[c].exch <= Len(posts)
  /\ over \subseteq Known /\ answered \subseteq Known /\ LostCalls \subseteq Known

(* What the marks of an outcome say about the state they are on. *)
Marks ==
  \A c \in Known :
    /\ calls[c].late => Is(c, "cancelled")
    /\ calls[c].errored => Is(c, "failed") \/ calls[c].late
    /\ calls[c].failure # "none" => Is(c, "failed")
    /\ calls[c].counted = IF calls[c].errored THEN 1 ELSE 0

(* A task is known by the call whose answer was its handle. *)
HandlesGiven == \A t \in Task : tasks[t] # Nobody => HandedOff(tasks[t])

(* Still a candidate to be repeated. *)
Undecided(c) ==
  /\ ~HandedOff(c) /\ ~Is(c, "completed")
  /\ Is(c, "failed") => calls[c].failure = "upstream"

Newest(c) == \A d \in Known : calls[d].sig = calls[c].sig => d <= c

AttemptsKept ==
  \A s \in Signature, c \in Known :
    attempts[s] = c <=> calls[c].sig = s /\ Newest(c) /\ Undecided(c)

Books    == StoreFormed /\ Marks /\ HandlesGiven /\ AttemptsKept /\ PendingExact /\ ParkedOnce
StoreInv == Books /\ PeersFormed

-----------------------------------------------------------------------------
(* What a frame may do to a call. *)
Ongoing == {"pending", "streaming"}
Outcomes   == {"completed", "failed", "cancelled", "superseded"}

Stays(o, n) ==
  /\ n.state = o.state /\ n.late = o.late /\ n.errored = o.errored
  /\ n.failure = o.failure /\ n.counted = o.counted

Finishes(o, n) ==
  /\ o.state \in Ongoing /\ n.state \in Outcomes /\ n.late = o.late
  /\ n.counted = o.counted + (IF n.errored THEN 1 ELSE 0)
  /\ n.errored \/ n.failure # "none" => n.state = "failed"

ComesLate(o, n) ==
  /\ o.state = "cancelled" /\ n.state = "cancelled" /\ ~o.late /\ n.late
  /\ n.failure = o.failure
  /\ n.counted = o.counted + (IF n.errored THEN 1 ELSE 0)

Becomes(o, n) ==
  /\ n.sig = o.sig /\ n.method = o.method /\ n.retryOf = o.retryOf /\ n.exch = o.exch
  /\ o.method = "tool" /\ o.task # NoTask => n.task = o.task
  /\ Stays(o, n) \/ Finishes(o, n) \/ ComesLate(o, n)

(* A frame that opens no call: late is the one that may be answered late. *)
Frame(late) ==
  /\ calls' \in Seq(Entry) /\ Len(calls') = Len(calls)
  /\ \A c \in Known :
       /\ Becomes(calls[c], calls'[c])
       /\ ComesLate(calls[c], calls'[c]) => c = late
       /\ calls'[c].state = "superseded" => Is(c, "superseded")

-----------------------------------------------------------------------------
(* The calls are numbered from 1. *)
LEMMA KnownIs ==
  ASSUME StoreFormed
  PROVE  /\ Len(calls) \in Nat /\ Known = 1 .. Len(calls) /\ Known \subseteq Nat /\ Nobody \notin Known
         /\ IsFiniteSet(Known)
         /\ \A c \in Known : calls[c] \in Entry
<1>1. calls \in Seq(Entry)
  BY DEF StoreFormed
<1>2. Len(calls) \in Nat /\ Known = 1 .. Len(calls) /\ \A c \in Known : calls[c] \in Entry
  BY <1>1 DEF Known
<1>3. IsFiniteSet(1 .. Len(calls))
  BY <1>2, FS_Interval
<1> QED BY <1>2, <1>3 DEF Nobody

(* A set of one member, as it is chosen. *)
LEMMA OnlyOne ==
  ASSUME NEW S, Cardinality(S) = 1, IsFiniteSet(S)
  PROVE  (CHOOSE c \in S : TRUE) \in S
<1>1. S # {}
  BY FS_EmptySet
<1> QED BY <1>1

(* What the store finds is a call it has. *)
LEMMA FindsKnown ==
  ASSUME StoreFormed, NEW dir \in Dir, NEW id \in Id, NEW conn \in Conn, NEW waiting \in SUBSET Known
  PROVE  FindCall(dir, id, conn, waiting) \in {Nobody} \cup Known
<1> DEFINE elsewhere == {held[<<dir, id, k>>] : k \in Conn} \cap waiting
<1>1. held[<<dir, id, conn>>] \in {Nobody} \cup Known
  BY DEF StoreFormed, Key
<1>2. elsewhere \subseteq Known /\ IsFiniteSet(elsewhere)
  BY KnownIs, FS_Subset
<1>3. Cardinality(elsewhere) = 1 => (CHOOSE c \in elsewhere : TRUE) \in Known
  BY <1>2, OnlyOne
<1> HIDE DEF elsewhere
<1>4. FindCall(dir, id, conn, waiting) =
        IF held[<<dir, id, conn>>] # Nobody \/ conn = Stdio THEN held[<<dir, id, conn>>]
        ELSE IF Cardinality(elsewhere) = 1 THEN CHOOSE c \in elsewhere : TRUE ELSE Nobody
  BY DEF FindCall, elsewhere
<1> QED BY <1>1, <1>3, <1>4

(* So is the one request of an exchange, and the parked call a retry is taken for. *)
LEMMA ExchangeKnown == ASSUME StoreFormed, NEW x PROVE ExchangeRequest(x) \in {Nobody} \cup Known
<1> DEFINE waiting == {c \in InMap : calls[c].exch = x /\ calls[c].dir = "c2s" /\ Awaits(c)}
<1>1. waiting \subseteq Known /\ IsFiniteSet(waiting)
  BY KnownIs, FS_Subset DEF InMap
<1>2. Cardinality(waiting) = 1 => (CHOOSE c \in waiting : TRUE) \in Known
  BY <1>1, OnlyOne
<1> HIDE DEF waiting
<1>3. ExchangeRequest(x) = IF Cardinality(waiting) = 1 THEN CHOOSE c \in waiting : TRUE ELSE Nobody
  BY DEF ExchangeRequest, waiting
<1> QED BY <1>2, <1>3

(* What fits alone is one of the parked. *)
LEMMA FitKnown == ASSUME StoreFormed, NEW fits \in SUBSET Parked PROVE OnlyFit(fits) \in {Nobody} \cup Parked
<1>1. Parked \subseteq Known
  BY DEF Parked, ToSet, StoreFormed
<1>2. IsFiniteSet(fits)
  BY <1>1, KnownIs, FS_Subset
<1> QED BY <1>2, OnlyOne DEF OnlyFit

(* A retry is taken for a parked call or for none. *)
LEMMA MatchKnown ==
  ASSUME StoreFormed, NEW r, NEW method, NEW echo, NEW keys
  PROVE  MatchRetry(r, method, echo, keys) \in {Nobody} \cup Parked
         /\ Parked \subseteq Known
<1> DEFINE wide   == {c \in Parked : keys /\ calls[c].asked.keys /\ calls[c].method = method}
           narrow == {c \in wide : calls[c].asked.state = (echo # "none")}
<1>1. OnlyFit(narrow) \in {Nobody} \cup Parked /\ OnlyFit(wide) \in {Nobody} \cup Parked
  BY FitKnown
<1>2. Parked \subseteq Known
  BY DEF Parked, ToSet, StoreFormed
<1>3. \/ MatchRetry(r, method, echo, keys) = r /\ r \in Parked
      \/ MatchRetry(r, method, echo, keys) \in {OnlyFit(narrow), OnlyFit(wide)}
  BY DEF MatchRetry
<1> HIDE DEF wide, narrow
<1> QED BY <1>1, <1>2, <1>3

-----------------------------------------------------------------------------
(* Counting the pending ones of a list of calls. *)
PendingOf(cs) == {c \in DOMAIN cs : cs[c].state = "pending"}

(* The pending calls are a finite set and PendingIn counts it. *)
LEMMA PendingIsCounted ==
  ASSUME NEW cs \in Seq(Entry)
  PROVE  /\ PendingIn(cs) = Cardinality(PendingOf(cs))
         /\ IsFiniteSet(PendingOf(cs)) /\ PendingIn(cs) \in Nat
<1>1. DOMAIN cs = 1 .. Len(cs) /\ Len(cs) \in Nat
  OBVIOUS
<1>2. IsFiniteSet(DOMAIN cs)
  BY <1>1, FS_Interval
<1>3. IsFiniteSet(PendingOf(cs)) /\ Cardinality(PendingOf(cs)) \in Nat
  BY <1>2, FS_Subset, FS_CardinalityType DEF PendingOf
<1> QED BY <1>3 DEF PendingIn, PendingOf

(* Those of F that were pending are no longer counted. *)
LEMMA PendingLoses ==
  ASSUME NEW cs \in Seq(Entry), NEW ds \in Seq(Entry), Len(cs) = Len(ds), NEW F,
         \A c \in DOMAIN cs : ds[c].state = "pending" <=> cs[c].state = "pending" /\ c \notin F
  PROVE  PendingIn(ds) = PendingIn(cs) - Cardinality({c \in F \cap DOMAIN cs : cs[c].state = "pending"})
<1>1. DOMAIN cs = DOMAIN ds
  OBVIOUS
<1>2. PendingOf(ds) = PendingOf(cs) \ F
  BY <1>1 DEF PendingOf
<1>3. PendingOf(cs) \cap F = {c \in F \cap DOMAIN cs : cs[c].state = "pending"}
  BY DEF PendingOf
<1>4. Cardinality(PendingOf(cs) \ F) = Cardinality(PendingOf(cs)) - Cardinality(PendingOf(cs) \cap F)
  BY PendingIsCounted, FS_Difference
<1>5. PendingIn(cs) = Cardinality(PendingOf(cs)) /\ PendingIn(ds) = Cardinality(PendingOf(ds))
  BY PendingIsCounted
<1> QED BY <1>2, <1>3, <1>4, <1>5

(* A frame that ends no pending call leaves their number alone. *)
LEMMA PendingStays ==
  ASSUME NEW cs \in Seq(Entry), NEW ds \in Seq(Entry), Len(cs) = Len(ds),
         \A c \in DOMAIN cs : ds[c].state = "pending" <=> cs[c].state = "pending"
  PROVE  PendingIn(ds) = PendingIn(cs)
<1>1. DOMAIN cs = DOMAIN ds
  OBVIOUS
<1>2. PendingOf(ds) = PendingOf(cs)
  BY <1>1 DEF PendingOf
<1> QED BY <1>2, PendingIsCounted

(* One that ends call k takes it off the number if it was pending. *)
LEMMA PendingLosesOne ==
  ASSUME NEW cs \in Seq(Entry), NEW ds \in Seq(Entry), Len(cs) = Len(ds), NEW k \in DOMAIN cs,
         ds[k].state # "pending",
         \A c \in DOMAIN cs \ {k} : ds[c].state = "pending" <=> cs[c].state = "pending"
  PROVE  PendingIn(ds) = PendingIn(cs) - (IF cs[k].state = "pending" THEN 1 ELSE 0)
<1>1. DOMAIN cs = DOMAIN ds
  OBVIOUS
<1>2. PendingOf(ds) = PendingOf(cs) \ {k}
  BY <1>1 DEF PendingOf
<1>3. k \in PendingOf(cs) <=> cs[k].state = "pending"
  BY DEF PendingOf
<1> QED BY <1>2, <1>3, PendingIsCounted, FS_RemoveElement

-----------------------------------------------------------------------------
(* A call that is told its outcome is still a call. *)
LEMMA EndedEntry ==
  ASSUME NEW o \in Entry, NEW st \in State, NEW e \in BOOLEAN, NEW v \in Nat
  PROVE  [o EXCEPT !.state = st, !.errored = e, !.counted = v] \in Entry
BY ZenonT(90) DEF Entry

(* And so is one that failed with its exchange. *)
LEMMA FailedEntry ==
  ASSUME NEW o \in Entry, NEW st \in State, NEW why \in {"none", "refused", "upstream"}, NEW v \in Nat
  PROVE  [o EXCEPT !.state = st, !.failure = why, !.errored = TRUE, !.counted = v] \in Entry
BY ZenonT(90) DEF Entry

(* How a task moves its call. *)
TaskMoves(o, n) ==
  /\ o.state = "pending" /\ n.state \in {"completed", "failed"}
  /\ n.errored \in BOOLEAN /\ (n.errored => n.state = "failed")
  /\ n.counted = o.counted + (IF n.errored THEN 1 ELSE 0)
  /\ n.sig = o.sig /\ n.method = o.method /\ n.retryOf = o.retryOf /\ n.exch = o.exch
  /\ n.task = o.task /\ n.late = o.late /\ n.failure = o.failure
  /\ n.asked = o.asked /\ n.retired = o.retired

(* The end of a task moves its call alone, and only while that is pending. *)
LEMMA TaskEnds ==
  ASSUME StoreFormed, NEW cs \in Seq(Entry), Len(cs) = Len(calls),
         NEW t \in Task \cup {NoTask}, NEW status \in Ending \cup {"working"}
  PROVE  /\ EndOfTask(cs, t, status) \in Seq(Entry)
         /\ Len(EndOfTask(cs, t, status)) = Len(cs)
         /\ \A c \in Known :
              \/ EndOfTask(cs, t, status)[c] = cs[c]
              \/ t \in Task /\ c = tasks[t] /\ TaskMoves(cs[c], EndOfTask(cs, t, status)[c])
<1>1. DOMAIN cs = Known /\ \A c \in Known : cs[c] \in Entry
  BY KnownIs
<1>2. CASE ~(t # NoTask /\ HasOpenCall(cs, t) /\ status \in Ending)
  BY <1>2 DEF EndOfTask
<1>3. CASE t # NoTask /\ HasOpenCall(cs, t) /\ status \in Ending
  <2> DEFINE k  == tasks[t]
             st == IF status = "completed" THEN "completed" ELSE "failed"
             e  == status = "failed"
             n  == [cs[k] EXCEPT !.state = st, !.errored = e, !.counted = @ + IF e THEN 1 ELSE 0]
  <2>1. t \in Task /\ k \in Known /\ cs[k].state = "pending"
    BY <1>3 DEF HasOpenCall, StoreFormed
  <2>2. EndOfTask(cs, t, status) = [cs EXCEPT ![k] = n]
    BY <1>1, <1>3, <2>1 DEF EndOfTask
  <2>3. cs[k] \in Entry /\ st \in {"completed", "failed"} /\ e \in BOOLEAN /\ (e => st = "failed")
    BY <1>1, <2>1
  <2>4. n \in Entry
    <3>1. cs[k].counted + (IF e THEN 1 ELSE 0) \in Nat
      BY <2>3, SMTT(30) DEF Entry
    <3>2. st \in State
      BY <2>3 DEF State
    <3> HIDE DEF st, e, k
    <3>3. [cs[k] EXCEPT !.state = st, !.errored = e, !.counted = cs[k].counted + (IF e THEN 1 ELSE 0)] \in Entry
      BY <2>3, <3>1, <3>2, EndedEntry
    <3> QED BY <3>3
  <2>7. TaskMoves(cs[k], n)
    <3> HIDE DEF st, e, k
    <3> QED BY <2>1, <2>3 DEF TaskMoves, Entry
  <2> HIDE DEF n, k
  <2>5. [cs EXCEPT ![k] = n] \in Seq(Entry) /\ Len([cs EXCEPT ![k] = n]) = Len(cs)
    BY <1>1, <2>1, <2>4
  <2>6. \A c \in Known : [cs EXCEPT ![k] = n][c] = IF c = k THEN n ELSE cs[c]
    BY <1>1
  <2> QED BY <2>1, <2>2, <2>5, <2>6, <2>7 DEF k
<1> QED BY <1>2, <1>3

(* That call had been handed off, so no answer settles it a second time. *)
LEMMA TaskMovesItsCall ==
  ASSUME StoreFormed, HandlesGiven, NEW cs \in Seq(Entry), Len(cs) = Len(calls),
         NEW t \in Task \cup {NoTask}, NEW status \in Ending \cup {"working"}, NEW c \in Known
  PROVE  \/ EndOfTask(cs, t, status)[c] = cs[c]
         \/ HandedOff(c) /\ TaskMoves(cs[c], EndOfTask(cs, t, status)[c])
<1>1. \/ EndOfTask(cs, t, status)[c] = cs[c]
      \/ t \in Task /\ c = tasks[t] /\ TaskMoves(cs[c], EndOfTask(cs, t, status)[c])
  BY TaskEnds
<1>2. c # Nobody
  BY KnownIs
<1> QED BY <1>1, <1>2 DEF HandlesGiven

-----------------------------------------------------------------------------
(* What frames that open no call leave as it was. *)
Asking   == UNCHANGED <<awaiting, scene>>
            /\ \A c \in Known : calls'[c].asked = calls[c].asked /\ calls'[c].retired = calls[c].retired
Deciding(R) == /\ attempts' = Forget(R)
               /\ \A c \in Known : Undecided(c)' <=> Undecided(c) /\ c \notin R

(* A frame that opens no call knows the same calls after it. *)
LEMMA FrameKeepsKnown ==
  ASSUME StoreFormed, NEW late, Frame(late) PROVE Known' = Known /\ Len(calls') = Len(calls)
<1>1. DOMAIN calls' = 1 .. Len(calls') /\ Len(calls') = Len(calls)
  BY DEF Frame
<1> QED BY <1>1, KnownIs DEF Known

(* Whatever such a frame does to calls, the marks of their outcomes agree with their states. *)
LEMMA MarksHold == ASSUME Books, NEW late, Frame(late) PROVE Marks'
<1>1. \A c \in Known : calls[c] \in Entry /\ calls'[c] \in Entry
  BY KnownIs DEF Books, Frame
<1>2. Known' = Known
  BY KnownIs, FrameKeepsKnown DEF Books
<1>3. ASSUME NEW c \in Known
      PROVE  /\ calls'[c].late => calls'[c].state = "cancelled"
             /\ calls'[c].errored => calls'[c].state = "failed" \/ calls'[c].late
             /\ calls'[c].failure # "none" => calls'[c].state = "failed"
             /\ calls'[c].counted = IF calls'[c].errored THEN 1 ELSE 0
  <2>1. /\ calls[c].late => calls[c].state = "cancelled"
        /\ calls[c].errored => calls[c].state = "failed" \/ calls[c].late
        /\ calls[c].failure # "none" => calls[c].state = "failed"
        /\ calls[c].counted = IF calls[c].errored THEN 1 ELSE 0
    BY DEF Books, Marks, Is
  <2>2. Becomes(calls[c], calls'[c])
    BY DEF Frame
  <2>3. CASE Stays(calls[c], calls'[c])
    BY <2>1, <2>3 DEF Stays
  <2>4. CASE Finishes(calls[c], calls'[c])
    BY <2>1, <2>4 DEF Finishes, Ongoing, Outcomes
  <2>5. CASE ComesLate(calls[c], calls'[c])
    BY <2>1, <2>5 DEF ComesLate
  <2> QED BY <2>2, <2>3, <2>4, <2>5 DEF Becomes
<1> QED BY <1>2, <1>3 DEF Marks, Is

(* And what handed out a task has handed it out. *)
LEMMA HandlesHold == ASSUME Books, NEW late, Frame(late), UNCHANGED tasks PROVE HandlesGiven'
<1>1. \A t \in Task : tasks[t] # Nobody => tasks[t] \in Known
  BY DEF Books, StoreFormed
<1>2. \A c \in Known : HandedOff(c) => HandedOff(c)'
  BY DEF Frame, Becomes, HandedOff
<1> QED BY <1>1, <1>2 DEF Books, HandlesGiven

(* The attempts stay exact when those the frame decided, and no others, are forgotten. *)
LEMMA AttemptsHold ==
  ASSUME Books, NEW late, Frame(late), NEW R \in SUBSET Known, Deciding(R)
  PROVE  AttemptsKept' /\ attempts' \in [Signature -> {Nobody} \cup Known']
<1>1. Known' = Known /\ Nobody \notin Known
  BY KnownIs, FrameKeepsKnown DEF Books
<1>2. attempts \in [Signature -> {Nobody} \cup Known]
  BY DEF Books, StoreFormed
<1>3. \A s \in Signature : attempts'[s] = IF attempts[s] \in R THEN Nobody ELSE attempts[s]
  BY DEF Deciding, Forget
<1>4. attempts' \in [Signature -> {Nobody} \cup Known']
  BY <1>1, <1>2 DEF Deciding, Forget
<1>5. \A c \in Known : calls'[c].sig = calls[c].sig
  BY DEF Frame, Becomes
<1>6. \A c \in Known : Newest(c)' <=> Newest(c)
  BY <1>1, <1>5 DEF Newest
<1>7. ASSUME NEW s \in Signature, NEW c \in Known
      PROVE  attempts'[s] = c <=> calls'[c].sig = s /\ Newest(c)' /\ Undecided(c)'
  <2>1. attempts[s] = c <=> calls[c].sig = s /\ Newest(c) /\ Undecided(c)
    BY DEF Books, AttemptsKept
  <2>2. Undecided(c)' <=> Undecided(c) /\ c \notin R
    BY DEF Deciding
  <2>3. attempts'[s] = c <=> attempts[s] = c /\ c \notin R
    BY <1>1, <1>3
  <2> QED BY <1>5, <1>6, <2>1, <2>2, <2>3
<1> QED BY <1>1, <1>4, <1>7 DEF AttemptsKept

(* The parked operations stay parked once when no call starts to ask. *)
LEMMA AskingHolds == ASSUME Books, NEW late, Frame(late), Asking PROVE ParkedOnce'
<1>1. Known' = Known
  BY KnownIs, FrameKeepsKnown DEF Books
<1>2. \A c \in Known : Is(c, "pending")' => Is(c, "pending")
  BY DEF Frame, Becomes, Stays, Finishes, ComesLate, Outcomes, Is
<1>3. \A c \in Known : Is(c, "pending")' /\ calls'[c].asked # Nothing => c \in ToSet(awaiting) \/ calls'[c].retired
  BY <1>2 DEF Asking, Books, ParkedOnce
<1> QED BY <1>1, <1>3 DEF ParkedOnce, Asking, Books, Is, ToSet, Nothing

(* The store stays well formed when no table gains an entry. *)
LEMMA FormedHolds ==
  ASSUME Books, NEW late, Frame(late), UNCHANGED <<scene, held, tasks>>,
         attempts' \in [Signature -> {Nobody} \cup Known'],
         awaiting' \in Seq(Nat), \A i \in DOMAIN awaiting' : awaiting'[i] \in Known
  PROVE  StoreFormed'
<1>1. Known' = Known /\ Len(calls') = Len(calls)
  BY KnownIs, FrameKeepsKnown DEF Books
<1>2. \A c \in Known' : calls'[c].retryOf < c
  BY <1>1 DEF Books, StoreFormed, Frame, Becomes
<1> QED BY <1>1, <1>2 DEF Books, StoreFormed, Frame

-----------------------------------------------------------------------------
(* The frames that open no call. *)

(* An answer tells of a task there may be. *)
LEMMA ToldTask ==
  ASSUME StoreFormed, NEW c \in Known, NEW a \in Answers
  PROVE  TaskTold(c, a) \in Task \cup {NoTask} /\ a.status \in Ending \cup {"working"} /\ Errs(a) \in BOOLEAN
BY DEF TaskTold, Answers, Errs

(* A frame that tells call c its outcome, and may bring the end of a task with it. *)
LEMMA ToldWithTask ==
  ASSUME Books, NEW told \in Seq(Entry), Len(told) = Len(calls), NEW c \in Known \cup {Nobody},
         \A d \in Known \ {c} : told[d] = calls[d],
         c \in Known => /\ told[c].state \notin {"pending", "superseded"} /\ Becomes(calls[c], told[c])
                        /\ told[c].asked = calls[c].asked /\ told[c].retired = calls[c].retired,
         NEW t \in Task \cup {NoTask}, NEW status \in Ending \cup {"working"},
         calls' = EndOfTask(told, t, status), UNCHANGED <<scene, awaiting>>
  PROVE  /\ Frame(c) /\ Asking
         /\ c \in Known => calls'[c] = told[c]
         /\ \A d \in Known \ {c} : Undecided(d)' <=> Undecided(d)
         /\ PendingIn(told) = PendingIn(calls) - (IF c \in Known /\ Is(c, "pending") THEN 1 ELSE 0)
         /\ PendingIn(calls) \in Nat /\ PendingIn(told) \in Nat /\ PendingIn(calls') \in Nat
<1>0. StoreFormed /\ Marks /\ HandlesGiven
  BY DEF Books
<1>1. /\ calls \in Seq(Entry) /\ DOMAIN calls = Known /\ DOMAIN told = Known
      /\ Nobody \notin Known
  BY <1>0, KnownIs DEF StoreFormed, Known
<1>2. calls' \in Seq(Entry) /\ Len(calls') = Len(calls)
  BY <1>0, TaskEnds
<1>3. \A d \in Known : calls'[d] = told[d] \/ (HandedOff(d) /\ TaskMoves(told[d], calls'[d]))
  BY <1>0, TaskMovesItsCall
<1>4. c \in Known => calls'[c] = told[c]
  BY <1>3 DEF TaskMoves
<1>5. ASSUME NEW d \in Known \ {c}
      PROVE  calls'[d] = calls[d] \/ (HandedOff(d) /\ TaskMoves(calls[d], calls'[d]))
  BY <1>3
<1>6. Frame(c)
  <2>1. c \in Known => Becomes(calls[c], calls'[c]) /\ calls'[c].state # "superseded"
    BY <1>4
  <2>2. ASSUME NEW d \in Known \ {c}
        PROVE  /\ Becomes(calls[d], calls'[d]) /\ ~ComesLate(calls[d], calls'[d])
               /\ calls'[d].state = "superseded" => Is(d, "superseded")
    <3>1. CASE calls'[d] = calls[d]
      BY <3>1 DEF Becomes, Stays, ComesLate, Is
    <3>2. CASE TaskMoves(calls[d], calls'[d])
      <4>1. calls[d].failure = "none"
        BY <1>0, <3>2 DEF Marks, Is, TaskMoves
      <4> QED BY <3>2, <4>1 DEF Becomes, Finishes, TaskMoves, ComesLate, Ongoing, Outcomes
    <3> QED BY <1>5, <3>1, <3>2
  <2> QED BY <1>2, <2>1, <2>2 DEF Frame
<1>7. Asking
  BY <1>4, <1>5 DEF Asking, TaskMoves
<1>8. ASSUME NEW d \in Known \ {c} PROVE Undecided(d)' <=> Undecided(d)
  BY <1>5 DEF Undecided, HandedOff, Is, TaskMoves
<1>9. PendingIn(calls) \in Nat /\ PendingIn(told) \in Nat /\ PendingIn(calls') \in Nat
  BY <1>1, <1>2, PendingIsCounted
<1>10. PendingIn(told) = PendingIn(calls) - (IF c \in Known /\ Is(c, "pending") THEN 1 ELSE 0)
  <2>1. CASE c \in Known
    <3>1. c \in DOMAIN calls /\ told[c].state # "pending"
          /\ \A d \in DOMAIN calls \ {c} : told[d].state = "pending" <=> calls[d].state = "pending"
      BY <1>1, <2>1
    <3>2. PendingIn(told) = PendingIn(calls) - (IF calls[c].state = "pending" THEN 1 ELSE 0)
      BY <1>1, <3>1, PendingLosesOne
    <3> QED BY <2>1, <3>2 DEF Is
  <2>2. CASE c \notin Known
    BY <1>1, <1>9, <2>2, PendingStays
  <2> QED BY <2>1, <2>2
<1> QED BY <1>4, <1>6, <1>7, <1>8, <1>9, <1>10

(* What the books need once the calls moved as they may. *)
LEMMA BooksHold ==
  ASSUME Books, NEW late, Frame(late), Asking, NEW R \in SUBSET Known, Deciding(R),
         UNCHANGED <<held, tasks>>, pending' = PendingIn(calls')
  PROVE  Books'
<1>1. attempts' \in [Signature -> {Nobody} \cup Known'] /\ AttemptsKept'
  BY AttemptsHold
<1>2. StoreFormed'
  BY <1>1, FormedHolds DEF StoreFormed, Asking, Books
<1> QED BY <1>1, <1>2, MarksHold, HandlesHold, AskingHolds DEF Books, PendingExact

(* A late answer. *)
LEMMA AnswerLateKeeps ==
  ASSUME Books, NEW c \in Known, NEW a \in Answers, AnswerLate(c, a), UNCHANGED scene
  PROVE  Books' /\ Frame(c)
<1> DEFINE v    == calls[c].counted + (IF Errs(a) THEN 1 ELSE 0)
           r    == [calls[c] EXCEPT !.late = TRUE, !.errored = Errs(a), !.counted = v]
           told == [calls EXCEPT ![c] = r]
           t    == TaskTold(c, a)
<1>0. StoreFormed /\ Marks /\ HandlesGiven /\ PendingExact
  BY DEF Books
<1>1. calls \in Seq(Entry) /\ DOMAIN calls = Known /\ calls[c] \in Entry
  BY <1>0, KnownIs DEF StoreFormed, Known
<1>2. calls[c].state = "cancelled" /\ calls[c].late = FALSE
  BY <1>1 DEF AnswerLate, AwaitsLate, Is, Entry
<1>3. t \in Task \cup {NoTask} /\ a.status \in Ending \cup {"working"} /\ Errs(a) \in BOOLEAN
  BY <1>0, ToldTask
<1>4. calls' = EndOfTask(told, t, a.status) /\ pending' = pending - (PendingIn(told) - PendingIn(calls'))
      /\ UNCHANGED <<held, tasks, attempts, awaiting>>
  BY <1>1 DEF AnswerLate
<1>5. v \in Nat
  BY <1>1, <1>3, SMTT(30) DEF Entry
<1>6. r \in Entry /\ ComesLate(calls[c], r) /\ r.state = "cancelled"
      /\ r.sig = calls[c].sig /\ r.method = calls[c].method /\ r.retryOf = calls[c].retryOf
      /\ r.exch = calls[c].exch /\ r.task = calls[c].task /\ r.asked = calls[c].asked
      /\ r.retired = calls[c].retired /\ r.failure = calls[c].failure
  <2> HIDE DEF v
  <2>1. r \in Entry
    BY <1>1, <1>3, <1>5, ZenonT(90) DEF Entry
  <2>2. r.late = TRUE /\ r.errored = Errs(a) /\ r.counted = v
    BY <1>1, <1>3, <1>5 DEF Entry
  <2>3. r.state = "cancelled" /\ r.failure = calls[c].failure /\ r.asked = calls[c].asked
        /\ r.retired = calls[c].retired /\ r.task = calls[c].task
        /\ r.sig = calls[c].sig /\ r.method = calls[c].method /\ r.retryOf = calls[c].retryOf
        /\ r.exch = calls[c].exch
    BY <1>1, <1>2 DEF Entry
  <2> HIDE DEF r
  <2> QED BY <1>2, <2>1, <2>2, <2>3 DEF ComesLate, v
<1> HIDE DEF r, v
<1>7. told \in Seq(Entry) /\ Len(told) = Len(calls) /\ told[c] = r
      /\ \A d \in Known \ {c} : told[d] = calls[d]
  BY <1>1, <1>6
<1> HIDE DEF told, t
<1>8. /\ Frame(c) /\ Asking
      /\ calls'[c] = told[c]
      /\ \A d \in Known \ {c} : Undecided(d)' <=> Undecided(d)
      /\ PendingIn(told) = PendingIn(calls)
      /\ PendingIn(calls) \in Nat /\ PendingIn(told) \in Nat /\ PendingIn(calls') \in Nat
  <2>1. /\ Becomes(calls[c], told[c]) /\ told[c].state \notin {"pending", "superseded"}
        /\ told[c].asked = calls[c].asked /\ told[c].retired = calls[c].retired
    BY <1>6, <1>7 DEF Becomes
  <2>2. /\ Frame(c) /\ Asking
        /\ calls'[c] = told[c]
        /\ \A d \in Known \ {c} : Undecided(d)' <=> Undecided(d)
        /\ PendingIn(told) = PendingIn(calls) - (IF c \in Known /\ Is(c, "pending") THEN 1 ELSE 0)
        /\ PendingIn(calls) \in Nat /\ PendingIn(told) \in Nat /\ PendingIn(calls') \in Nat
    BY <1>3, <1>4, <1>7, <2>1, ToldWithTask
  <2> QED BY <1>2, <2>2 DEF Is
<1>9. Deciding({})
  <2>1. attempts' = Forget({})
    BY <1>0, <1>4 DEF Forget, StoreFormed
  <2>2. Undecided(c)' <=> Undecided(c)
    BY <1>2, <1>6, <1>7, <1>8 DEF Undecided, HandedOff, Is
  <2> QED BY <1>8, <2>1, <2>2 DEF Deciding
<1>10. pending' = PendingIn(calls')
  BY <1>0, <1>4, <1>8 DEF PendingExact
<1> QED BY <1>4, <1>8, <1>9, <1>10, BooksHold

(* A final answer. *)
LEMMA AnswerSettlesKeeps ==
  ASSUME Books, NEW c \in Known, NEW a \in Answers, AnswerSettles(c, a), UNCHANGED scene
  PROVE  Books' /\ Frame(c)
<1> DEFINE v    == calls[c].counted + (IF Errs(a) THEN 1 ELSE 0)
           st   == IF Errs(a) THEN "failed" ELSE "completed"
           r    == [calls[c] EXCEPT !.state = st, !.errored = Errs(a), !.counted = v]
           told == [calls EXCEPT ![c] = r]
           t    == TaskTold(c, a)
<1>0. StoreFormed /\ Marks /\ HandlesGiven /\ PendingExact
  BY DEF Books
<1>1. calls \in Seq(Entry) /\ DOMAIN calls = Known /\ calls[c] \in Entry
  BY <1>0, KnownIs DEF StoreFormed, Known
<1>2. calls[c].state \in {"pending", "streaming"} /\ calls[c].failure = "none" /\ ~HandedOff(c)
  BY <1>0, <1>1 DEF AnswerSettles, Open, Marks, Is, Entry
<1>3. t \in Task \cup {NoTask} /\ a.status \in Ending \cup {"working"} /\ Errs(a) \in BOOLEAN
  BY <1>0, ToldTask
<1>4. /\ calls' = EndOfTask(told, t, a.status)
      /\ pending' = pending - (IF Is(c, "pending") THEN 1 ELSE 0) - (PendingIn(told) - PendingIn(calls'))
      /\ attempts' = Forget({c}) /\ UNCHANGED <<held, tasks, awaiting>>
  BY <1>1 DEF AnswerSettles
<1>5. v \in Nat /\ st \in State
  BY <1>1, <1>3, SMTT(30) DEF Entry, State
<1>6. r \in Entry /\ Becomes(calls[c], r) /\ r.state \in {"completed", "failed"} /\ r.failure = "none"
      /\ r.asked = calls[c].asked /\ r.retired = calls[c].retired
  <2>0. st \in {"completed", "failed"} /\ (Errs(a) => st = "failed")
    OBVIOUS
  <2> HIDE DEF v, st
  <2>1. r \in Entry
    BY <1>1, <1>3, <1>5, EndedEntry
  <2>2. r.state = st /\ r.errored = Errs(a) /\ r.counted = v
    BY <1>1, <1>3, <1>5 DEF Entry
  <2>3. r.failure = calls[c].failure /\ r.asked = calls[c].asked /\ r.late = calls[c].late
        /\ r.retired = calls[c].retired /\ r.task = calls[c].task
        /\ r.sig = calls[c].sig /\ r.method = calls[c].method /\ r.retryOf = calls[c].retryOf
        /\ r.exch = calls[c].exch
    BY <1>1 DEF Entry
  <2> HIDE DEF r
  <2>4. Finishes(calls[c], r)
    BY <1>2, <2>0, <2>2, <2>3 DEF Finishes, Ongoing, Outcomes, v
  <2> QED BY <1>2, <2>0, <2>1, <2>2, <2>3, <2>4 DEF Becomes
<1> HIDE DEF r, v, st
<1>7. told \in Seq(Entry) /\ Len(told) = Len(calls) /\ told[c] = r
      /\ \A d \in Known \ {c} : told[d] = calls[d]
  BY <1>1, <1>6
<1> HIDE DEF told, t
<1>8. /\ Frame(c) /\ Asking
      /\ calls'[c] = told[c]
      /\ \A d \in Known \ {c} : Undecided(d)' <=> Undecided(d)
      /\ PendingIn(told) = PendingIn(calls) - (IF c \in Known /\ Is(c, "pending") THEN 1 ELSE 0)
      /\ PendingIn(calls) \in Nat /\ PendingIn(told) \in Nat /\ PendingIn(calls') \in Nat
  <2>1. /\ Becomes(calls[c], told[c]) /\ told[c].state \notin {"pending", "superseded"}
        /\ told[c].asked = calls[c].asked /\ told[c].retired = calls[c].retired
    BY <1>6, <1>7
  <2> QED BY <1>3, <1>4, <1>7, <2>1, ToldWithTask
<1>9. Deciding({c})
  <2>1. ~Undecided(c)'
    BY <1>6, <1>7, <1>8 DEF Undecided, Is
  <2> QED BY <1>4, <1>8, <2>1 DEF Deciding
<1>10. pending' = PendingIn(calls')
  BY <1>0, <1>4, <1>8 DEF PendingExact
<1> QED BY <1>4, <1>8, <1>9, <1>10, BooksHold

(* A task's state, told by a notification. *)
LEMMA TaskNoticeKeeps ==
  ASSUME Books, NEW t \in Task, NEW status \in Ending \cup {"working"}, TaskNotice(t, status)
  PROVE  Books' /\ Frame(Nobody)
<1>0. StoreFormed /\ PendingExact /\ Nobody \notin Known /\ calls \in Seq(Entry)
  BY KnownIs DEF Books, StoreFormed
<1>1. /\ calls' = EndOfTask(calls, t, status) /\ pending' = pending - (PendingIn(calls) - PendingIn(calls'))
      /\ UNCHANGED <<held, tasks, attempts, awaiting, scene>>
  BY DEF TaskNotice
<1>2. /\ Frame(Nobody) /\ Asking
      /\ \A d \in Known \ {Nobody} : Undecided(d)' <=> Undecided(d)
      /\ PendingIn(calls) \in Nat /\ PendingIn(calls') \in Nat
  BY <1>0, <1>1, ToldWithTask
<1>3. Deciding({})
  <2>1. attempts' = Forget({})
    BY <1>0, <1>1 DEF Forget, StoreFormed
  <2> QED BY <1>0, <1>2, <2>1 DEF Deciding
<1>4. pending' = PendingIn(calls')
  BY <1>0, <1>1, <1>2 DEF PendingExact
<1> QED BY <1>1, <1>2, <1>3, <1>4, BooksHold

(* A cancellation. *)
LEMMA CancelledKeeps ==
  ASSUME Books, NEW c \in Known, Open(c), Cancelled(c), UNCHANGED scene
  PROVE  Books' /\ Frame(Nobody)
<1> DEFINE r == [calls[c] EXCEPT !.state = "cancelled"]
<1>0. StoreFormed /\ Marks /\ HandlesGiven /\ PendingExact
  BY DEF Books
<1>1. calls \in Seq(Entry) /\ DOMAIN calls = Known /\ calls[c] \in Entry
  BY <1>0, KnownIs DEF StoreFormed, Known
<1>2. calls[c].state \in {"pending", "streaming"} /\ calls[c].failure = "none" /\ ~calls[c].errored
  BY <1>0, <1>1 DEF Open, Marks, Is, Entry
<1>3. /\ calls' = [calls EXCEPT ![c] = r] /\ pending' = pending - (IF Is(c, "pending") THEN 1 ELSE 0)
      /\ UNCHANGED <<held, tasks, attempts, awaiting>>
  BY <1>1 DEF Cancelled
<1>4. /\ r \in Entry /\ Becomes(calls[c], r) /\ r.state = "cancelled" /\ ~ComesLate(calls[c], r)
      /\ r.asked = calls[c].asked /\ r.retired = calls[c].retired
      /\ r.task = calls[c].task /\ r.method = calls[c].method
  <2>1. r \in Entry
    BY <1>1, ZenonT(90) DEF Entry, State
  <2>2. r.state = "cancelled" /\ r.errored = calls[c].errored /\ r.counted = calls[c].counted
        /\ r.failure = calls[c].failure /\ r.asked = calls[c].asked /\ r.late = calls[c].late
        /\ r.retired = calls[c].retired /\ r.task = calls[c].task
        /\ r.sig = calls[c].sig /\ r.method = calls[c].method /\ r.retryOf = calls[c].retryOf
        /\ r.exch = calls[c].exch
    BY <1>1 DEF Entry
  <2>3. calls[c].counted \in Nat
    BY <1>1 DEF Entry
  <2> HIDE DEF r
  <2>4. Finishes(calls[c], r) /\ ~ComesLate(calls[c], r)
    BY <1>2, <2>2, <2>3 DEF Finishes, Ongoing, Outcomes, ComesLate
  <2> QED BY <2>1, <2>2, <2>4 DEF Becomes
<1> HIDE DEF r
<1>5. calls' \in Seq(Entry) /\ Len(calls') = Len(calls) /\ calls'[c] = r
      /\ \A d \in Known \ {c} : calls'[d] = calls[d]
  BY <1>1, <1>3, <1>4
<1>6. \A d \in Known \ {c} : Becomes(calls[d], calls'[d]) /\ ~ComesLate(calls[d], calls'[d])
  BY <1>5 DEF Becomes, Stays, ComesLate
<1>7. Frame(Nobody)
  BY <1>4, <1>5, <1>6 DEF Frame, Is
<1>8. Asking
  BY <1>3, <1>4, <1>5 DEF Asking
<1>9. Deciding({})
  <2>1. attempts' = Forget({})
    BY <1>0, <1>3 DEF Forget, StoreFormed
  <2>2. Undecided(c)' <=> Undecided(c)
    BY <1>2, <1>4, <1>5 DEF Undecided, HandedOff, Is
  <2>3. \A d \in Known \ {c} : Undecided(d)' <=> Undecided(d)
    BY <1>5 DEF Undecided, HandedOff, Is
  <2> QED BY <2>1, <2>2, <2>3 DEF Deciding
<1>10. pending' = PendingIn(calls')
  <2>1. c \in DOMAIN calls /\ calls'[c].state # "pending"
        /\ \A d \in DOMAIN calls \ {c} : calls'[d].state = "pending" <=> calls[d].state = "pending"
    BY <1>1, <1>4, <1>5
  <2>2. PendingIn(calls') = PendingIn(calls) - (IF calls[c].state = "pending" THEN 1 ELSE 0)
    BY <1>1, <1>5, <2>1, PendingLosesOne
  <2> QED BY <1>0, <1>3, <2>2 DEF PendingExact, Is
<1> QED BY <1>3, <1>7, <1>8, <1>9, <1>10, BooksHold

(* An exchange that fails. *)
LEMMA FailExchangeKeeps ==
  ASSUME Books, NEW x, NEW why \in {"refused", "upstream"}, FailExchange(x, why), UNCHANGED scene
  PROVE  Books' /\ Frame(Nobody)
<1> DEFINE F == FailsWith(x)
           r(c) == [calls[c] EXCEPT !.state = "failed", !.failure = why, !.errored = TRUE,
                                      !.counted = calls[c].counted + 1]
<1>0. StoreFormed /\ Marks /\ HandlesGiven /\ PendingExact
  BY DEF Books
<1>1. calls \in Seq(Entry) /\ DOMAIN calls = Known /\ \A c \in Known : calls[c] \in Entry
  BY <1>0, KnownIs DEF StoreFormed, Known
<1>2. /\ calls' = [c \in Known |-> IF c \in F THEN r(c) ELSE calls[c]]
      /\ pending' = pending - Slots(F)
      /\ attempts' = IF why = "upstream" THEN attempts ELSE Forget(F)
      /\ UNCHANGED <<held, tasks, awaiting>>
  BY DEF FailExchange
<1>3. /\ F \subseteq Known
      /\ \A c \in F : /\ calls[c].state \in {"pending", "streaming"} /\ calls[c].task = NoTask
                      /\ calls[c].failure = "none" /\ ~calls[c].errored
  BY <1>0, <1>1 DEF FailsWith, CarriedBy, InMap, Open, Marks, Is, Entry
<1> HIDE DEF F
<1>4. ASSUME NEW c \in F
      PROVE  /\ r(c) \in Entry /\ Becomes(calls[c], r(c)) /\ r(c).state = "failed" /\ r(c).failure = why
             /\ ~ComesLate(calls[c], r(c))
             /\ r(c).asked = calls[c].asked /\ r(c).retired = calls[c].retired
             /\ r(c).task = calls[c].task /\ r(c).method = calls[c].method
  <2>0. calls[c] \in Entry /\ calls[c].counted \in Nat
    BY <1>1, <1>3 DEF Entry
  <2>1. r(c) \in Entry
    <3>1. calls[c].counted + 1 \in Nat /\ "failed" \in State /\ why \in {"none", "refused", "upstream"}
      BY <2>0 DEF State
    <3> QED BY <2>0, <3>1, FailedEntry
  <2>2. r(c).state = "failed" /\ r(c).errored = TRUE /\ r(c).counted = calls[c].counted + 1
        /\ r(c).failure = why /\ r(c).asked = calls[c].asked /\ r(c).late = calls[c].late
        /\ r(c).retired = calls[c].retired /\ r(c).task = calls[c].task
        /\ r(c).sig = calls[c].sig /\ r(c).method = calls[c].method /\ r(c).retryOf = calls[c].retryOf
        /\ r(c).exch = calls[c].exch
    BY <2>0 DEF Entry
  <2> HIDE DEF r
  <2>4. Finishes(calls[c], r(c)) /\ ~ComesLate(calls[c], r(c))
    BY <1>3, <2>0, <2>2 DEF Finishes, Ongoing, Outcomes, ComesLate
  <2> QED BY <2>1, <2>2, <2>4 DEF Becomes
<1> HIDE DEF r
<1>5. calls' \in Seq(Entry) /\ Len(calls') = Len(calls)
  <2>1. \A c \in Known : (IF c \in F THEN r(c) ELSE calls[c]) \in Entry
    BY <1>1, <1>4
  <2>2. Len(calls) \in Nat /\ Known = 1 .. Len(calls)
    BY <1>0, KnownIs
  <2> QED BY <1>2, <2>1, <2>2
<1>6. \A c \in Known : calls'[c] = IF c \in F THEN r(c) ELSE calls[c]
  BY <1>2
<1>7. Frame(Nobody)
  <2>1. \A c \in F : Becomes(calls[c], calls'[c]) /\ ~ComesLate(calls[c], calls'[c]) /\ calls'[c].state # "superseded"
    BY <1>3, <1>4, <1>6
  <2>2. \A c \in Known \ F : Becomes(calls[c], calls'[c]) /\ ~ComesLate(calls[c], calls'[c])
                             /\ calls'[c] = calls[c]
    BY <1>6 DEF Becomes, Stays, ComesLate
  <2> QED BY <1>5, <2>1, <2>2 DEF Frame, Is
<1>8. Asking
  BY <1>2, <1>4, <1>6 DEF Asking
<1>9. \A c \in Known \ F : Undecided(c)' <=> Undecided(c)
  BY <1>6 DEF Undecided, HandedOff, Is
<1>10. \A c \in F : Undecided(c) /\ (Undecided(c)' <=> why = "upstream")
  BY <1>3, <1>4, <1>6 DEF Undecided, HandedOff, Is
<1>11. \E R \in SUBSET Known : Deciding(R)
  <2>1. CASE why = "upstream"
    <3>1. attempts' = Forget({})
      BY <1>0, <1>2, <2>1 DEF Forget, StoreFormed
    <3>2. Deciding({})
      BY <1>9, <1>10, <2>1, <3>1 DEF Deciding
    <3> QED BY <3>2
  <2>2. CASE why # "upstream"
    <3>1. Deciding(F)
      BY <1>2, <1>9, <1>10, <2>2 DEF Deciding
    <3> QED BY <1>3, <3>1
  <2> QED BY <2>1, <2>2
<1>12. pending' = PendingIn(calls')
  <2>1. \A c \in DOMAIN calls : calls'[c].state = "pending" <=> calls[c].state = "pending" /\ c \notin F
    BY <1>1, <1>4, <1>6
  <2>2. PendingIn(calls') = PendingIn(calls) - Cardinality({c \in F \cap DOMAIN calls : calls[c].state = "pending"})
    BY <1>1, <1>5, <2>1, PendingLoses
  <2>3. {c \in F \cap DOMAIN calls : calls[c].state = "pending"} = {c \in F : Is(c, "pending")}
    BY <1>1, <1>3 DEF Is
  <2> QED BY <1>0, <1>2, <2>2, <2>3 DEF PendingExact, Slots
<1> QED BY <1>2, <1>7, <1>8, <1>11, <1>12, BooksHold

-----------------------------------------------------------------------------
(* What is kept of a list keeps its order, so positions are counted: the n-th kept member is at the
   one position with n kept ones up to it. *)
LEMMA KeptIsPart ==
  ASSUME NEW s \in Seq(Nat), NEW S
  PROVE  /\ Kept(s, S) \in Seq(Nat)
         /\ \A n \in DOMAIN Kept(s, S) : \E i \in DOMAIN s : s[i] \in S /\ Kept(s, S)[n] = s[i]
         /\ \A i \in DOMAIN s : s[i] \in S => \E n \in DOMAIN Kept(s, S) : Kept(s, S)[n] = s[i]
         /\ Len(Kept(s, S)) <= Len(s)
         /\ (\A i, j \in DOMAIN s : s[i] = s[j] => i = j)
              => \A i, j \in DOMAIN Kept(s, S) : Kept(s, S)[i] = Kept(s, S)[j] => i = j
<1> DEFINE at      == {i \in DOMAIN s : s[i] \in S}
           upto(i) == {j \in at : j <= i}
           N       == Cardinality(at)
           R       == [i \in at |-> Cardinality(upto(i))]
           pos(n)  == CHOOSE i \in at : Cardinality(upto(i)) = n
<1>1. at \subseteq Nat /\ at \subseteq DOMAIN s /\ IsFiniteSet(at) /\ N \in Nat /\ N <= Len(s)
  <2>1. DOMAIN s = 1 .. Len(s) /\ Len(s) \in Nat
    OBVIOUS
  <2>2. IsFiniteSet(1 .. Len(s)) /\ Cardinality(1 .. Len(s)) = Len(s)
    <3> DEFINE L == Len(s)
    <3>1. L \in Nat /\ 1 \in Int /\ L \in Int
      BY <2>1
    <3> HIDE DEF L
    <3>2. IsFiniteSet(1 .. L) /\ Cardinality(1 .. L) = IF 1 > L THEN 0 ELSE L - 1 + 1
      BY <3>1, FS_Interval
    <3>3. Cardinality(1 .. L) = L
      BY <3>1, <3>2
    <3> QED BY <3>2, <3>3 DEF L
  <2> QED BY <2>1, <2>2, FS_Subset, FS_CardinalityType
<1>s. \A i \in at : s[i] \in Nat /\ s[i] \in S
  OBVIOUS
<1>k. Kept(s, S) = [n \in 1 .. N |-> s[pos(n)]]
  BY DEF Kept
<1>x. \A i \in DOMAIN s : s[i] \in S => i \in at
  OBVIOUS
<1> HIDE DEF at
<1>2. \A i \in at : /\ IsFiniteSet(upto(i)) /\ Cardinality(upto(i)) \in Nat /\ Cardinality(upto(i)) <= N
                    /\ Cardinality(upto(i)) >= 1
  <2> TAKE i \in at
  <2>1. upto(i) \subseteq at /\ i \in upto(i)
    BY <1>1
  <2>2. IsFiniteSet(upto(i)) /\ Cardinality(upto(i)) <= N
    BY <1>1, <2>1, FS_Subset
  <2>3. Cardinality(upto(i)) \in Nat /\ Cardinality(upto(i)) # 0
    BY <2>1, <2>2, FS_CardinalityType, FS_EmptySet
  <2> QED BY <2>2, <2>3
<1>3. ASSUME NEW i \in at, NEW k \in at, i < k PROVE Cardinality(upto(i)) # Cardinality(upto(k))
  <2>1. upto(i) \subseteq upto(k) /\ k \in upto(k) /\ k \notin upto(i)
    <3>1. i \in Nat /\ k \in Nat /\ \A j \in at : j \in Nat
      BY <1>1
    <3>2. \A j \in at : j <= i => j <= k
      BY <1>3, <3>1
    <3>3. upto(i) \subseteq upto(k)
      BY <3>2
    <3>4. k \in upto(k) /\ k \notin upto(i)
      BY <1>3, <3>1
    <3> QED BY <3>3, <3>4
  <2> QED BY <1>2, <2>1, FS_Subset
<1>4. \A i, k \in at : Cardinality(upto(i)) = Cardinality(upto(k)) => i = k
  BY <1>1, <1>3
<1> HIDE DEF upto
<1>5. R \in Injection(at, 1 .. N)
  <2>1. R \in [at -> 1 .. N]
    BY <1>1, <1>2
  <2>2. \A i, k \in at : R[i] = R[k] => i = k
    BY <1>4
  <2> QED BY <2>1, <2>2 DEF Injection, IsInjective
<1>6. \A n \in 1 .. N : \E i \in at : R[i] = n
  <2>1. IsFiniteSet(1 .. N) /\ Cardinality(1 .. N) = N
    BY <1>1, FS_Interval
  <2>2. R \in Surjection(at, 1 .. N)
    BY <1>5, <2>1, FS_Injection
  <2> QED BY <2>2 DEF Surjection
<1>7. \A n \in 1 .. N : pos(n) \in at /\ Cardinality(upto(pos(n))) = n
  BY <1>6
<1>8. \A i \in at : Cardinality(upto(i)) \in 1 .. N /\ pos(Cardinality(upto(i))) = i
  BY <1>1, <1>2, <1>4, <1>7
<1> HIDE DEF pos
<1>9. DOMAIN Kept(s, S) = 1 .. N /\ \A n \in 1 .. N : Kept(s, S)[n] = s[pos(n)]
  BY <1>k
<1>10. Kept(s, S) \in Seq(Nat)
  <2>1. \A n \in 1 .. N : s[pos(n)] \in Nat
    BY <1>s, <1>7
  <2> HIDE DEF N
  <2>2. [n \in 1 .. N |-> s[pos(n)]] \in Seq(Nat)
    BY <1>1, <2>1
  <2> QED BY <1>k, <2>2
<1>11. \A n \in DOMAIN Kept(s, S) : \E i \in DOMAIN s : s[i] \in S /\ Kept(s, S)[n] = s[i]
  BY <1>1, <1>s, <1>7, <1>9
<1>12. \A i \in DOMAIN s : s[i] \in S => \E n \in DOMAIN Kept(s, S) : Kept(s, S)[n] = s[i]
  BY <1>x, <1>8, <1>9
<1>13. ASSUME \A i, j \in DOMAIN s : s[i] = s[j] => i = j,
              NEW i \in DOMAIN Kept(s, S), NEW j \in DOMAIN Kept(s, S), Kept(s, S)[i] = Kept(s, S)[j]
       PROVE  i = j
  <2>1. pos(i) = pos(j)
    BY <1>1, <1>7, <1>9, <1>13
  <2> QED BY <1>7, <1>9, <2>1
<1>14. Len(Kept(s, S)) <= Len(s)
  BY <1>1, <1>9, <1>10
<1> QED BY <1>10, <1>11, <1>12, <1>13, <1>14

(* The store's calls, as plain facts. *)
LEMMA ScenesSay ==
  ASSUME StoreFormed
  PROVE  /\ scene.awaitingKept \in Nat \ {0} /\ scene.most \in 0 .. MaxCalls
         /\ scene.requests \subseteq Shapes /\ scene.answers \subseteq Answers
         /\ DOMAIN scene.client \subseteq Conn
BY CallStoreAssumption DEF StoreFormed, Scenes

(* An answer that asks for input. *)
LEMMA AnswerAsksKeeps ==
  ASSUME Books, NEW c \in Known, NEW a \in Answers, AnswerAsks(c, a), UNCHANGED scene
  PROVE  Books' /\ Frame(Nobody)
<1> DEFINE parked == Append(awaiting, c)
           P      == Pruned(parked)
           n      == IF IsParked(c) THEN 0 ELSE Excess(parked)
           gone(d) == \E i \in 1 .. n : P[i] = d
           ask(d)  == IF d = c THEN a.ask ELSE calls[d].asked
           r(d)    == [calls[d] EXCEPT !.asked = ask(d), !.retired = calls[d].retired \/ gone(d)]
<1>0. StoreFormed /\ Marks /\ HandlesGiven /\ PendingExact /\ ParkedOnce
  BY DEF Books
<1>1. /\ calls \in Seq(Entry) /\ DOMAIN calls = Known /\ \A d \in Known : calls[d] \in Entry
      /\ Known \subseteq Nat /\ Len(calls) \in Nat /\ Known = 1 .. Len(calls)
  BY <1>0, KnownIs DEF StoreFormed, Known
<1>2. /\ awaiting' = IF IsParked(c) THEN awaiting ELSE SubSeq(P, n + 1, Len(P))
      /\ calls' = [d \in Known |-> r(d)]
      /\ UNCHANGED <<held, tasks, attempts, pending>>
  BY DEF AnswerAsks
<1>3. ASSUME NEW d \in Known
      PROVE  /\ r(d) \in Entry /\ Stays(calls[d], r(d)) /\ r(d).asked = ask(d)
             /\ r(d).retired = (calls[d].retired \/ gone(d))
             /\ r(d).task = calls[d].task /\ r(d).sig = calls[d].sig /\ r(d).method = calls[d].method
             /\ r(d).retryOf = calls[d].retryOf /\ r(d).exch = calls[d].exch
  <2>1. calls[d] \in Entry /\ ask(d) \in Asks /\ (calls[d].retired \/ gone(d)) \in BOOLEAN
    BY <1>1 DEF Entry, Answers
  <2> HIDE DEF ask, gone
  <2> QED BY <2>1, ZenonT(90) DEF Entry, Stays
<1>4. ask(c) = a.ask /\ \A d \in Known \ {c} : ask(d) = calls[d].asked
  OBVIOUS
<1> HIDE DEF r, ask
<1>5. calls' \in Seq(Entry) /\ Len(calls') = Len(calls) /\ \A d \in Known : calls'[d] = r(d)
  BY <1>1, <1>2, <1>3
<1>6. \A d \in Known : Becomes(calls[d], calls'[d]) /\ Stays(calls[d], calls'[d])
  BY <1>3, <1>5 DEF Becomes
<1>7. Frame(Nobody)
  BY <1>5, <1>6 DEF Frame, Stays, ComesLate, Is
<1>8. Deciding({})
  <2>1. attempts' = Forget({})
    BY <1>0, <1>2 DEF Forget, StoreFormed
  <2>2. \A d \in Known : Undecided(d)' <=> Undecided(d)
    BY <1>3, <1>5 DEF Undecided, HandedOff, Is, Stays
  <2> QED BY <2>1, <2>2 DEF Deciding
<1>9. PendingExact'
  BY <1>0, <1>1, <1>2, <1>5, <1>6, PendingStays DEF PendingExact, Stays
<1>10. attempts' \in [Signature -> {Nobody} \cup Known'] /\ AttemptsKept'
  BY <1>7, <1>8, AttemptsHold
<1>11. awaiting \in Seq(Nat) /\ \A i \in DOMAIN awaiting : awaiting[i] \in Known
  BY <1>0 DEF StoreFormed
<1>12. /\ Len(awaiting) <= scene.awaitingKept
       /\ \A i, j \in DOMAIN awaiting : awaiting[i] = awaiting[j] => i = j
       /\ \A d \in Known : Is(d, "pending") /\ calls[d].asked # Nothing =>
                             d \in ToSet(awaiting) \/ calls[d].retired
  BY <1>0 DEF ParkedOnce
<1>13. \A d \in Known : Is(d, "pending")' => Is(d, "pending")
  BY <1>6 DEF Stays, Is
<1>14. /\ awaiting' \in Seq(Nat) /\ \A i \in DOMAIN awaiting' : awaiting'[i] \in Known
       /\ Len(awaiting') <= scene.awaitingKept
       /\ \A i, j \in DOMAIN awaiting' : awaiting'[i] = awaiting'[j] => i = j
       /\ \A d \in Known : Is(d, "pending") /\ (d = c \/ d \in ToSet(awaiting)) =>
                             d \in ToSet(awaiting') \/ gone(d)
  <2>1. CASE IsParked(c)
    BY <1>2, <1>11, <1>12, <2>1 DEF IsParked
  <2>2. CASE ~IsParked(c)
    <3> DEFINE S == {d \in Known : Is(d, "pending")}
    <3>1. /\ parked \in Seq(Nat) /\ Len(parked) = Len(awaiting) + 1 /\ parked[Len(awaiting) + 1] = c
          /\ Len(awaiting) \in Nat /\ \A i \in DOMAIN awaiting : parked[i] = awaiting[i]
      BY <1>1, <1>11
    <3>2. DOMAIN parked = 1 .. Len(awaiting) + 1 /\ DOMAIN awaiting = 1 .. Len(awaiting)
      BY <1>11, <3>1
    <3>3. \A i, j \in DOMAIN parked : parked[i] = parked[j] => i = j
      <4>1. \A i \in DOMAIN awaiting : awaiting[i] # c
        BY <2>2 DEF IsParked, ToSet
      <4>2. \A i \in DOMAIN parked : i \in DOMAIN awaiting \/ i = Len(awaiting) + 1
        BY <3>1, <3>2
      <4> QED BY <1>12, <3>1, <4>1, <4>2
    <3> HIDE DEF parked
    <3>4. /\ P \in Seq(Nat)
          /\ \A m \in DOMAIN P : P[m] \in S
          /\ \A i \in DOMAIN parked : parked[i] \in S => \E m \in DOMAIN P : P[m] = parked[i]
          /\ \A i, j \in DOMAIN P : P[i] = P[j] => i = j
      BY <3>1, <3>3, KeptIsPart DEF Pruned
    <3>5. n = IF Len(P) > scene.awaitingKept THEN Len(P) - scene.awaitingKept ELSE 0
      BY <2>2 DEF Excess
    <3>6. scene.awaitingKept \in Nat
      BY <1>0, ScenesSay
    <3>7. awaiting' = SubSeq(P, n + 1, Len(P))
      BY <1>2, <2>2
    <3> HIDE DEF P, n, S
    <3>8. n \in Nat /\ n <= Len(P) /\ Len(P) - n <= scene.awaitingKept /\ Len(P) \in Nat
      BY <3>4, <3>5, <3>6
    <3>9. /\ awaiting' \in Seq(Nat) /\ Len(awaiting') = Len(P) - n
          /\ \A i \in 1 .. Len(P) - n : awaiting'[i] = P[n + i]
      BY <3>4, <3>7, <3>8
    <3>10. DOMAIN awaiting' = 1 .. Len(P) - n /\ DOMAIN P = 1 .. Len(P)
      BY <3>4, <3>9
    <3>11. \A i \in DOMAIN awaiting' : n + i \in DOMAIN P /\ awaiting'[i] = P[n + i]
      BY <3>8, <3>9, <3>10
    <3>12. \A i \in DOMAIN awaiting' : awaiting'[i] \in Known
      BY <3>4, <3>11 DEF S
    <3>13. \A i, j \in DOMAIN awaiting' : awaiting'[i] = awaiting'[j] => i = j
      <4> TAKE i, j \in DOMAIN awaiting'
      <4> HAVE awaiting'[i] = awaiting'[j]
      <4>1. n + i = n + j
        BY <3>4, <3>11
      <4>2. i \in Nat /\ j \in Nat
        BY <3>8, <3>10
      <4> QED BY <3>8, <4>1, <4>2
    <3>14. ASSUME NEW d \in Known, Is(d, "pending"), d = c \/ d \in ToSet(awaiting)
           PROVE  d \in ToSet(awaiting') \/ gone(d)
      <4>1. PICK i \in DOMAIN parked : parked[i] = d
        BY <3>1, <3>2, <3>14 DEF ToSet
      <4>2. PICK m \in DOMAIN P : P[m] = d
        BY <3>4, <3>14, <4>1 DEF S
      <4>3. CASE m <= n
        <5>1. m \in 1 .. n
          BY <3>8, <3>10, <4>3
        <5> QED BY <4>2, <5>1
      <4>4. CASE m > n
        <5>1. m - n \in DOMAIN awaiting' /\ n + (m - n) = m
          BY <3>8, <3>10, <4>4
        <5>2. awaiting'[m - n] = d
          BY <3>11, <4>2, <5>1
        <5> QED BY <5>1, <5>2 DEF ToSet
      <4>5. m \in Nat
        BY <3>10
      <4> QED BY <3>8, <4>3, <4>4, <4>5
    <3> QED BY <3>8, <3>9, <3>12, <3>13, <3>14
  <2> QED BY <2>1, <2>2
<1>15. Known' = Known
  BY <1>0, <1>7, FrameKeepsKnown
<1>16. ParkedOnce'
  <2>1. ASSUME NEW d \in Known, Is(d, "pending")', calls'[d].asked # Nothing
        PROVE  d \in ToSet(awaiting') \/ calls'[d].retired
    <3>1. Is(d, "pending")
      BY <1>13, <2>1
    <3>2. calls'[d].retired = (calls[d].retired \/ gone(d)) /\ calls'[d].asked = ask(d)
      BY <1>3, <1>5
    <3>3. d # c => d \in ToSet(awaiting) \/ calls[d].retired
      BY <1>4, <1>12, <2>1, <3>1, <3>2
    <3> QED BY <1>14, <3>1, <3>2, <3>3
  <2> QED BY <1>14, <1>15, <2>1 DEF ParkedOnce, Is, Nothing
<1>17. StoreFormed'
  BY <1>2, <1>7, <1>10, <1>14, FormedHolds
<1> QED BY <1>2, <1>7, <1>9, <1>10, <1>16, <1>17, MarksHold, HandlesHold DEF Books

(* An answer that hands out a task. *)
LEMMA AnswerHandsOffKeeps ==
  ASSUME Books, NEW c \in Known, NEW a \in Answers, AnswerHandsOff(c, a), UNCHANGED scene
  PROVE  Books' /\ Frame(Nobody)
<1> DEFINE r == [calls[c] EXCEPT !.task = a.task]
<1>0. StoreFormed /\ Marks /\ HandlesGiven /\ PendingExact
  BY DEF Books
<1>1. calls \in Seq(Entry) /\ DOMAIN calls = Known /\ calls[c] \in Entry
  BY <1>0, KnownIs DEF StoreFormed, Known
<1>2. a.task \in Task /\ calls[c].method = "tool" /\ calls[c].task = NoTask
  BY DEF AnswerHandsOff, Answers, HandedOff
<1>3. /\ calls' = [calls EXCEPT ![c] = r] /\ tasks' = [tasks EXCEPT ![a.task] = c]
      /\ attempts' = Forget({c}) /\ UNCHANGED <<held, awaiting, pending>>
  BY <1>1 DEF AnswerHandsOff
<1>4. /\ r \in Entry /\ Becomes(calls[c], r) /\ Stays(calls[c], r) /\ r.task = a.task
      /\ r.asked = calls[c].asked /\ r.retired = calls[c].retired /\ r.method = "tool"
  <2>1. r \in Entry
    BY <1>1, <1>2, ZenonT(90) DEF Entry
  <2>2. r.state = calls[c].state /\ r.errored = calls[c].errored /\ r.counted = calls[c].counted
        /\ r.failure = calls[c].failure /\ r.asked = calls[c].asked /\ r.late = calls[c].late
        /\ r.retired = calls[c].retired /\ r.task = a.task
        /\ r.sig = calls[c].sig /\ r.method = calls[c].method /\ r.retryOf = calls[c].retryOf
        /\ r.exch = calls[c].exch
    BY <1>1, <1>2 DEF Entry
  <2> HIDE DEF r
  <2> QED BY <1>2, <2>1, <2>2 DEF Becomes, Stays
<1> HIDE DEF r
<1>5. calls' \in Seq(Entry) /\ Len(calls') = Len(calls) /\ calls'[c] = r
      /\ \A d \in Known \ {c} : calls'[d] = calls[d]
  BY <1>1, <1>3, <1>4
<1>6. \A d \in Known : Becomes(calls[d], calls'[d]) /\ Stays(calls[d], calls'[d])
  BY <1>4, <1>5 DEF Becomes, Stays
<1>7. Frame(Nobody)
  BY <1>5, <1>6 DEF Frame, Stays, ComesLate, Is
<1>8. Asking
  BY <1>3, <1>4, <1>5 DEF Asking
<1>9. Deciding({c})
  <2>1. ~Undecided(c)'
    BY <1>2, <1>4, <1>5, CallStoreAssumption DEF Undecided, HandedOff
  <2>2. \A d \in Known \ {c} : Undecided(d)' <=> Undecided(d)
    BY <1>5 DEF Undecided, HandedOff, Is
  <2> QED BY <1>3, <2>1, <2>2 DEF Deciding
<1>10. PendingExact'
  BY <1>0, <1>1, <1>3, <1>5, <1>6, PendingStays DEF PendingExact, Stays
<1>11. attempts' \in [Signature -> {Nobody} \cup Known'] /\ AttemptsKept'
  BY <1>7, <1>9, AttemptsHold
<1>12. Known' = Known /\ Nobody \notin Known
  BY <1>0, <1>7, FrameKeepsKnown, KnownIs
<1>13. StoreFormed'
  <2>1. tasks' \in [Task -> {Nobody} \cup Known']
    BY <1>0, <1>3, <1>12 DEF StoreFormed
  <2>2. \A d \in Known' : calls'[d].retryOf < d
    BY <1>0, <1>6, <1>12 DEF StoreFormed, Becomes
  <2> QED BY <1>0, <1>3, <1>5, <1>11, <1>12, <2>1, <2>2 DEF StoreFormed
<1>14. HandlesGiven'
  <2>1. \A d \in Known : HandedOff(d) => HandedOff(d)'
    BY <1>6 DEF Becomes, HandedOff
  <2>2. HandedOff(c)'
    BY <1>2, <1>4, <1>5, CallStoreAssumption DEF HandedOff
  <2>3. \A t \in Task : tasks'[t] = IF t = a.task THEN c ELSE tasks[t]
    BY <1>0, <1>3 DEF StoreFormed
  <2>4. \A t \in Task : tasks[t] # Nobody => tasks[t] \in Known
    BY <1>0 DEF StoreFormed
  <2> QED BY <1>0, <2>1, <2>2, <2>3, <2>4 DEF HandlesGiven
<1> QED BY <1>7, <1>8, <1>10, <1>11, <1>13, <1>14, MarksHold, AskingHolds DEF Books

-----------------------------------------------------------------------------
(* The frames that open a call, or continue one. *)

(* A call's id is taken by a request: that changes no more than whether it can be named. *)
LEMMA RenamedOnly ==
  ASSUME StoreFormed, NEW q, NEW d \in Known
  PROVE  /\ Renamed(q)[d] \in Entry /\ Stays(calls[d], Renamed(q)[d])
         /\ Renamed(q)[d].asked = calls[d].asked /\ Renamed(q)[d].retired = calls[d].retired
         /\ Renamed(q)[d].task = calls[d].task /\ Renamed(q)[d].sig = calls[d].sig
         /\ Renamed(q)[d].method = calls[d].method /\ Renamed(q)[d].retryOf = calls[d].retryOf
         /\ Renamed(q)[d].exch = calls[d].exch
<1>1. calls[d] \in Entry
  BY KnownIs
<1>2. CASE Renamed(q)[d] = calls[d]
  BY <1>1, <1>2 DEF Stays
<1>3. CASE Renamed(q)[d] = [calls[d] EXCEPT !.named = FALSE]
  <2> DEFINE r == [calls[d] EXCEPT !.named = FALSE]
  <2>1. r \in Entry
    BY <1>1 DEF Entry
  <2>2. /\ Stays(calls[d], r)
        /\ r.asked = calls[d].asked /\ r.retired = calls[d].retired
        /\ r.task = calls[d].task /\ r.sig = calls[d].sig
        /\ r.method = calls[d].method /\ r.retryOf = calls[d].retryOf
        /\ r.exch = calls[d].exch
    BY <1>1 DEF Entry, Stays
  <2> HIDE DEF r
  <2>3. Renamed(q)[d] = r
    BY <1>3 DEF r
  <2> QED BY <2>1, <2>2, <2>3
<1> QED BY <1>2, <1>3 DEF Renamed

(* A retry that continues a parked call. *)
LEMMA ContinueKeeps ==
  ASSUME Books, NEW q \in Shapes, q.id # NullId, NEW x \in Nat, NEW root \in Known,
         Continue(q, x, root), UNCHANGED scene
  PROVE  Books' /\ Frame(Nobody)
<1> DEFINE o == Renamed(q)[root]
           r == [o EXCEPT !.asked = Nothing, !.via = x, !.name = <<q.id, q.conn>>, !.named = TRUE]
<1>0. StoreFormed /\ Marks /\ HandlesGiven /\ PendingExact /\ ParkedOnce
  BY DEF Books
<1>1. /\ calls \in Seq(Entry) /\ DOMAIN calls = Known /\ \A d \in Known : calls[d] \in Entry
      /\ Known \subseteq Nat /\ Len(calls) \in Nat /\ Known = 1 .. Len(calls)
  BY <1>0, KnownIs DEF StoreFormed, Known
<1>2. DOMAIN Renamed(q) = Known
  BY DEF Renamed
<1>3. /\ calls' = [Renamed(q) EXCEPT ![root] = r]
      /\ held' = [held EXCEPT ![<<q.dir, q.id, q.conn>>] = root]
      /\ awaiting' = Kept(awaiting, Known \ {root})
      /\ UNCHANGED <<tasks, attempts, pending>>
  BY <1>2 DEF Continue, Named
<1>4. /\ r \in Entry /\ Stays(calls[root], r) /\ r.asked = Nothing
      /\ r.task = calls[root].task /\ r.sig = calls[root].sig
      /\ r.method = calls[root].method /\ r.retryOf = calls[root].retryOf
      /\ r.exch = calls[root].exch
  <2>1. /\ o \in Entry /\ Stays(calls[root], o)
        /\ o.task = calls[root].task /\ o.sig = calls[root].sig
        /\ o.method = calls[root].method /\ o.retryOf = calls[root].retryOf
        /\ o.exch = calls[root].exch
    BY <1>0, RenamedOnly
  <2>2. Nothing \in Asks /\ <<q.id, q.conn>> \in (Id \cup {NullId}) \X Conn
    BY DEF Nothing, Asks, Shapes
  <2> HIDE DEF o
  <2>3. r \in Entry
    BY <2>1, <2>2 DEF Entry
  <2>4. /\ r.state = o.state /\ r.late = o.late /\ r.errored = o.errored /\ r.failure = o.failure
        /\ r.counted = o.counted /\ r.asked = Nothing
        /\ r.task = o.task /\ r.sig = o.sig /\ r.method = o.method /\ r.retryOf = o.retryOf
        /\ r.exch = o.exch
    BY <2>1 DEF Entry
  <2> HIDE DEF r
  <2> QED BY <2>1, <2>3, <2>4 DEF Stays
<1> HIDE DEF r
<1>5. calls'[root] = r /\ \A d \in Known \ {root} : calls'[d] = Renamed(q)[d]
  BY <1>2, <1>3
<1>6. \A d \in Known : calls'[d] \in Entry
  BY <1>0, <1>4, <1>5, RenamedOnly
<1>7. calls' \in Seq(Entry) /\ Len(calls') = Len(calls)
  <2>1. calls' = [d \in 1 .. Len(calls) |-> calls'[d]]
    BY <1>1, <1>2, <1>3
  <2> QED BY <1>1, <1>6, <2>1
<1>8. ASSUME NEW d \in Known
      PROVE  /\ Stays(calls[d], calls'[d]) /\ calls'[d].task = calls[d].task
             /\ calls'[d].sig = calls[d].sig /\ calls'[d].method = calls[d].method
             /\ calls'[d].retryOf = calls[d].retryOf /\ calls'[d].exch = calls[d].exch
             /\ d # root => calls'[d].asked = calls[d].asked /\ calls'[d].retired = calls[d].retired
  BY <1>0, <1>4, <1>5, RenamedOnly
<1>9. \A d \in Known : Becomes(calls[d], calls'[d])
  BY <1>8 DEF Becomes
<1>10. Frame(Nobody)
  BY <1>7, <1>8, <1>9 DEF Frame, Stays, ComesLate, Is
<1>11. Known' = Known
  BY <1>0, <1>10, FrameKeepsKnown
<1>12. Deciding({})
  <2>1. attempts' = Forget({})
    BY <1>0, <1>3 DEF Forget, StoreFormed
  <2>2. \A d \in Known : Undecided(d)' <=> Undecided(d)
    BY <1>8 DEF Undecided, HandedOff, Is, Stays
  <2> QED BY <2>1, <2>2 DEF Deciding
<1>13. PendingExact'
  <2>1. \A d \in DOMAIN calls : calls'[d].state = "pending" <=> calls[d].state = "pending"
    BY <1>1, <1>8 DEF Stays
  <2>2. PendingIn(calls') = PendingIn(calls)
    BY <1>1, <1>7, <2>1, PendingStays
  <2> QED BY <1>0, <1>3, <2>2 DEF PendingExact
<1>14. attempts' \in [Signature -> {Nobody} \cup Known'] /\ AttemptsKept'
  BY <1>10, <1>12, AttemptsHold
<1>15. /\ awaiting \in Seq(Nat) /\ \A i \in DOMAIN awaiting : awaiting[i] \in Known
       /\ Len(awaiting) <= scene.awaitingKept
       /\ \A i, j \in DOMAIN awaiting : awaiting[i] = awaiting[j] => i = j
  BY <1>0 DEF StoreFormed, ParkedOnce
<1>16. /\ awaiting' \in Seq(Nat) /\ Len(awaiting') <= Len(awaiting)
       /\ \A n \in DOMAIN awaiting' : \E i \in DOMAIN awaiting : awaiting'[n] = awaiting[i]
       /\ \A i \in DOMAIN awaiting : awaiting[i] \in Known \ {root} =>
                                       \E n \in DOMAIN awaiting' : awaiting'[n] = awaiting[i]
       /\ \A i, j \in DOMAIN awaiting' : awaiting'[i] = awaiting'[j] => i = j
  <2> DEFINE S == Known \ {root}
             K == Kept(awaiting, S)
  <2>1. awaiting' = K
    BY <1>3
  <2> HIDE DEF S
  <2>2. /\ K \in Seq(Nat)
        /\ \A n \in DOMAIN K : \E i \in DOMAIN awaiting : awaiting[i] \in S /\ K[n] = awaiting[i]
        /\ \A i \in DOMAIN awaiting : awaiting[i] \in S => \E n \in DOMAIN K : K[n] = awaiting[i]
        /\ Len(K) <= Len(awaiting)
    BY <1>15, KeptIsPart
  <2>3. \A i, j \in DOMAIN K : K[i] = K[j] => i = j
    BY <1>15, KeptIsPart
  <2> HIDE DEF K
  <2>4. \A i \in DOMAIN awaiting : awaiting[i] \in S => \E n \in DOMAIN awaiting' : awaiting'[n] = awaiting[i]
    BY <2>1, <2>2
  <2>5. \A n \in DOMAIN awaiting' : \E i \in DOMAIN awaiting : awaiting'[n] = awaiting[i]
    BY <2>1, <2>2
  <2> QED BY <2>1, <2>2, <2>3, <2>4, <2>5 DEF S
<1>17. ParkedOnce'
  <2>1. ASSUME NEW d \in Known, Is(d, "pending")', calls'[d].asked # Nothing
        PROVE  d \in ToSet(awaiting') \/ calls'[d].retired
    <3>1. d # root
      BY <1>4, <1>5, <2>1
    <3>2. Is(d, "pending") /\ calls[d].asked # Nothing
      BY <1>8, <2>1, <3>1 DEF Stays, Is
    <3>3. d \in ToSet(awaiting) \/ calls[d].retired
      BY <1>0, <3>2 DEF ParkedOnce
    <3>4. CASE d \in ToSet(awaiting)
      BY <1>16, <3>1, <3>4 DEF ToSet
    <3>5. CASE calls[d].retired
      BY <1>8, <3>1, <3>5
    <3> QED BY <3>3, <3>4, <3>5
  <2>2. Len(awaiting') <= scene.awaitingKept
    <3>1. scene.awaitingKept \in Nat
      BY <1>0, ScenesSay
    <3> QED BY <1>15, <1>16, <3>1
  <2> QED BY <1>11, <1>16, <2>1, <2>2 DEF ParkedOnce, Is, Nothing
<1>18. StoreFormed'
  <2>1. held' \in [Key -> {Nobody} \cup Known']
    BY <1>0, <1>3, <1>11 DEF StoreFormed
  <2>2. \A d \in Known' : calls'[d].retryOf < d
    BY <1>0, <1>8, <1>11 DEF StoreFormed
  <2>3. \A i \in DOMAIN awaiting' : awaiting'[i] \in Known
    BY <1>15, <1>16
  <2> QED BY <1>0, <1>3, <1>7, <1>11, <1>14, <1>16, <2>1, <2>2, <2>3 DEF StoreFormed
<1> QED BY <1>3, <1>10, <1>13, <1>14, <1>17, <1>18, MarksHold, HandlesHold DEF Books

(* A frame that opens a call: old is the one it may displace. *)
Opening(old) ==
  /\ calls' \in Seq(Entry) /\ Len(calls') = Len(calls) + 1 /\ Len(calls') <= scene.most
  /\ calls'[Len(calls) + 1].state \in Ongoing
  /\ \A d \in Known :
       /\ Becomes(calls[d], calls'[d]) /\ ~ComesLate(calls[d], calls'[d])
       /\ calls'[d].state # calls[d].state => calls'[d].state = "superseded" /\ d = old

(* The call a request opens. *)
Fresh(q, x, again) ==
  [dir |-> q.dir, id |-> q.id, conn |-> q.conn, exch |-> x,
   method |-> q.method, sig |-> q.sig, closes |-> q.closes,
   state |-> IF q.method = "listen" THEN "streaming" ELSE "pending",
   task |-> IF q.method = "tasks" THEN q.task ELSE NoTask,
   late |-> FALSE, errored |-> FALSE, failure |-> "none",
   asked |-> Nothing, retired |-> FALSE, retryOf |-> again,
   counted |-> 0, name |-> <<q.id, q.conn>>, via |-> x, named |-> TRUE]

(* It is a call that waits, and that nothing was said of yet. *)
LEMMA FreshIsEntry ==
  ASSUME NEW q \in Shapes, NEW x \in Nat, NEW again \in Nat
  PROVE  /\ Fresh(q, x, again) \in Entry
         /\ Fresh(q, x, again).sig = q.sig /\ Fresh(q, x, again).exch = x
         /\ Fresh(q, x, again).retryOf = again /\ Fresh(q, x, again).asked = Nothing
         /\ Fresh(q, x, again).state = IF q.method = "listen" THEN "streaming" ELSE "pending"
         /\ ~(Fresh(q, x, again).method = "tool" /\ Fresh(q, x, again).task # NoTask)
         /\ ~Fresh(q, x, again).late /\ ~Fresh(q, x, again).errored
         /\ Fresh(q, x, again).failure = "none" /\ Fresh(q, x, again).counted = 0
<1> DEFINE st == IF q.method = "listen" THEN "streaming" ELSE "pending"
           tk == IF q.method = "tasks" THEN q.task ELSE NoTask
<1>1. st \in State /\ tk \in Task \cup {NoTask} /\ Nothing \in Asks
  BY DEF State, Shapes, Nothing, Asks
<1>2. /\ q.dir \in Dir /\ q.id \in Id \cup {NullId} /\ q.conn \in Conn /\ q.closes \in BOOLEAN
      /\ q.method \in {"tool", "listen", "tasks", "list", "other"} /\ q.sig \in Signature \cup {NoSig}
      /\ <<q.id, q.conn>> \in (Id \cup {NullId}) \X Conn
  BY DEF Shapes
<1>3. Fresh(q, x, again) \in Entry
  <2> HIDE DEF st, tk
  <2>1. [dir |-> q.dir, id |-> q.id, conn |-> q.conn, exch |-> x,
         method |-> q.method, sig |-> q.sig, closes |-> q.closes, state |-> st, task |-> tk,
         late |-> FALSE, errored |-> FALSE, failure |-> "none",
         asked |-> Nothing, retired |-> FALSE, retryOf |-> again,
         counted |-> 0, name |-> <<q.id, q.conn>>, via |-> x, named |-> TRUE] \in Entry
    BY <1>1, <1>2 DEF Entry
  <2> QED BY <2>1 DEF Fresh, st, tk
<1>4. Fresh(q, x, again).state = st /\ Fresh(q, x, again).task = tk /\ Fresh(q, x, again).method = q.method
  BY DEF Fresh
<1>5. ~(Fresh(q, x, again).method = "tool" /\ Fresh(q, x, again).task # NoTask)
  BY <1>4
<1> QED BY <1>3, <1>4, <1>5 DEF Fresh

(* A request: its call is opened, the one whose id it takes is displaced, and the attempt of
   its signature is its own from now on (openCall, noteAttempt). *)
LEMMA OpenCallKeeps ==
  ASSUME Books, NEW q \in Shapes, NEW x \in Nat, OpenCall(q, x), UNCHANGED scene
  PROVE  /\ Books' /\ \E old \in {Nobody} \cup Known : Opening(old)
         /\ calls'[Len(calls) + 1].exch = x
<1> DEFINE n    == Len(calls) + 1
           prev == IF q.id = NullId THEN Nobody ELSE held[<<q.dir, q.id, q.conn>>]
           gone == IF prev # Nobody /\ Open(prev) THEN {prev} ELSE {}
           again == Repeated(q, gone)
           new  == Fresh(q, x, again)
           rest == [d \in Known |-> IF d \in gone THEN [Renamed(q)[d] EXCEPT !.state = "superseded"]
                                                   ELSE Renamed(q)[d]]
<1>0. StoreFormed /\ Marks /\ HandlesGiven /\ PendingExact /\ ParkedOnce /\ AttemptsKept
  BY DEF Books
<1>1. /\ calls \in Seq(Entry) /\ DOMAIN calls = Known /\ \A d \in Known : calls[d] \in Entry
      /\ Known \subseteq Nat /\ Len(calls) \in Nat /\ Known = 1 .. Len(calls) /\ Nobody \notin Known
  BY <1>0, KnownIs DEF StoreFormed, Known
<1>2. prev \in {Nobody} \cup Known
  <2>1. q.id # NullId => <<q.dir, q.id, q.conn>> \in Key
    BY DEF Shapes, Key
  <2> QED BY <1>0, <2>1 DEF StoreFormed
<1>3. /\ n <= scene.most /\ calls' = Append(rest, new)
      /\ held' = Named(q, n)
      /\ attempts' = IF q.sig = NoSig THEN attempts ELSE [attempts EXCEPT ![q.sig] = n]
      /\ pending' = pending + (IF q.method = "listen" THEN 0 ELSE 1) - Slots(gone)
      /\ UNCHANGED <<tasks, awaiting>>
  BY DEF OpenCall, Fresh
<1>4. gone \subseteq Known /\ (\A d \in gone : Open(d)) /\ gone \subseteq {prev}
  BY <1>2
<1>5. again \in Nat /\ again <= Len(calls)
  <2>1. q.sig # NoSig => attempts[q.sig] \in {Nobody} \cup Known
    BY <1>0 DEF StoreFormed, Shapes
  <2>2. again \in {Nobody} \cup Known
    BY <2>1 DEF Repeated
  <2> QED BY <1>1, <2>2 DEF Nobody
<1> HIDE DEF again, prev, gone
<1>6. /\ new \in Entry /\ new.sig = q.sig /\ new.exch = x /\ new.retryOf = again /\ new.asked = Nothing
      /\ new.state = (IF q.method = "listen" THEN "streaming" ELSE "pending")
      /\ ~(new.method = "tool" /\ new.task # NoTask)
      /\ ~new.late /\ ~new.errored /\ new.failure = "none" /\ new.counted = 0
  <2>1. again \in Nat
    BY <1>5
  <2>2. \A a \in Nat :
          /\ Fresh(q, x, a) \in Entry
          /\ Fresh(q, x, a).sig = q.sig /\ Fresh(q, x, a).exch = x
          /\ Fresh(q, x, a).retryOf = a /\ Fresh(q, x, a).asked = Nothing
          /\ Fresh(q, x, a).state = (IF q.method = "listen" THEN "streaming" ELSE "pending")
          /\ ~(Fresh(q, x, a).method = "tool" /\ Fresh(q, x, a).task # NoTask)
    BY FreshIsEntry
  <2>3. \A a \in Nat :
          /\ ~Fresh(q, x, a).late /\ ~Fresh(q, x, a).errored
          /\ Fresh(q, x, a).failure = "none" /\ Fresh(q, x, a).counted = 0
    BY FreshIsEntry
  <2> HIDE DEF new
  <2>4. new = Fresh(q, x, again)
    BY DEF new
  <2> QED BY <2>1, <2>2, <2>3, <2>4
<1> HIDE DEF new
<1>7. ASSUME NEW d \in Known
      PROVE  /\ rest[d] \in Entry
             /\ rest[d].asked = calls[d].asked /\ rest[d].retired = calls[d].retired
             /\ rest[d].task = calls[d].task /\ rest[d].sig = calls[d].sig
             /\ rest[d].method = calls[d].method /\ rest[d].retryOf = calls[d].retryOf
             /\ rest[d].exch = calls[d].exch
             /\ d \notin gone => Stays(calls[d], rest[d])
             /\ d \in gone => rest[d].state = "superseded" /\ Finishes(calls[d], rest[d])
  <2> DEFINE o == Renamed(q)[d]
             r == [o EXCEPT !.state = "superseded"]
  <2>1. /\ o \in Entry /\ Stays(calls[d], o)
        /\ o.asked = calls[d].asked /\ o.retired = calls[d].retired
        /\ o.task = calls[d].task /\ o.sig = calls[d].sig
        /\ o.method = calls[d].method /\ o.retryOf = calls[d].retryOf
        /\ o.exch = calls[d].exch
    BY <1>0, RenamedOnly
  <2>2. rest[d] = IF d \in gone THEN r ELSE o
    OBVIOUS
  <2> HIDE DEF o, rest
  <2>3. CASE d \notin gone
    BY <2>1, <2>2, <2>3
  <2>4. CASE d \in gone
    <3>1. r \in Entry
      BY <2>1 DEF Entry, State
    <3>2. /\ r.state = "superseded" /\ r.late = o.late /\ r.errored = o.errored /\ r.failure = o.failure
          /\ r.counted = o.counted /\ r.asked = o.asked /\ r.retired = o.retired
          /\ r.task = o.task /\ r.sig = o.sig /\ r.method = o.method /\ r.retryOf = o.retryOf
          /\ r.exch = o.exch
      BY <2>1 DEF Entry
    <3>3. /\ calls[d].state \in Ongoing /\ ~calls[d].errored /\ calls[d].failure = "none"
          /\ calls[d].counted \in Nat
      BY <1>0, <1>1, <1>4, <2>4 DEF Open, Ongoing, Marks, Is, Entry
    <3> HIDE DEF r
    <3>4. Finishes(calls[d], r)
      BY <2>1, <3>2, <3>3 DEF Finishes, Stays, Outcomes
    <3> QED BY <2>1, <2>2, <2>4, <3>1, <3>2, <3>4
  <2> QED BY <2>3, <2>4
<1>8. rest \in Seq(Entry) /\ Len(rest) = Len(calls)
  <2>1. DOMAIN rest = 1 .. Len(calls) /\ \A d \in 1 .. Len(calls) : rest[d] \in Entry
    BY <1>1, <1>7
  <2>2. rest = [d \in 1 .. Len(calls) |-> rest[d]]
    BY <1>1
  <2> HIDE DEF rest
  <2> QED BY <1>1, <2>1, <2>2
<1> HIDE DEF rest
<1>9. /\ calls' \in Seq(Entry) /\ Len(calls') = n /\ calls'[n] = new
      /\ \A d \in Known : calls'[d] = rest[d]
  BY <1>1, <1>3, <1>6, <1>8
<1>10. Known' = Known \cup {n} /\ n \notin Known /\ n \in Nat /\ n # Nobody /\ \A d \in Known : d < n
  <2>1. DOMAIN calls' = 1 .. n
    BY <1>9
  <2> QED BY <1>1, <2>1 DEF Known, Nobody
<1> HIDE DEF n
<1>11. ASSUME NEW d \in Known
       PROVE  /\ Becomes(calls[d], calls'[d]) /\ ~ComesLate(calls[d], calls'[d])
              /\ d \notin gone => Stays(calls[d], calls'[d])
              /\ d \in gone => calls'[d].state = "superseded" /\ Finishes(calls[d], calls'[d])
              /\ calls'[d].asked = calls[d].asked /\ calls'[d].retired = calls[d].retired
              /\ calls'[d].task = calls[d].task /\ calls'[d].sig = calls[d].sig
              /\ calls'[d].method = calls[d].method /\ calls'[d].retryOf = calls[d].retryOf
              /\ calls'[d].exch = calls[d].exch
  <2>1. calls'[d] = rest[d]
    BY <1>9
  <2> QED BY <1>7, <2>1 DEF Becomes, Stays, Finishes, ComesLate, Ongoing
<1>12. Opening(prev)
  <2>1. calls'[n].state \in Ongoing
    BY <1>6, <1>9 DEF Ongoing
  <2>2. ASSUME NEW d \in Known, calls'[d].state # calls[d].state
        PROVE  calls'[d].state = "superseded" /\ d = prev
    BY <1>4, <1>11, <2>2 DEF Stays
  <2> QED BY <1>3, <1>9, <1>11, <2>1, <2>2 DEF Opening, n
<1>13. Marks'
  <2>1. ASSUME NEW d \in Known
        PROVE  /\ calls'[d].late => calls'[d].state = "cancelled"
               /\ calls'[d].errored => calls'[d].state = "failed" \/ calls'[d].late
               /\ calls'[d].failure # "none" => calls'[d].state = "failed"
               /\ calls'[d].counted = IF calls'[d].errored THEN 1 ELSE 0
    <3>1. /\ calls[d].late => calls[d].state = "cancelled"
          /\ calls[d].errored => calls[d].state = "failed" \/ calls[d].late
          /\ calls[d].failure # "none" => calls[d].state = "failed"
          /\ calls[d].counted = IF calls[d].errored THEN 1 ELSE 0
      BY <1>0 DEF Marks, Is
    <3>2. calls'[d] \in Entry
      BY <1>7, <1>9
    <3>3. CASE d \notin gone
      BY <1>11, <3>1, <3>3 DEF Stays
    <3>4. CASE d \in gone
      <4>1. Finishes(calls[d], calls'[d])
        BY <1>11, <3>4
      <4> QED BY <3>1, <3>2, <4>1 DEF Finishes, Ongoing, Outcomes, Entry
    <3> QED BY <3>3, <3>4
  <2>2. /\ ~calls'[n].late /\ ~calls'[n].errored /\ calls'[n].failure = "none" /\ calls'[n].counted = 0
    BY <1>6, <1>9
  <2> QED BY <1>10, <2>1, <2>2 DEF Marks, Is
<1>14. HandlesGiven'
  <2>1. \A d \in Known : HandedOff(d)' <=> HandedOff(d)
    BY <1>11 DEF HandedOff
  <2>2. \A t \in Task : tasks[t] # Nobody => tasks[t] \in Known
    BY <1>0 DEF StoreFormed
  <2> QED BY <1>0, <1>3, <2>1, <2>2 DEF HandlesGiven
<1>15. \A d \in Known : Undecided(d)' <=> Undecided(d)
  <2> TAKE d \in Known
  <2>1. HandedOff(d)' <=> HandedOff(d)
    BY <1>11 DEF HandedOff
  <2>2. CASE d \notin gone
    BY <1>11, <2>1, <2>2 DEF Undecided, Is, Stays
  <2>3. CASE d \in gone
    BY <1>11, <2>1, <2>3 DEF Undecided, Is, Finishes, Ongoing
  <2> QED BY <2>2, <2>3
<1>16. ~(calls'[n].method = "tool" /\ calls'[n].task # NoTask) /\ calls'[n].state \in Ongoing
       /\ calls'[n].sig = q.sig
  BY <1>6, <1>9 DEF Ongoing
<1>17. attempts \in [Signature -> {Nobody} \cup Known] /\ q.sig \in Signature \cup {NoSig} /\ NoSig \notin Signature
  BY <1>0, CallStoreAssumption DEF StoreFormed, Shapes
<1>18. /\ \A s \in Signature : attempts'[s] = IF s = q.sig THEN n ELSE attempts[s]
       /\ attempts' \in [Signature -> {Nobody} \cup Known']
  BY <1>3, <1>10, <1>17
<1>19. AttemptsKept'
  <2>1. ASSUME NEW s \in Signature, NEW d \in Known
        PROVE  attempts'[s] = d <=> calls'[d].sig = s /\ Newest(d)' /\ Undecided(d)'
    <3>1. attempts[s] = d <=> calls[d].sig = s /\ Newest(d) /\ Undecided(d)
      BY <1>0 DEF AttemptsKept
    <3>2. CASE s = q.sig
      <4>1. attempts'[s] # d
        BY <1>10, <1>18, <3>2
      <4>2. calls'[d].sig = s => ~Newest(d)'
        BY <1>1, <1>6, <1>9, <1>10, <3>2 DEF Newest
      <4> QED BY <4>1, <4>2
    <3>3. CASE s # q.sig
      <4>1. attempts'[s] = attempts[s] /\ calls'[d].sig = calls[d].sig
        BY <1>11, <1>18, <3>3
      <4>2. calls[d].sig = s => (Newest(d)' <=> Newest(d))
        BY <1>6, <1>9, <1>10, <1>11, <3>3 DEF Newest
      <4> QED BY <1>15, <3>1, <4>1, <4>2
    <3> QED BY <3>2, <3>3
  <2>2. ASSUME NEW s \in Signature
        PROVE  attempts'[s] = n <=>
                 /\ calls'[n].sig = s /\ \A d \in Known' : calls'[d].sig = calls'[n].sig => d <= n
                 /\ ~(calls'[n].method = "tool" /\ calls'[n].task # NoTask)
                 /\ calls'[n].state # "completed"
                 /\ calls'[n].state = "failed" => calls'[n].failure = "upstream"
    <3>1. \A d \in Known' : calls'[d].sig = calls'[n].sig => d <= n
      BY <1>1, <1>10
    <3>2. attempts[s] # n
      BY <1>10, <1>17
    <3>3. ~(calls'[n].method = "tool" /\ calls'[n].task # NoTask) /\ calls'[n].state # "completed"
          /\ calls'[n].state # "failed"
      BY <1>16 DEF Ongoing
    <3> QED BY <1>16, <1>18, <3>1, <3>2, <3>3
  <2>3. ASSUME NEW s \in Signature, NEW d \in Known'
        PROVE  attempts'[s] = d <=> calls'[d].sig = s /\ Newest(d)' /\ Undecided(d)'
    <3>1. CASE d \in Known
      BY <2>1, <3>1
    <3>2. CASE d = n
      BY <2>2, <3>2 DEF Newest, Undecided, HandedOff, Is
    <3> QED BY <1>10, <3>1, <3>2
  <2> QED BY <2>3 DEF AttemptsKept
<1>20. PendingExact'
  <2>1. PendingOf(calls') = (PendingOf(calls) \ gone) \cup (IF q.method = "listen" THEN {} ELSE {n})
    <3>1. \A d \in Known : calls'[d].state = "pending" <=> calls[d].state = "pending" /\ d \notin gone
      BY <1>11 DEF Stays, Finishes
    <3>2. calls'[n].state = "pending" <=> q.method # "listen"
      BY <1>6, <1>9
    <3>3. DOMAIN calls' = Known \cup {n} /\ DOMAIN calls = Known
      BY <1>1, <1>10 DEF Known
    <3> QED BY <1>10, <3>1, <3>2, <3>3 DEF PendingOf
  <2>2. /\ IsFiniteSet(PendingOf(calls)) /\ PendingIn(calls) = Cardinality(PendingOf(calls))
        /\ PendingIn(calls') = Cardinality(PendingOf(calls')) /\ PendingIn(calls) \in Nat
    BY <1>1, <1>9, PendingIsCounted
  <2>3. Slots(gone) = Cardinality(PendingOf(calls) \cap gone)
    <3>1. {d \in gone : Is(d, "pending")} = PendingOf(calls) \cap gone
      BY <1>1, <1>4 DEF PendingOf, Is
    <3> QED BY <3>1 DEF Slots
  <2>4. /\ Cardinality(PendingOf(calls) \ gone) = PendingIn(calls) - Slots(gone)
        /\ IsFiniteSet(PendingOf(calls) \ gone) /\ n \notin PendingOf(calls) \ gone
    <3>1. n \notin PendingOf(calls)
      BY <1>1, <1>10 DEF PendingOf
    <3>2. /\ IsFiniteSet(PendingOf(calls) \ gone)
          /\ Cardinality(PendingOf(calls) \ gone) =
               Cardinality(PendingOf(calls)) - Cardinality(PendingOf(calls) \cap gone)
      BY <2>2, FS_Difference
    <3> QED BY <2>2, <2>3, <3>1, <3>2
  <2>5. Slots(gone) \in Nat /\ Cardinality(PendingOf(calls) \ gone) \in Nat
    BY <2>2, <2>3, <2>4, FS_Intersection, FS_CardinalityType
  <2>6. CASE q.method = "listen"
    <3>1. PendingOf(calls') = PendingOf(calls) \ gone
      BY <2>1, <2>6
    <3> QED BY <1>0, <1>3, <2>2, <2>4, <2>5, <2>6, <3>1 DEF PendingExact
  <2>7. CASE q.method # "listen"
    <3>1. PendingOf(calls') = (PendingOf(calls) \ gone) \cup {n}
      BY <2>1, <2>7
    <3>2. Cardinality(PendingOf(calls')) = Cardinality(PendingOf(calls) \ gone) + 1
      BY <2>4, <3>1, FS_AddElement
    <3> QED BY <1>0, <1>3, <2>2, <2>4, <2>5, <2>7, <3>2 DEF PendingExact
  <2> QED BY <2>6, <2>7
<1>21. ParkedOnce'
  <2>1. ASSUME NEW d \in Known, Is(d, "pending")', calls'[d].asked # Nothing
        PROVE  d \in ToSet(awaiting) \/ calls'[d].retired
    <3>1. Is(d, "pending") /\ calls[d].asked # Nothing
      BY <1>11, <2>1 DEF Is, Stays
    <3> QED BY <1>0, <1>11, <3>1 DEF ParkedOnce
  <2>2. calls'[n].asked = Nothing
    BY <1>6, <1>9
  <2> QED BY <1>0, <1>3, <1>10, <2>1, <2>2 DEF ParkedOnce, Is, ToSet, Nothing
<1>22. StoreFormed'
  <2>1. held' \in [Key -> {Nobody} \cup Known']
    BY <1>0, <1>3, <1>10 DEF StoreFormed, Named
  <2>2. \A d \in Known' : calls'[d].retryOf < d
    <3>1. \A d \in Known : calls'[d].retryOf < d
      BY <1>0, <1>11 DEF StoreFormed
    <3>2. calls'[n].retryOf < n
      BY <1>1, <1>5, <1>6, <1>9 DEF n
    <3> QED BY <1>10, <3>1, <3>2
  <2>3. tasks' \in [Task -> {Nobody} \cup Known']
    BY <1>0, <1>3, <1>10 DEF StoreFormed
  <2>4. awaiting' \in Seq(Nat) /\ \A i \in DOMAIN awaiting' : awaiting'[i] \in Known'
    BY <1>0, <1>3, <1>10 DEF StoreFormed
  <2> QED BY <1>0, <1>3, <1>9, <1>18, <2>1, <2>2, <2>3, <2>4 DEF StoreFormed
<1> QED BY <1>2, <1>6, <1>9, <1>12, <1>13, <1>14, <1>19, <1>20, <1>21, <1>22 DEF Books, n


(* A frame the store does nothing about. *)
LEMMA StoreStays == ASSUME Books, UNCHANGED <<store, scene>> PROVE Books' /\ Frame(Nobody)
<1>1. UNCHANGED <<calls, held, tasks, attempts, awaiting, pending, scene>>
  BY DEF store
<1>2. Known' = Known
  BY <1>1 DEF Known
<1>3. StoreFormed' /\ Marks' /\ HandlesGiven' /\ AttemptsKept' /\ PendingExact' /\ ParkedOnce'
  <2>1. StoreFormed' /\ Marks' /\ HandlesGiven'
    BY <1>1, <1>2 DEF Books, StoreFormed, Marks, HandlesGiven, Is, HandedOff
  <2>2. AttemptsKept'
    BY <1>1, <1>2 DEF Books, AttemptsKept, Newest, Undecided, HandedOff, Is
  <2>3. PendingExact' /\ ParkedOnce'
    BY <1>1, <1>2 DEF Books, PendingExact, PendingIn, ParkedOnce, Is, ToSet
  <2> QED BY <2>1, <2>2, <2>3
<1>4. Frame(Nobody)
  <2>1. calls \in Seq(Entry)
    BY DEF Books, StoreFormed
  <2> QED BY <1>1, <2>1 DEF Frame, Becomes, Stays, ComesLate, Is
<1> QED BY <1>3, <1>4 DEF Books

(* Any answer (answerCall). *)
LEMMA AnswerKeeps ==
  ASSUME Books, NEW c \in Known, NEW a \in Answers, AnswerCall(c, a), UNCHANGED scene
  PROVE  Books' /\ \E late \in {Nobody} \cup Known : Frame(late)
<1>1. CASE AnswerIgnored(c)
  BY <1>1, StoreStays DEF AnswerIgnored
<1>2. CASE AnswerLate(c, a)
  BY <1>2, AnswerLateKeeps
<1>3. CASE AnswerAsks(c, a)
  BY <1>3, AnswerAsksKeeps
<1>4. CASE AnswerHandsOff(c, a)
  BY <1>4, AnswerHandsOffKeeps
<1>5. CASE AnswerSettles(c, a)
  BY <1>5, AnswerSettlesKeeps
<1> QED BY <1>1, <1>2, <1>3, <1>4, <1>5 DEF AnswerCall

(* A cancellation ends a call that is open, or none (closeStreamingCall, cancelCall). *)
LEMMA CancelsAnOpenCall ==
  ASSUME StoreFormed, NEW dir \in Dir, NEW id \in Id, NEW conn \in Conn
  PROVE  CancelTarget(dir, id, conn) \in {Nobody} \cup {c \in Known : Open(c)}
<1> DEFINE stream(d) == FindCall(d, id, conn, {c \in Known : Is(c, "streaming")})
           call      == FindCall(dir, id, conn, {c \in Known : Is(c, "pending")})
           streams   == {d \in Dir : stream(d) # Nobody /\ Is(stream(d), "streaming")}
<1>1. \A d \in Dir : stream(d) \in {Nobody} \cup Known
  BY FindsKnown
<1>2. call \in {Nobody} \cup Known
  BY FindsKnown
<1>3. CancelTarget(dir, id, conn) =
        IF "c2s" \in streams THEN stream("c2s")
        ELSE IF "s2c" \in streams THEN stream("s2c")
        ELSE IF call # Nobody /\ Is(call, "pending") /\ calls[call].task = NoTask THEN call
        ELSE Nobody
  BY DEF CancelTarget
<1> HIDE DEF stream, call
<1> QED BY <1>1, <1>2, <1>3 DEF Open, Is

-----------------------------------------------------------------------------
(* What a frame does to the store, whichever frame it is. *)
StoreStep ==
  \/ \E late \in {Nobody} \cup Known : Frame(late)
  \/ \E old \in {Nobody} \cup Known : Opening(old)

(* What the peers know stays about calls and exchanges there are. *)
LEMMA PeersHold ==
  ASSUME StoreInv, StoreStep,
         posts' \in Seq(Post), Len(posts) <= Len(posts'),
         \A x \in DOMAIN posts' : Carried(x)' \subseteq Known',
         Known' # Known => calls'[Len(calls) + 1].exch <= Len(posts'),
         over' \subseteq Known, answered' \subseteq Known, LostCalls' \subseteq Known
  PROVE  PeersFormed'
<1>1. StoreFormed /\ PeersFormed /\ Len(posts) \in Nat /\ Len(posts') \in Nat
  BY DEF StoreInv, Books, PeersFormed
<1>2. Len(calls) \in Nat /\ Known = 1 .. Len(calls) /\ \A c \in Known : calls[c].exch \in Nat
  BY <1>1, KnownIs DEF Entry
<1>3. CASE \E late \in {Nobody} \cup Known : Frame(late)
  <2>1. Known' = Known /\ \A c \in Known : calls'[c].exch = calls[c].exch
    BY <1>1, <1>3, FrameKeepsKnown DEF Frame, Becomes
  <2> QED BY <1>1, <1>2, <2>1, SMTT(30) DEF PeersFormed
<1>4. CASE \E old \in {Nobody} \cup Known : Opening(old)
  <2>1. Known' = Known \cup {Len(calls) + 1} /\ \A c \in Known : calls'[c].exch = calls[c].exch
    <3>1. Len(calls') = Len(calls) + 1 /\ DOMAIN calls' = 1 .. Len(calls')
      BY <1>4 DEF Opening
    <3>2. \A c \in Known : calls'[c].exch = calls[c].exch
      BY <1>4 DEF Opening, Becomes
    <3>3. Known' = 1 .. (Len(calls) + 1)
      BY <3>1 DEF Known
    <3>4. 1 .. (Len(calls) + 1) = (1 .. Len(calls)) \cup {Len(calls) + 1}
      BY <1>2
    <3> QED BY <1>2, <3>2, <3>3, <3>4
  <2>2. calls'[Len(calls) + 1].exch <= Len(posts')
    BY <1>2, <2>1
  <2>3. \A c \in Known' : calls'[c].exch <= Len(posts')
    BY <1>1, <1>2, <2>1, <2>2 DEF PeersFormed
  <2> QED BY <2>1, <2>3 DEF PeersFormed
<1> QED BY <1>3, <1>4 DEF StoreStep

(* What the peers end are calls there are. *)
LEMMA EndsKnown ==
  ASSUME StoreInv, NEW cs \in SUBSET Known, NEW retried, NEW how, Ends(cs, retried, how)
  PROVE  over' \subseteq Known /\ LostCalls' \subseteq Known
<1>1. over \subseteq Known /\ \A m \in lost : m[1] \in Known
  BY DEF StoreInv, PeersFormed, LostCalls
<1> DEFINE ended == {c \in cs : c \notin over /\ ~Is(c, "superseded") /\ ~HandedOff(c)}
           untold == {d \in ended : calls[d].method = "tasks" \/ d \in retried}
<1>2. over' = over \cup ended /\ lost' = lost \cup {<<c, how>> : c \in untold}
  BY DEF Ends
<1>3. ended \subseteq Known /\ untold \subseteq Known
  OBVIOUS
<1> HIDE DEF ended, untold
<1>4. \A m \in lost' : m[1] \in Known
  BY <1>1, <1>2, <1>3
<1> QED BY <1>1, <1>2, <1>3, <1>4 DEF LostCalls

(* An exchange that is over carried what it carried. *)
LEMMA DoneKeeps ==
  ASSUME StoreInv, NEW x, Over(x)
  PROVE  /\ posts' \in Seq(Post) /\ Len(posts') = Len(posts)
         /\ Len(posts) <= Len(posts')
         /\ \A y \in DOMAIN posts' : Carried(y)' \subseteq Known
<1>1. /\ posts \in Seq(Post) /\ \A y \in DOMAIN posts : Carried(y) \subseteq Known
      /\ posts' = [posts EXCEPT ![x].done = TRUE]
  BY DEF StoreInv, PeersFormed, Over
<1>2. DOMAIN posts' = DOMAIN posts /\ DOMAIN posts = 1 .. Len(posts) /\ Len(posts) \in Nat
  BY <1>1
<1>3. ASSUME NEW y \in DOMAIN posts
      PROVE  /\ posts'[y] \in Post
             /\ posts'[y].opened = posts[y].opened /\ posts'[y].continued = posts[y].continued
  <2>1. posts[y] \in Post
    BY <1>1
  <2>2. posts'[y] = IF y = x THEN [posts[y] EXCEPT !.done = TRUE] ELSE posts[y]
    BY <1>1
  <2> QED BY <2>1, <2>2 DEF Post
<1>4. posts' = [y \in 1 .. Len(posts) |-> posts'[y]]
  BY <1>1, <1>2
<1>5. posts' \in Seq(Post) /\ Len(posts') = Len(posts)
  <2>1. \A y \in 1 .. Len(posts) : posts'[y] \in Post
    BY <1>2, <1>3
  <2>2. posts' \in [1 .. Len(posts) -> Post] /\ Len(posts) \in Nat
    BY <1>2, <1>4, <2>1
  <2>3. posts' \in Seq(Post)
    BY <2>2
  <2> QED BY <1>2, <2>2, <2>3
<1>6. ASSUME NEW y \in DOMAIN posts' PROVE posts'[y].opened \cup posts'[y].continued \subseteq Known
  BY <1>1, <1>2, <1>3 DEF Carried
<1> QED BY <1>2, <1>5, <1>6 DEF Carried

(* A request travels on an exchange there is, or on the next one. *)
LEMMA CarryKeeps ==
  ASSUME StoreInv, Known \subseteq Known', Known' \subseteq Nat,
         NEW q \in Shapes, NEW x \in Nat, Exchange(q, x),
         NEW O \in SUBSET Known', NEW R \in SUBSET Known', Carry(x, q.conn, O, R)
  PROVE  /\ posts' \in Seq(Post) /\ Len(posts) <= Len(posts') /\ x <= Len(posts')
         /\ \A y \in DOMAIN posts' : Carried(y)' \subseteq Known'
<1>1. /\ posts \in Seq(Post) /\ (\A y \in DOMAIN posts : Carried(y) \subseteq Known)
      /\ Len(posts) \in Nat /\ DOMAIN posts = 1 .. Len(posts)
  BY DEF StoreInv, PeersFormed
<1>2. x = 0 \/ x = Len(posts) + 1 \/ x = Len(posts)
  BY DEF Exchange
<1>3. CASE x = 0
  BY <1>1, <1>3 DEF Carry, Carried
<1>4. CASE x # 0 /\ x = Len(posts)
  <2> DEFINE new == [posts[x] EXCEPT !.opened = posts[x].opened \cup O,
                                     !.continued = posts[x].continued \cup R]
  <2>1. x \in DOMAIN posts /\ posts[x] \in Post
    BY <1>1, <1>4
  <2>2. posts' = [posts EXCEPT ![x] = new]
    BY <1>4, <2>1 DEF Carry
  <2>3. new \in Post /\ new.opened = posts[x].opened \cup O /\ new.continued = posts[x].continued \cup R
    BY <2>1 DEF Post
  <2> HIDE DEF new
  <2>5. DOMAIN posts' = DOMAIN posts /\ \A y \in DOMAIN posts : posts'[y] = IF y = x THEN new ELSE posts[y]
    BY <1>1, <2>2
  <2>4. posts' \in Seq(Post) /\ Len(posts') = Len(posts) /\ DOMAIN posts' = DOMAIN posts
    <3>1. posts' = [y \in 1 .. Len(posts) |-> posts'[y]]
      BY <1>1, <2>2
    <3>2. \A y \in 1 .. Len(posts) : posts'[y] \in Post
      BY <1>1, <2>3, <2>5
    <3> QED BY <1>1, <2>5, <3>1, <3>2
  <2>6. \A y \in DOMAIN posts : posts'[y].opened \cup posts'[y].continued \subseteq Known'
    BY <1>1, <2>1, <2>3, <2>5 DEF Carried
  <2> QED BY <1>1, <1>4, <2>4, <2>6 DEF Carried
<1>5. CASE x = Len(posts) + 1
  <2> DEFINE new == [conn |-> q.conn, opened |-> O, continued |-> R, done |-> FALSE]
  <2>1. x \notin DOMAIN posts /\ x # 0
    BY <1>1, <1>5
  <2>2. posts' = Append(posts, new)
    BY <1>5, <2>1 DEF Carry
  <2>3. new \in Post /\ new.opened = O /\ new.continued = R
    BY DEF Post, Shapes
  <2> HIDE DEF new
  <2>4. /\ posts' \in Seq(Post) /\ Len(posts') = Len(posts) + 1 /\ posts'[x] = new
        /\ \A y \in DOMAIN posts : posts'[y] = posts[y]
    BY <1>1, <1>5, <2>2, <2>3
  <2>5. DOMAIN posts' = DOMAIN posts \cup {x}
    BY <1>1, <1>5, <2>4
  <2>6. \A y \in DOMAIN posts' : posts'[y].opened \cup posts'[y].continued \subseteq Known'
    BY <1>1, <2>3, <2>4, <2>5 DEF Carried
  <2> QED BY <1>1, <1>5, <2>4, <2>6 DEF Carried
<1> QED BY <1>2, <1>3, <1>4, <1>5


-----------------------------------------------------------------------------
(* One step of each kind. *)
LEMMA RequestKeeps ==
  ASSUME StoreInv, NEW q \in Shapes, NEW x \in Nat, Exchange(q, x), OpenCall(q, x),
         UNCHANGED <<scene, over, answered, lost>>
  PROVE  StoreInv' /\ StoreStep
<1>1. Books' /\ (\E old \in {Nobody} \cup Known : Opening(old)) /\ calls'[Len(calls) + 1].exch = x
  BY OpenCallKeeps DEF StoreInv
<1>2. StoreStep
  BY <1>1 DEF StoreStep
<1>3. /\ Len(calls) \in Nat /\ Known = 1 .. Len(calls) /\ Known' = 1 .. Len(calls')
      /\ Len(calls') = Len(calls) + 1
  BY <1>1, KnownIs DEF StoreInv, Books, Opening, Known
<1>4. Known \subseteq Known' /\ Known' \subseteq Nat /\ Len(calls) + 1 \in Known'
  BY <1>3
<1>5. Carry(x, q.conn, {Len(calls) + 1}, {})
  BY DEF OpenCall
<1>6. /\ posts' \in Seq(Post) /\ Len(posts) <= Len(posts') /\ x <= Len(posts')
      /\ \A y \in DOMAIN posts' : Carried(y)' \subseteq Known'
  <2> DEFINE O == {Len(calls) + 1}
             R == {}
  <2>1. O \in SUBSET Known' /\ R \in SUBSET Known' /\ Carry(x, q.conn, O, R)
    BY <1>4, <1>5
  <2> HIDE DEF O, R
  <2> QED BY <1>4, <2>1, CarryKeeps
<1>7. over' \subseteq Known /\ answered' \subseteq Known /\ LostCalls' \subseteq Known
  BY DEF StoreInv, PeersFormed, LostCalls
<1> QED BY <1>1, <1>2, <1>6, <1>7, PeersHold DEF StoreInv

(* Of the frames that open nothing, what is left to show is the peers' part. *)
LEMMA FrameHolds ==
  ASSUME StoreInv, Books', \E late \in {Nobody} \cup Known : Frame(late),
         posts' \in Seq(Post), Len(posts) <= Len(posts'),
         \A x \in DOMAIN posts' : Carried(x)' \subseteq Known,
         over' \subseteq Known, answered' \subseteq Known, LostCalls' \subseteq Known
  PROVE  StoreInv' /\ StoreStep
<1>1. Known' = Known
  BY FrameKeepsKnown DEF StoreInv, Books
<1>2. StoreStep
  BY DEF StoreStep
<1> QED BY <1>1, <1>2, PeersHold DEF StoreInv

(* A retry opens a call or continues a parked one (matchRetry). *)
LEMMA RetryKeeps ==
  ASSUME StoreInv, NEW r \in Known, NEW q \in Shapes, NEW x \in Nat, NEW echo, NEW keys,
         Retry(r, q, x, echo, keys)
  PROVE  StoreInv' /\ StoreStep
<1> DEFINE root == MatchRetry(r, q.method, echo, keys)
<1>1. /\ Exchange(q, x) /\ q.id # NullId /\ UNCHANGED <<scene, over, answered, lost>>
      /\ IF root = Nobody THEN OpenCall(q, x) ELSE Continue(q, x, root)
  BY DEF Retry
<1>2. root \in {Nobody} \cup Known
  BY MatchKnown DEF StoreInv, Books
<1> HIDE DEF root
<1>3. CASE root = Nobody
  BY <1>1, <1>3, RequestKeeps
<1>4. CASE root # Nobody
  <2>1. Books' /\ Frame(Nobody)
    BY <1>1, <1>2, <1>4, ContinueKeeps DEF StoreInv
  <2>2. Known' = Known /\ Known \subseteq Nat
    BY <2>1, FrameKeepsKnown, KnownIs DEF StoreInv, Books
  <2>3. Carry(x, q.conn, {}, {root})
    BY <1>1, <1>4 DEF Continue
  <2>4. /\ posts' \in Seq(Post) /\ Len(posts) <= Len(posts')
        /\ \A y \in DOMAIN posts' : Carried(y)' \subseteq Known'
    <3> DEFINE O == {}
               R == {root}
    <3>1. O \in SUBSET Known' /\ R \in SUBSET Known' /\ Carry(x, q.conn, O, R)
      BY <1>2, <1>4, <2>2, <2>3
    <3>2. Known \subseteq Known' /\ Known' \subseteq Nat
      BY <2>2
    <3> HIDE DEF O, R
    <3> QED BY <1>1, <3>1, <3>2, CarryKeeps
  <2>5. over' \subseteq Known /\ answered' \subseteq Known /\ LostCalls' \subseteq Known
    BY <1>1 DEF StoreInv, PeersFormed, LostCalls
  <2> QED BY <2>1, <2>2, <2>4, <2>5, FrameHolds
<1> QED BY <1>3, <1>4

(* A peer names a call by an id. *)
LEMMA NamedById ==
  ASSUME StoreInv, NEW r \in Known, calls[r].name[1] # NullId
  PROVE  calls[r].name[1] \in Id /\ calls[r].dir \in Dir
<1>1. calls[r] \in Entry
  BY KnownIs DEF StoreInv, Books
<1>2. calls[r].name \in (Id \cup {NullId}) \X Conn /\ calls[r].dir \in Dir
  BY <1>1 DEF Entry
<1> QED BY <1>2

(* An answer that names its request. *)
LEMMA RespondKeeps ==
  ASSUME StoreInv, NEW r \in Known, NEW conn \in DOMAIN scene.client, NEW a \in scene.answers,
         Respond(r, conn, a)
  PROVE  StoreInv' /\ StoreStep
<1> DEFINE c    == FindCall(calls[r].dir, calls[r].name[1], conn, {d \in Known : Awaits(d)})
           news == EndsCall(r, a) /\ ~HandedOff(r)
           told == CallsOf(TaskTold(r, a), a.status)
<1>0. Books /\ StoreFormed /\ PeersFormed /\ conn \in Conn /\ a \in Answers
  BY ScenesSay DEF StoreInv, Books
<1>1. /\ calls[r].name[1] # NullId
      /\ IF c = Nobody THEN UNCHANGED store ELSE AnswerCall(c, a)
      /\ over' = over \cup (IF news THEN {r} ELSE {}) \cup (IF news /\ r \notin answered THEN told ELSE {})
      /\ answered' = IF news THEN answered \cup {r} ELSE answered
      /\ posts' = IF calls[r].via = 0 THEN posts ELSE [posts EXCEPT ![calls[r].via].done = TRUE]
      /\ UNCHANGED <<scene, lost>>
  BY DEF Respond
<1>2. c \in {Nobody} \cup Known
  BY <1>0, <1>1, NamedById, FindsKnown
<1>3. told \subseteq Known
  BY DEF CallsOf
<1> HIDE DEF c, news, told
<1>4. Books' /\ \E late \in {Nobody} \cup Known : Frame(late)
  <2>1. CASE c = Nobody
    BY <1>0, <1>1, <2>1, StoreStays DEF store
  <2>2. CASE c # Nobody
    BY <1>0, <1>1, <1>2, <2>2, AnswerKeeps
  <2> QED BY <2>1, <2>2
<1>5. /\ posts' \in Seq(Post) /\ Len(posts) <= Len(posts')
      /\ \A y \in DOMAIN posts' : Carried(y)' \subseteq Known
  <2>1. CASE calls[r].via = 0
    BY <1>0, <1>1, <2>1 DEF PeersFormed, Carried
  <2>2. CASE calls[r].via # 0
    <3>1. Over(calls[r].via)
      BY <1>1, <2>2 DEF Over
    <3> QED BY <3>1, DoneKeeps
  <2> QED BY <2>1, <2>2
<1>6. over' \subseteq Known /\ answered' \subseteq Known /\ LostCalls' \subseteq Known
  BY <1>0, <1>1, <1>3 DEF PeersFormed, LostCalls
<1> QED BY <1>4, <1>5, <1>6, FrameHolds

(* The exchanges are well formed when nothing was said of them. *)
LEMMA PostsStay ==
  ASSUME StoreInv, UNCHANGED posts
  PROVE  /\ posts' \in Seq(Post) /\ Len(posts) <= Len(posts')
         /\ \A y \in DOMAIN posts' : Carried(y)' \subseteq Known
<1>1. Len(posts) \in Nat
  BY DEF StoreInv, PeersFormed
<1> QED BY <1>1 DEF StoreInv, PeersFormed, Carried

(* A notification about a task. *)
LEMMA NoticeKeeps ==
  ASSUME StoreInv, NEW t \in Task, NEW status \in Ending \cup {"working"}, TaskNotice(t, status)
  PROVE  StoreInv' /\ StoreStep
<1>1. /\ UNCHANGED <<posts, answered, lost>> /\ over' = over \cup CallsOf(t, status)
  BY DEF TaskNotice
<1>2. Books' /\ \E late \in {Nobody} \cup Known : Frame(late)
  BY TaskNoticeKeeps DEF StoreInv
<1>3. over' \subseteq Known /\ answered' \subseteq Known /\ LostCalls' \subseteq Known
  BY <1>1 DEF StoreInv, PeersFormed, LostCalls, CallsOf
<1> QED BY <1>1, <1>2, <1>3, PostsStay, FrameHolds

(* A cancellation that names its request. *)
LEMMA CancelNoticeKeeps ==
  ASSUME StoreInv, NEW r \in Known, NEW dir \in Dir, NEW conn \in DOMAIN scene.client,
         CancelNotice(r, dir, conn)
  PROVE  StoreInv' /\ StoreStep
<1> DEFINE c == CancelTarget(dir, calls[r].name[1], conn)
<1>0. Books /\ StoreFormed /\ PeersFormed /\ conn \in Conn
  BY ScenesSay DEF StoreInv, Books
<1>1. /\ calls[r].name[1] # NullId
      /\ IF c = Nobody THEN UNCHANGED store ELSE Cancelled(c)
      /\ Ends({r}, {}, "cancelled")
      /\ UNCHANGED <<scene, posts, answered, misled>>
  BY DEF CancelNotice
<1>2. c \in {Nobody} \cup {d \in Known : Open(d)}
  BY <1>0, <1>1, NamedById, CancelsAnOpenCall
<1> HIDE DEF c
<1>3. Books' /\ \E late \in {Nobody} \cup Known : Frame(late)
  <2>1. CASE c = Nobody
    BY <1>0, <1>1, <2>1, StoreStays DEF store
  <2>2. CASE c # Nobody
    BY <1>0, <1>1, <1>2, <2>2, CancelledKeeps
  <2> QED BY <2>1, <2>2
<1>4. over' \subseteq Known /\ LostCalls' \subseteq Known
  <2> DEFINE cs == {r}
             R  == {}
  <2>1. cs \in SUBSET Known /\ Ends(cs, R, "cancelled")
    BY <1>1
  <2> HIDE DEF cs, R
  <2> QED BY <2>1, EndsKnown
<1>5. answered' \subseteq Known
  BY <1>0, <1>1 DEF PeersFormed
<1> QED BY <1>1, <1>3, <1>4, <1>5, PostsStay, FrameHolds

(* A client that leaves its exchange. *)
LEMMA AbandonedKeeps ==
  ASSUME StoreInv, NEW x \in DOMAIN posts, Abandoned(x)
  PROVE  StoreInv' /\ StoreStep
<1> DEFINE c == ExchangeRequest(x)
<1>0. Books /\ StoreFormed /\ PeersFormed
  BY DEF StoreInv, Books
<1>1. /\ Over(x) /\ UNCHANGED <<scene, answered, misled>>
      /\ IF c # Nobody /\ calls[c].closes /\ Open(c) /\ calls[c].task = NoTask
         THEN Cancelled(c) ELSE UNCHANGED store
      /\ Ends({d \in Carried(x) : calls[d].closes}, posts[x].continued, "cancelled")
  BY DEF Abandoned
<1>2. c \in {Nobody} \cup Known
  BY <1>0, ExchangeKnown
<1> HIDE DEF c
<1>3. Books' /\ \E late \in {Nobody} \cup Known : Frame(late)
  <2>1. CASE c # Nobody /\ calls[c].closes /\ Open(c) /\ calls[c].task = NoTask
    BY <1>0, <1>1, <1>2, <2>1, CancelledKeeps
  <2>2. CASE ~(c # Nobody /\ calls[c].closes /\ Open(c) /\ calls[c].task = NoTask)
    BY <1>0, <1>1, <2>2, StoreStays DEF store
  <2> QED BY <2>1, <2>2
<1>4. over' \subseteq Known /\ LostCalls' \subseteq Known
  <2> DEFINE cs == {d \in Carried(x) : calls[d].closes}
  <2>1. cs \in SUBSET Known /\ Ends(cs, posts[x].continued, "cancelled")
    BY <1>0, <1>1 DEF PeersFormed
  <2> HIDE DEF cs
  <2> QED BY <2>1, EndsKnown
<1>5. answered' \subseteq Known
  BY <1>0, <1>1 DEF PeersFormed
<1> QED BY <1>1, <1>3, <1>4, <1>5, DoneKeeps, FrameHolds

(* An exchange that fails. *)
LEMMA FailureKeeps ==
  ASSUME StoreInv, NEW x \in DOMAIN posts, NEW why \in {"refused", "upstream"},
         TransportFailure(x, why)
  PROVE  StoreInv' /\ StoreStep
<1>0. Books /\ StoreFormed /\ PeersFormed
  BY DEF StoreInv, Books
<1>1. /\ Over(x) /\ UNCHANGED <<scene, answered, misled>> /\ FailExchange(x, why)
      /\ Ends(Carried(x), posts[x].continued, "failed")
  BY DEF TransportFailure
<1>2. Books' /\ \E late \in {Nobody} \cup Known : Frame(late)
  BY <1>0, <1>1, FailExchangeKeeps
<1>3. Carried(x) \in SUBSET Known
  BY <1>0 DEF PeersFormed
<1>4. over' \subseteq Known /\ LostCalls' \subseteq Known
  BY <1>1, <1>3, EndsKnown
<1>5. answered' \subseteq Known
  BY <1>0, <1>1 DEF PeersFormed
<1> QED BY <1>1, <1>2, <1>4, <1>5, DoneKeeps, FrameHolds

(* An error that names no request (applyTransportFailure, answerCall). *)
LEMMA IdlessKeeps ==
  ASSUME StoreInv, NEW x \in DOMAIN posts, NEW why \in {"none", "refused", "upstream"},
         IdlessError(x, why)
  PROVE  StoreInv' /\ StoreStep
<1> DEFINE owner == ExchangeRequest(x)
           waits == {c \in Carried(x) : c \notin answered /\ calls[c].named}
           meant == IF Cardinality(waits) = 1 THEN waits ELSE {}
           error == [kind |-> "error", ask |-> Nothing, task |-> NoTask, status |-> "working"]
<1>0. Books /\ StoreFormed /\ PeersFormed
  BY DEF StoreInv, Books
<1>1. /\ Over(x) /\ UNCHANGED <<scene, misled>>
      /\ answered' = answered \cup (IF why = "none" THEN meant ELSE {})
      /\ why # "none" => FailExchange(x, why) /\ Ends(Carried(x), posts[x].continued, "failed")
      /\ why = "none" /\ owner = Nobody =>
           UNCHANGED store /\ Ends(meant, posts[x].continued, "failed")
      /\ why = "none" /\ owner # Nobody =>
           /\ AnswerCall(owner, error) /\ UNCHANGED lost
           /\ over' = over \cup {c \in meant : ~HandedOff(c)}
  BY DEF IdlessError
<1>2. owner \in {Nobody} \cup Known
  BY <1>0, ExchangeKnown
<1>3. Carried(x) \in SUBSET Known /\ meant \in SUBSET Known
  BY <1>0 DEF PeersFormed
<1>4. error \in Answers
  BY DEF Answers, Asks, Nothing
<1> HIDE DEF owner, waits, meant, error
<1>5. CASE why # "none"
  <2>1. Books' /\ \E late \in {Nobody} \cup Known : Frame(late)
    BY <1>0, <1>1, <1>5, FailExchangeKeeps
  <2>2. over' \subseteq Known /\ LostCalls' \subseteq Known
    BY <1>1, <1>3, <1>5, EndsKnown
  <2> QED BY <1>0, <1>1, <1>5, <2>1, <2>2, DoneKeeps, FrameHolds DEF PeersFormed
<1>6. CASE why = "none" /\ owner = Nobody
  <2>1. Books' /\ \E late \in {Nobody} \cup Known : Frame(late)
    BY <1>0, <1>1, <1>6, StoreStays DEF store
  <2>2. over' \subseteq Known /\ LostCalls' \subseteq Known
    BY <1>1, <1>3, <1>6, EndsKnown
  <2> QED BY <1>0, <1>1, <1>3, <1>6, <2>1, <2>2, DoneKeeps, FrameHolds DEF PeersFormed
<1>7. CASE why = "none" /\ owner # Nobody
  <2>1. Books' /\ \E late \in {Nobody} \cup Known : Frame(late)
    BY <1>0, <1>1, <1>2, <1>4, <1>7, AnswerKeeps
  <2>2. over' \subseteq Known /\ LostCalls' \subseteq Known
    BY <1>0, <1>1, <1>3, <1>7 DEF PeersFormed, LostCalls
  <2> QED BY <1>0, <1>1, <1>3, <1>7, <2>1, <2>2, DoneKeeps, FrameHolds DEF PeersFormed
<1> QED BY <1>5, <1>6, <1>7


-----------------------------------------------------------------------------
(* The invariant holds of a session without frames. *)
LEMMA EmptyBooks == Init => StoreInv
<1> SUFFICES ASSUME Init PROVE StoreInv
  OBVIOUS
<1>1. /\ calls = <<>> /\ awaiting = <<>> /\ posts = <<>> /\ pending = 0
      /\ held = [k \in Key |-> Nobody] /\ tasks = [t \in Task |-> Nobody]
      /\ attempts = [s \in Signature |-> Nobody]
      /\ scene \in Scene /\ over = {} /\ answered = {} /\ lost = {}
  BY DEF Init
<1>2. Known = {} /\ DOMAIN awaiting = {} /\ DOMAIN posts = {} /\ Len(calls) = 0 /\ Len(awaiting) = 0
  BY <1>1 DEF Known
<1>3. scene.most \in Nat /\ scene.awaitingKept \in Nat
  BY <1>1, CallStoreAssumption DEF Scenes
<1>4. StoreFormed
  BY <1>1, <1>2, <1>3 DEF StoreFormed
<1>5. Marks /\ HandlesGiven /\ ParkedOnce
  BY <1>1, <1>2, <1>3 DEF Marks, HandlesGiven, ParkedOnce
<1>6. AttemptsKept
  BY <1>1, <1>2 DEF AttemptsKept
<1>7. PendingExact
  <2>1. {c \in DOMAIN calls : calls[c].state = "pending"} = {}
    BY <1>2 DEF Known
  <2> QED BY <1>1, <2>1, FS_EmptySet DEF PendingExact, PendingIn
<1>8. PeersFormed
  BY <1>1, <1>2 DEF PeersFormed, LostCalls
<1> QED BY <1>4, <1>5, <1>6, <1>7, <1>8 DEF StoreInv, Books

(* Every frame keeps it and does to the calls what StoreStep allows. *)
LEMMA NextKeeps == StoreInv /\ Next => StoreInv' /\ StoreStep
<1> SUFFICES ASSUME StoreInv, Next PROVE StoreInv' /\ StoreStep
  OBVIOUS
<1>0. /\ scene.requests \subseteq Shapes /\ MaxPosts \in Nat /\ 0 .. MaxPosts \subseteq Nat
  BY ScenesSay, CallStoreAssumption DEF StoreInv, Books
<1>1. ASSUME NEW q \in scene.requests, NEW x \in 0 .. MaxPosts, Request(q, x)
      PROVE  StoreInv' /\ StoreStep
  BY <1>0, <1>1, RequestKeeps DEF Request
<1>2. ASSUME NEW q \in scene.requests, NEW x \in 0 .. MaxPosts, NEW r \in Known, NEW echo, NEW keys,
             Retry(r, q, x, echo, keys)
      PROVE  StoreInv' /\ StoreStep
  BY <1>0, <1>2, RetryKeeps
<1>3. ASSUME NEW r \in Known, NEW conn \in DOMAIN scene.client, NEW a \in scene.answers,
             Respond(r, conn, a)
      PROVE  StoreInv' /\ StoreStep
  BY <1>3, RespondKeeps
<1>4. ASSUME NEW r \in Known, NEW conn \in DOMAIN scene.client, NEW dir \in Dir,
             CancelNotice(r, dir, conn)
      PROVE  StoreInv' /\ StoreStep
  BY <1>4, CancelNoticeKeeps
<1>5. ASSUME NEW t \in Task, NEW status \in Ending \cup {"working"}, TaskNotice(t, status)
      PROVE  StoreInv' /\ StoreStep
  BY <1>5, NoticeKeeps
<1>6. ASSUME NEW x \in DOMAIN posts, Abandoned(x)
      PROVE  StoreInv' /\ StoreStep
  BY <1>6, AbandonedKeeps
<1>7. ASSUME NEW x \in DOMAIN posts, NEW why \in {"refused", "upstream"}, TransportFailure(x, why)
      PROVE  StoreInv' /\ StoreStep
  BY <1>7, FailureKeeps
<1>8. ASSUME NEW x \in DOMAIN posts, NEW why \in {"none", "refused", "upstream"}, IdlessError(x, why)
      PROVE  StoreInv' /\ StoreStep
  BY <1>8, IdlessKeeps
<1> QED BY <1>1, <1>2, <1>3, <1>4, <1>5, <1>6, <1>7, <1>8 DEF Next

(* And nothing at all does not hurt it. *)
LEMMA StutterKeeps == StoreInv /\ UNCHANGED vars => StoreInv'
<1> SUFFICES ASSUME StoreInv, UNCHANGED vars PROVE StoreInv'
  OBVIOUS
<1>1. Books'
  BY StoreStays DEF StoreInv, vars, store
<1>2. PeersFormed'
  BY DEF StoreInv, PeersFormed, vars, Known, Carried, LostCalls
<1> QED BY <1>1, <1>2 DEF StoreInv

(* The store's books are well formed and agree with its calls, in every state of every session. *)
THEOREM StoreInvariance == Spec => []StoreInv
<1>1. StoreInv /\ [Next]_vars => StoreInv'
  BY NextKeeps, StutterKeeps
<1> QED BY <1>1, EmptyBooks, PTL DEF Spec

(* A listing is about the tools there are. *)
Declared == harmless \subseteq Signature

(* Only an answer changes what is declared. *)
LEMMA AnswerDeclares == ASSUME NEW c, NEW a, Declared, AnswerCall(c, a) PROVE Declared'
<1>1. CASE AnswerIgnored(c)
  BY <1>1 DEF AnswerIgnored, store, Declared
<1>2. CASE AnswerLate(c, a) \/ AnswerSettles(c, a)
  <2>1. Lists(c, a)
    BY <1>2 DEF AnswerLate, AnswerSettles
  <2> QED BY <2>1 DEF Lists, Declared
<1>3. CASE AnswerAsks(c, a) \/ AnswerHandsOff(c, a)
  <2>1. UNCHANGED harmless
    BY <1>3 DEF AnswerAsks, AnswerHandsOff
  <2> QED BY <2>1 DEF Declared
<1> QED BY <1>1, <1>2, <1>3 DEF AnswerCall

LEMMA NextDeclares == ASSUME Declared, Next PROVE Declared'
<1>0. UNCHANGED harmless => Declared'
  BY DEF Declared
<1>1. ASSUME NEW q, NEW x, OpenCall(q, x) \/ (\E root : Continue(q, x, root)) PROVE UNCHANGED harmless
  BY <1>1 DEF OpenCall, Continue
<1>2. ASSUME NEW q, NEW x, Request(q, x) PROVE Declared'
  BY <1>0, <1>1, <1>2 DEF Request
<1>3. ASSUME NEW r, NEW q, NEW x, NEW echo, NEW keys, Retry(r, q, x, echo, keys) PROVE Declared'
  <2>1. OpenCall(q, x) \/ (\E root : Continue(q, x, root))
    BY <1>3 DEF Retry
  <2> QED BY <1>0, <1>1, <2>1
<1>4. ASSUME NEW r, NEW conn, NEW a, Respond(r, conn, a) PROVE Declared'
  <2>1. UNCHANGED store \/ \E c : AnswerCall(c, a)
    BY <1>4 DEF Respond
  <2> QED BY <1>0, <2>1, AnswerDeclares DEF store
<1>5. ASSUME NEW c, Cancelled(c) PROVE UNCHANGED harmless
  BY <1>5 DEF Cancelled
<1>6. ASSUME NEW r, NEW dir, NEW conn, CancelNotice(r, dir, conn) PROVE Declared'
  <2>1. UNCHANGED store \/ \E c : Cancelled(c)
    BY <1>6 DEF CancelNotice
  <2> QED BY <1>0, <1>5, <2>1 DEF store
<1>7. ASSUME NEW t, NEW status, TaskNotice(t, status) PROVE Declared'
  BY <1>0, <1>7 DEF TaskNotice
<1>8. ASSUME NEW x, Abandoned(x) PROVE Declared'
  <2>1. UNCHANGED store \/ \E c : Cancelled(c)
    BY <1>8 DEF Abandoned
  <2> QED BY <1>0, <1>5, <2>1 DEF store
<1>9. ASSUME NEW x, NEW why, FailExchange(x, why) PROVE UNCHANGED harmless
  BY <1>9 DEF FailExchange
<1>10. ASSUME NEW x, NEW why, TransportFailure(x, why) \/ IdlessError(x, why) PROVE Declared'
  <2>1. FailExchange(x, why) \/ UNCHANGED store \/ \E c, a : AnswerCall(c, a)
    BY <1>10 DEF TransportFailure, IdlessError
  <2> QED BY <1>0, <1>9, <2>1, AnswerDeclares DEF store
<1> QED BY <1>2, <1>3, <1>4, <1>6, <1>7, <1>8, <1>10 DEF Next

(* Nor does anything else. *)
LEMMA ListingsDeclare == Spec => []Declared
<1>1. Init => Declared
  BY DEF Init, Declared
<1>2. Declared /\ [Next]_vars => Declared'
  BY NextDeclares DEF Declared, vars
<1> QED BY <1>1, <1>2, PTL DEF Spec

(* What the runs check of the books is part of it. *)
LEMMA InvariantBooks == StoreInv /\ Declared => BooksAgree
<1> SUFFICES ASSUME StoreInv, Declared PROVE BooksAgree
  OBVIOUS
<1>0. /\ StoreFormed /\ Marks /\ AttemptsKept /\ PendingExact /\ ParkedOnce /\ PeersFormed
  BY DEF StoreInv, Books
<1>1. /\ Known \subseteq Nat /\ Nobody \notin Known /\ \A c \in Known : calls[c] \in Entry
      /\ Len(posts) \in Nat
  BY <1>0, KnownIs DEF PeersFormed
<1>2. TypeOK
  <2>1. ASSUME NEW c \in Known
        PROVE  /\ calls[c].state \in State /\ calls[c].exch \in 0 .. Len(posts)
               /\ calls[c].task \in Task \cup {NoTask}
               /\ calls[c].failure \in {"none", "refused", "upstream"}
               /\ calls[c].retryOf \in 0 .. c - 1
               /\ calls[c].asked \in Asks
    <3>1. c \in Nat /\ calls[c] \in Entry /\ calls[c].retryOf < c /\ calls[c].exch <= Len(posts)
      BY <1>0, <1>1 DEF StoreFormed, PeersFormed
    <3>2. /\ calls[c].state \in State /\ calls[c].exch \in Nat /\ calls[c].retryOf \in Nat
          /\ calls[c].task \in Task \cup {NoTask}
          /\ calls[c].failure \in {"none", "refused", "upstream"} /\ calls[c].asked \in Asks
      BY <3>1 DEF Entry
    <3> QED BY <1>1, <3>1, <3>2
  <2>2. pending \in Nat
    BY <1>0, PendingIsCounted DEF PendingExact, StoreFormed
  <2>3. ToSet(awaiting) \subseteq Known
    BY <1>0 DEF StoreFormed, ToSet
  <2> QED BY <1>0, <2>1, <2>2, <2>3 DEF TypeOK, StoreFormed, PeersFormed, Declared
<1>3. CountedOnce
  BY <1>0 DEF Marks, CountedOnce
<1>4. AttemptsExact
  <2> SUFFICES ASSUME NEW s \in Signature
               PROVE  \A c : c \in {attempts[s]} \ {Nobody} <=>
                        /\ c \in Known /\ calls[c].sig = s
                        /\ \A d \in {e \in Known : calls[e].sig = s} : d <= c
                        /\ ~HandedOff(c) /\ ~Is(c, "completed")
                        /\ Is(c, "failed") => calls[c].failure = "upstream"
    BY DEF AttemptsExact
  <2>1. attempts[s] \in {Nobody} \cup Known
    BY <1>0 DEF StoreFormed
  <2>2. ASSUME NEW c \in Known
        PROVE  attempts[s] = c <=>
                 /\ calls[c].sig = s
                 /\ \A d \in {e \in Known : calls[e].sig = s} : d <= c
                 /\ ~HandedOff(c) /\ ~Is(c, "completed")
                 /\ Is(c, "failed") => calls[c].failure = "upstream"
    BY <1>0 DEF AttemptsKept, Newest, Undecided
  <2> QED BY <1>1, <2>1, <2>2
<1> QED BY <1>0, <1>2, <1>3, <1>4 DEF BooksAgree

(* The pending counter, the error counters, the attempts a new call is compared with and the list
   of parked operations agree with the calls, whatever the frames and however they arrive (Ingest). *)
THEOREM BooksBalance == Spec => []BooksAgree
BY StoreInvariance, ListingsDeclare, InvariantBooks, PTL

-----------------------------------------------------------------------------
(* Every call ends once. *)

(* What the report says was a success stays one. *)
LEMMA SuccessStands ==
  ASSUME NEW c \in Known, Becomes(calls[c], calls'[c]), Fate(c) = "succeeded"
  PROVE  /\ Stays(calls[c], calls'[c])
         /\ calls[c].failure \notin {"upstream", "refused"}
         /\ \/ calls[c].state = "completed"
            \/ calls[c].state = "cancelled" /\ calls[c].late /\ ~calls[c].errored
<1>1. /\ calls[c].failure \notin {"upstream", "refused"}
      /\ \/ calls[c].state = "completed"
         \/ calls[c].state = "cancelled" /\ calls[c].late /\ ~calls[c].errored
  BY DEF Fate, Is
<1> QED BY <1>1 DEF Becomes, Finishes, ComesLate, Ongoing

(* So a call whose repeat was answered as well stays one. *)
LEMMA AnswersStand ==
  ASSUME StoreInv, StoreStep, NEW c \in Known, AnsweredTwice(c)
  PROVE  AnsweredTwice(c)' /\ calls'[c].sig = calls[c].sig
<1>1. PICK e \in Known : e = calls[c].retryOf /\ e # Nobody
  <2>1. calls[c].retryOf \in Nat /\ calls[c].retryOf < c /\ calls[c].retryOf # 0
    BY KnownIs DEF StoreInv, Books, StoreFormed, Entry, AnsweredTwice, Nobody
  <2> QED BY <2>1, KnownIs DEF StoreInv, Books, Nobody
<1>2. \A d \in Known : Becomes(calls[d], calls'[d])
  BY DEF StoreStep, Frame, Opening
<1>3. calls'[c].retryOf = e /\ calls'[c].sig = calls[c].sig
  BY <1>1, <1>2 DEF Becomes
<1>4. /\ Is(e, "cancelled") \/ ~(calls[e].late \/ Is(e, "completed"))
      /\ Fate(e) = "succeeded" /\ Fate(c) = "succeeded"
  BY <1>1 DEF AnsweredTwice
<1>5. ASSUME NEW d \in Known, Fate(d) = "succeeded" PROVE Fate(d)' = "succeeded"
  <2>1. /\ Stays(calls[d], calls'[d])
        /\ calls[d].failure \notin {"upstream", "refused"}
        /\ \/ calls[d].state = "completed"
           \/ calls[d].state = "cancelled" /\ calls[d].late /\ ~calls[d].errored
    BY <1>2, <1>5, SuccessStands
  <2> QED BY <2>1 DEF Fate, Is, Stays
<1>6. Stays(calls[e], calls'[e])
  BY <1>1, <1>2, <1>4, SuccessStands
<1>7. Fate(e)' = "succeeded" /\ Fate(c)' = "succeeded"
  BY <1>1, <1>4, <1>5
<1> QED BY <1>1, <1>3, <1>4, <1>6, <1>7 DEF AnsweredTwice, Is, Stays

(* And what the report says ran twice is said to have run once only after a listing that calls the
   tool harmless to repeat. *)
LEMMA VerdictKept ==
  ASSUME StoreInv, StoreStep, NEW c \in Known, RanTwice(c)
  PROVE  RanTwice(c)' \/ calls[c].sig \in harmless' \ harmless
<1>1. AnsweredTwice(c) /\ calls[c].sig \notin harmless
  BY DEF RanTwice, MayRepeatEffects
<1>2. AnsweredTwice(c)' /\ calls'[c].sig = calls[c].sig
  BY <1>1, AnswersStand
<1> QED BY <1>1, <1>2 DEF RanTwice, MayRepeatEffects

(* How a status moves, for a call there is and for one that is opened. *)
LEMMA StatusMoves ==
  ASSUME StoreInv, NEW c \in Known, Known \subseteq Known', Becomes(calls[c], calls'[c])
  PROVE  /\ Stays(calls[c], calls'[c]) => StatusOf(c)' = StatusOf(c)
         /\ Finishes(calls[c], calls'[c]) =>
              /\ StatusOf(c) = "open"
              /\ StatusOf(c)' \in {"succeeded", "failed", "cancelled", "displaced"}
              /\ StatusOf(c)' = "displaced" => calls'[c].state = "superseded"
         /\ ComesLate(calls[c], calls'[c]) =>
              StatusOf(c) = "cancelled" /\ StatusOf(c)' = "answered late"
<1>1. c \in Known'
  OBVIOUS
<1>2. calls[c].late => calls[c].state = "cancelled"
  BY DEF StoreInv, Books, Marks, Is
<1>3. ASSUME Stays(calls[c], calls'[c]) PROVE StatusOf(c)' = StatusOf(c)
  BY <1>1, <1>3 DEF StatusOf, Stays, Open, Is
<1>4. ASSUME Finishes(calls[c], calls'[c])
      PROVE  /\ StatusOf(c) = "open"
             /\ StatusOf(c)' \in {"succeeded", "failed", "cancelled", "displaced"}
             /\ StatusOf(c)' = "displaced" => calls'[c].state = "superseded"
  <2>1. calls[c].state \in {"pending", "streaming"} /\ ~calls[c].late
    BY <1>2, <1>4 DEF Finishes, Ongoing
  <2>2. ~calls'[c].late /\ calls'[c].state \in {"completed", "failed", "cancelled", "superseded"}
    BY <1>4, <2>1 DEF Finishes, Outcomes
  <2>3. StatusOf(c) = "open"
    BY <2>1 DEF StatusOf, Open, Is
  <2> QED BY <1>1, <2>2, <2>3 DEF StatusOf, Open, Is
<1>5. ASSUME ComesLate(calls[c], calls'[c])
      PROVE  StatusOf(c) = "cancelled" /\ StatusOf(c)' = "answered late"
  BY <1>1, <1>5 DEF StatusOf, ComesLate, Open, Is
<1> QED BY <1>3, <1>4, <1>5


(* Which calls a frame moves into a status. *)
Into(s) == {c \in Call : StatusOf(c) # s /\ StatusOf(c)' = s}

(* A frame that opens nothing moves calls along the edges of CallLifecycle, and one at most is
   answered late. *)
LEMMA FrameMoves ==
  ASSUME StoreInv, NEW late \in {Nobody} \cup Known, Frame(late)
  PROVE  /\ \A c \in Call : StatusOf(c)' = StatusOf(c) \/ <<StatusOf(c), StatusOf(c)'>> \in Lifecycle!Edge
         /\ Into("open") = {} /\ Into("displaced") = {} /\ Into("answered late") \subseteq {late}
<1>1. Known' = Known
  BY FrameKeepsKnown DEF StoreInv, Books
<1>2. \A c \in Call \ Known : StatusOf(c) = "unseen" /\ StatusOf(c)' = "unseen"
  BY <1>1 DEF StatusOf
<1>3. ASSUME NEW c \in Known
      PROVE  \/ StatusOf(c)' = StatusOf(c)
             \/ /\ StatusOf(c) = "open" /\ StatusOf(c)' \in {"succeeded", "failed", "cancelled"}
             \/ /\ StatusOf(c) = "cancelled" /\ StatusOf(c)' = "answered late" /\ c = late
  <2>1. Becomes(calls[c], calls'[c]) /\ (calls'[c].state = "superseded" => calls[c].state = "superseded")
        /\ (ComesLate(calls[c], calls'[c]) => c = late)
    BY DEF Frame, Is
  <2>2. CASE Stays(calls[c], calls'[c])
    BY <1>1, <2>1, <2>2, StatusMoves
  <2>3. CASE Finishes(calls[c], calls'[c])
    <3>1. calls'[c].state # "superseded"
      BY <2>1, <2>3 DEF Finishes, Ongoing
    <3>2. /\ StatusOf(c) = "open" /\ StatusOf(c)' \in {"succeeded", "failed", "cancelled", "displaced"}
          /\ StatusOf(c)' = "displaced" => calls'[c].state = "superseded"
      BY <1>1, <2>1, <2>3, StatusMoves
    <3> QED BY <3>1, <3>2
  <2>4. CASE ComesLate(calls[c], calls'[c])
    BY <1>1, <2>1, <2>4, StatusMoves
  <2> QED BY <2>1, <2>2, <2>3, <2>4 DEF Becomes
<1>4. \A c \in Call : StatusOf(c)' = StatusOf(c) \/ <<StatusOf(c), StatusOf(c)'>> \in Lifecycle!Edge
  BY <1>2, <1>3 DEF Lifecycle!Edge
<1> QED BY <1>2, <1>3, <1>4 DEF Into

(* One that opens a call opens one, and displaces at most one. *)
LEMMA OpeningMoves ==
  ASSUME StoreInv, NEW old \in {Nobody} \cup Known, Opening(old), UNCHANGED scene
  PROVE  /\ \A c \in Call : StatusOf(c)' = StatusOf(c) \/ <<StatusOf(c), StatusOf(c)'>> \in Lifecycle!Edge
         /\ Into("open") = {Len(calls) + 1} /\ Into("displaced") \subseteq {old}
         /\ Into("answered late") = {}
<1>1. Len(calls) \in Nat /\ Known = 1 .. Len(calls) /\ StoreFormed
  BY KnownIs DEF StoreInv, Books
<1>2. PICK n \in Nat : n = Len(calls) + 1
  BY <1>1
<1>3. /\ Len(calls') = n /\ n <= scene.most /\ calls'[n].state \in Ongoing /\ calls' \in Seq(Entry)
      /\ \A d \in Known : /\ Becomes(calls[d], calls'[d]) /\ ~ComesLate(calls[d], calls'[d])
                          /\ calls'[d].state # calls[d].state => calls'[d].state = "superseded" /\ d = old
  BY <1>2 DEF Opening
<1>4. n \in Call /\ n \notin Known /\ Known' = Known \cup {n} /\ Known \subseteq Known'
  <2>1. n \in 1 .. MaxCalls
    BY <1>1, <1>2, <1>3, ScenesSay, CallStoreAssumption
  <2>2. Known' = 1 .. n
    BY <1>2, <1>3 DEF Known
  <2>3. 1 .. n = (1 .. Len(calls)) \cup {n} /\ n \notin 1 .. Len(calls)
    BY <1>1, <1>2
  <2> QED BY <1>1, <2>1, <2>2, <2>3 DEF Call
<1>5. StatusOf(n) = "unseen" /\ StatusOf(n)' = "open"
  <2>1. calls'[n].state \in {"pending", "streaming"} /\ n \in Known'
    BY <1>3, <1>4 DEF Ongoing
  <2> QED BY <1>4, <2>1 DEF StatusOf, Open, Is
<1>6. \A c \in Call \ Known' : StatusOf(c) = "unseen" /\ StatusOf(c)' = "unseen"
  BY <1>4 DEF StatusOf
<1>7. ASSUME NEW c \in Known
      PROVE  \/ StatusOf(c)' = StatusOf(c)
             \/ StatusOf(c) = "open" /\ StatusOf(c)' = "displaced" /\ c = old
  <2>1. CASE Stays(calls[c], calls'[c])
    BY <1>3, <1>4, <2>1, StatusMoves
  <2>2. CASE Finishes(calls[c], calls'[c])
    <3>1. calls'[c].state = "superseded" /\ c = old
      BY <1>3, <2>2 DEF Finishes, Ongoing, Outcomes
    <3>2. StatusOf(c) = "open"
      BY <1>3, <1>4, <2>2, StatusMoves
    <3>3. StatusOf(c)' = "displaced"
      BY <1>4, <3>1 DEF StatusOf, Open, Is
    <3> QED BY <3>1, <3>2, <3>3
  <2> QED BY <1>3, <2>1, <2>2 DEF Becomes
<1>8. ASSUME NEW c \in Call
      PROVE  \/ StatusOf(c)' = StatusOf(c)
             \/ c = n
             \/ StatusOf(c) = "open" /\ StatusOf(c)' = "displaced" /\ c = old
  BY <1>4, <1>6, <1>7
<1>9. \A c \in Call : StatusOf(c)' = StatusOf(c) \/ <<StatusOf(c), StatusOf(c)'>> \in Lifecycle!Edge
  BY <1>5, <1>8 DEF Lifecycle!Edge
<1>10. Into("open") = {n}
  BY <1>4, <1>5, <1>8 DEF Into
<1>11. Into("displaced") \subseteq {old} /\ Into("answered late") = {}
  BY <1>5, <1>8 DEF Into
<1> QED BY <1>2, <1>9, <1>10, <1>11

(* Sets of at most one member. *)
LEMMA SmallSets ==
  /\ Cardinality({}) = 0
  /\ \A c : Cardinality({c}) = 1
  /\ \A c, S : S \subseteq {c} => Cardinality(S) \in Nat /\ Cardinality(S) <= 1
<1>1. Cardinality({}) = 0 /\ \A c : Cardinality({c}) = 1
  BY FS_EmptySet, FS_Singleton
<1>2. ASSUME NEW c, NEW S, S \subseteq {c} PROVE Cardinality(S) \in Nat /\ Cardinality(S) <= 1
  <2>1. S = {} \/ S = {c}
    BY <1>2
  <2> QED BY <1>1, <2>1
<1> QED BY <1>1, <1>2

(* Every call has a status after the step. *)
LEMMA StatusTypedAfter == ASSUME NEW c PROVE StatusOf(c)' \in Lifecycle!Status
BY DEF StatusOf, Lifecycle!Status, Open, Is

(* So every frame is a step of CallLifecycle. *)
LEMMA StepLives ==
  ASSUME StoreInv, StoreStep, UNCHANGED scene
  PROVE  Lifecycle!Frame
<1>1. /\ \A c \in Call : StatusOf(c)' = StatusOf(c) \/ <<StatusOf(c), StatusOf(c)'>> \in Lifecycle!Edge
      /\ Cardinality(Into("open")) <= 1 /\ Cardinality(Into("answered late")) <= 1
      /\ Cardinality(Into("displaced")) <= Cardinality(Into("open"))
  <2>1. CASE \E late \in {Nobody} \cup Known : Frame(late)
    <3>1. PICK late \in {Nobody} \cup Known : Frame(late)
      BY <2>1
    <3>2. /\ \A c \in Call : StatusOf(c)' = StatusOf(c) \/ <<StatusOf(c), StatusOf(c)'>> \in Lifecycle!Edge
          /\ Into("open") = {} /\ Into("displaced") = {} /\ Into("answered late") \subseteq {late}
      BY <3>1, FrameMoves
    <3>3. Cardinality(Into("open")) = 0 /\ Cardinality(Into("displaced")) = 0
      BY <3>2, SmallSets
    <3>4. Cardinality(Into("answered late")) <= 1
      BY <3>2, SmallSets
    <3>5. Cardinality(Into("open")) <= 1 /\ Cardinality(Into("displaced")) <= Cardinality(Into("open"))
      BY <3>3
    <3> QED BY <3>2, <3>4, <3>5
  <2>2. CASE \E old \in {Nobody} \cup Known : Opening(old)
    <3>1. PICK old \in {Nobody} \cup Known : Opening(old)
      BY <2>2
    <3> QED BY <3>1, OpeningMoves, SmallSets
  <2> QED BY <2>1, <2>2 DEF StoreStep
<1>2. \A s : Lifecycle!Moved(s) = Into(s)
  BY DEF Lifecycle!Moved, Into
<1>3. [c \in Call |-> StatusOf(c)]' \in [Call -> Lifecycle!Status]
  BY StatusTypedAfter
<1>4. \A c \in Call : \/ [d \in Call |-> StatusOf(d)]'[c] = [d \in Call |-> StatusOf(d)][c]
                      \/ <<[d \in Call |-> StatusOf(d)][c], [d \in Call |-> StatusOf(d)]'[c]>> \in Lifecycle!Edge
  BY <1>1
<1>5. Cardinality(Lifecycle!Moved("open")) <= 1 /\ Cardinality(Lifecycle!Moved("answered late")) <= 1
  BY <1>1, <1>2
<1>6. Cardinality(Lifecycle!Moved("displaced")) <= Cardinality(Lifecycle!Moved("open"))
  BY <1>1, <1>2
<1> DEFINE st == [c \in Call |-> StatusOf(c)]
<1>7. st' \in [Call -> Lifecycle!Status]
  BY <1>3
<1>8. \A c \in Call : st'[c] = st[c] \/ <<st[c], st'[c]>> \in Lifecycle!Edge
  BY <1>4
<1>9. Lifecycle!Frame <=>
        /\ st' \in [Call -> Lifecycle!Status]
        /\ \A c \in Call : st'[c] = st[c] \/ <<st[c], st'[c]>> \in Lifecycle!Edge
        /\ Cardinality(Lifecycle!Moved("open")) <= 1
        /\ Cardinality(Lifecycle!Moved("answered late")) <= 1
        /\ Cardinality(Lifecycle!Moved("displaced")) <= Cardinality(Lifecycle!Moved("open"))
  <2>1. \A S : Lifecycle!Cardinality(S) = Cardinality(S)
    BY DEF Lifecycle!Cardinality, Cardinality
  <2> QED BY <2>1 DEF Lifecycle!Frame
<1> HIDE DEF st
<1> QED BY <1>5, <1>6, <1>7, <1>8, <1>9

(* Who is connected does not change. *)
LEMMA NextLeavesScene == Next => UNCHANGED scene
<1>1. \A q, x : Request(q, x) => UNCHANGED scene
  BY DEF Request
<1>2. \A r, q, x, echo, keys : Retry(r, q, x, echo, keys) => UNCHANGED scene
  BY DEF Retry
<1>3. \A r, conn, a : Respond(r, conn, a) => UNCHANGED scene
  BY DEF Respond
<1>4. \A r, dir, conn : CancelNotice(r, dir, conn) => UNCHANGED scene
  BY DEF CancelNotice
<1>5. \A t, status : TaskNotice(t, status) => UNCHANGED scene
  BY DEF TaskNotice
<1>6. \A x : Abandoned(x) => UNCHANGED scene
  BY DEF Abandoned
<1>7. \A x, why : TransportFailure(x, why) \/ IdlessError(x, why) => UNCHANGED scene
  BY DEF TransportFailure, IdlessError
<1> QED BY <1>1, <1>2, <1>3, <1>4, <1>5, <1>6, <1>7 DEF Next

(* A step that changes nothing changes no status. *)
LEMMA StatusStays == UNCHANGED vars => \A c \in Call : StatusOf(c)' = StatusOf(c)
BY DEF vars, StatusOf, Known, Open, Is

(* The store implements CallLifecycle: every call is opened once, ends once and keeps its outcome but
   for one late answer to a cancelled one; and a verdict that a tool ran twice stands until a listing calls
   the tool harmless to repeat (duplicateOf, mayRepeatEffects). *)
THEOREM CallsEndOnce == Spec => EndsOnce
<1>1. Init => Lifecycle!Init
  <2> SUFFICES ASSUME Init PROVE Lifecycle!Init
    OBVIOUS
  <2>1. Known = {}
    BY DEF Init, Known
  <2>2. \A c \in Call : StatusOf(c) = "unseen"
    BY <2>1 DEF StatusOf
  <2> QED BY <2>2 DEF Lifecycle!Init
<1>2. StoreInv /\ [Next]_vars => [Lifecycle!Frame]_([c \in Call |-> StatusOf(c)])
  <2>1. ASSUME StoreInv, Next PROVE Lifecycle!Frame
    BY <2>1, NextKeeps, NextLeavesScene, StepLives
  <2>2. ASSUME UNCHANGED vars PROVE UNCHANGED [c \in Call |-> StatusOf(c)]
    BY <2>2, StatusStays
  <2> QED BY <2>1, <2>2
<1>3. StoreInv /\ [Next]_vars =>
        [\A c \in Known : RanTwice(c) => RanTwice(c)' \/ calls[c].sig \in harmless' \ harmless]_vars
  BY NextKeeps, VerdictKept
<1> QED BY <1>1, <1>2, <1>3, StoreInvariance, PTL DEF Spec, EndsOnce, OneEnd, VerdictStands, Lifecycle!Spec
============================================================================
