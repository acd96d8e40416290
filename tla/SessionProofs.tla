---------------------------- MODULE SessionProofs ----------------------------
(***************************************************************************)
(* One session: how the reverse proxy records its exchanges                *)
(* (HttpExchange), what the store tells of the tools its server lists      *)
(* (ToolListing), of operations that take several requests (Chains) and,   *)
(* its memory bounded, of every call (BoundedStore), for any number of     *)
(* exchanges, clients, pages, rounds, sessions and frames.                 *)
(*                                                                         *)
(* Exchanges.  That the numbers reach the sink in order needs what the     *)
(* goroutine in the emitter still owes the sink (Turns).  That a body is   *)
(* observed once and a refused request comes before its failure needs      *)
(* where a message of the body can be on its way: in the copy taken, in a  *)
(* frame that a goroutine waits to emit, or in the sink, one of them at a  *)
(* time (Single), and that whoever holds readMu knows how much of the body *)
(* was read (Reading).  That an exchange ends one way needs which frames   *)
(* the handler can be waiting with at each of its places (Waiting) and     *)
(* what the mark that the exchange was answered has seen (Ending).  Every  *)
(* part but Turns is about one exchange, so an action of another leaves it *)
(* alone (RestGood), and one of its own is looked at by itself.            *)
(*                                                                         *)
(* Listings.  That a list handed out as complete is one listing needs that *)
(* whoever is past the first page asks for the page after those held       *)
(* (PagesInOrder).  That no server is reported for two scopes needs that   *)
(* no two clients are in one listing, and that a cursor has the scope of   *)
(* the listing that issued it (ScopesKept); that no client is reported for *)
(* a re-fetch it had reason for needs that what is held fresh is the last  *)
(* result of its page (FreshKept).                                         *)
(*                                                                         *)
(* Operations.  That each side is charged what it took needs that the mark *)
(* is the frame the turn began with (Charges), and that a result sent      *)
(* again is recognised: the last questions recorded are those of the       *)
(* newest round, in the order SetToSeq gives them (Newest).  That a row of *)
(* the ledger has its own answer needs which round it is of (Rows).        *)
(*                                                                         *)
(* Memory.  That the summary stays exact needs what it remembers: the      *)
(* calls whose first frame has left (Hidden), each opened once, before any *)
(* frame about it (OpensOnce).  That a body released early costs it        *)
(* nothing needs that the one answer of a call is still held or behind the *)
(* cursor (Weighed); that an answer after the cancellation is counted,     *)
(* that a call still shown is still kept (AnsweredOnce).  The counters are *)
(* sums over the sessions (Sums): a fold of the community modules is the   *)
(* one solution of its own equation (SumIs, SummaryIs), which holds of a   *)
(* finite set when it holds of it without any one element.                 *)
(***************************************************************************)
EXTENDS HttpExchange, ToolListing, Chains, BoundedStore, FiniteSetTheorems, SequenceTheorems,
        NaturalsInduction, WellFoundedInduction, TLAPS

Sending(e)  == pc[e].transport
Handling(e) == pc[e].handler

(* Pieces of the body that left the client's connection. *)
Read(e) == truth[e].forwarded + truth[e].drained

(* Where a message can be: in the copy not yet delivered, on its way to the emitter, in the sink. *)
InCopy(e, f) == f \in ToSet(tap[e].seen)
Told(e, f)   == out[e]["transport"] = f \/ out[e]["handler"] = f
ShownOf(e, f)  == Logged(e, f) \/ InCopy(e, f) \/ Told(e, f)

(* The frames that settle an exchange that was answered. *)
Settling   == AnswerFrame \cup {"fragment", "truncated"}
HasSettled(e) == \E f \in Settling : Logged(e, f) \/ out[e]["handler"] = f

(* Where a goroutine delivers the copy, and where the handler is when the body is closed. *)
Writing == {"deliver", "emit"}
Closed  == {"report", "reported", "check", "bye", "end"}

(* The sink is as long as the number last taken, but for the line of the goroutine in the emitter,
   which has a frame to write; the first takes two numbers. *)
Turns ==
  /\ IF seqMu.of = <<>> THEN seq = Len(log)
     ELSE /\ seqMu.number = seq
          /\ IF seq = 2 THEN log = <<>> ELSE Len(log) = seq - 1
  /\ seq = 0 \/ seq >= 2
  /\ \A e \in Exchange, p \in Part : seqMu.of = <<e, p>> => out[e][p] # NoFrame
  /\ ExchangeInOrder

(* readMu is held by who reads or finishes, and the copy is what was read, as far as the cap. *)
Reading(e) ==
  /\ Sending(e) \in {"read", "finish", "deliver", "emit"} <=> tap[e].held = "transport"
  /\ Handling(e) = "drain" <=> tap[e].held = "handler"
  /\ truth[e].before <= truth[e].forwarded /\ Read(e) <= post[e].sent
  /\ tap[e].kept = (IF Read(e) < Cap THEN Read(e) ELSE Cap)
  /\ tap[e].cut <=> Read(e) > Cap
  /\ tap[e].ended => Read(e) = post[e].size
  /\ Sending(e) = "off" /\ Handling(e) = "trip" => ~tap[e].started

(* One goroutine delivers the copy, and before it does none of the body's messages shows. *)
Delivering(e) ==
  /\ Sending(e) \in Writing \/ Handling(e) \in Writing \cup Closed => tap[e].done
  /\ tap[e].done => Handling(e) # "trip" \/ Sending(e) \in Writing \cup {"over"}
  /\ ~(Sending(e) \in Writing /\ Handling(e) \in Writing)
  /\ ~tap[e].done => \A f \in Message : ~ShownOf(e, f)
  /\ tap[e].seen # <<>> => Sending(e) \in Writing \/ Handling(e) \in Writing

(* The frame a goroutine waits to emit is one that its place in the code writes. *)
Waiting(e) ==
  /\ out[e]["transport"] # NoFrame => Sending(e) = "emit" /\ out[e]["transport"] \in BodyFrame
  /\ out[e]["handler"] # NoFrame =>
       \/ Handling(e) = "emit" /\ out[e]["handler"] \in BodyFrame
       \/ Handling(e) = "reported" /\ out[e]["handler"] = "undelivered"
       \/ Handling(e) = "bye" /\ out[e]["handler"] = "abandoned"
       \/ /\ Handling(e) = "copied" \/ (Handling(e) = "copy" /\ reply[e].kind = "stream")
          /\ out[e]["handler"] \in (Settling \ {"undelivered"}) \cup {"event"}

(* A message of the body is in one of the three places, once. *)
Single(e) ==
  /\ \A i, j \in DOMAIN tap[e].seen : tap[e].seen[i] = tap[e].seen[j] => i = j
  /\ \A f \in Message :
       /\ Once(e, f)
       /\ InCopy(e, f) => ~Logged(e, f) /\ ~Told(e, f)
       /\ Told(e, f) => ~Logged(e, f)

(* The messages of a body that the target got whole show from when its copy is taken. *)
Whole(e) ==
  truth[e].before = post[e].size /\ post[e].size \in 1 .. Cap /\ tap[e].done
  => \A f \in Message : Holds(e, f) => ShownOf(e, f)

(* A refused body is drained before it is closed, and its request shows before the refusal is told. *)
Refusing(e) ==
  /\ reply[e].kind = "refused" =>
       /\ Sending(e) = "off"
       /\ Handling(e) \in {"close", "drain", "finish"} \cup Writing \cup Closed
       /\ Handling(e) \in {"close", "drain", "finish"} => ~tap[e].done
       /\ Handling(e) = "close" => ~tap[e].started
       /\ post[e].size \in 1 .. Cap /\ ~post[e].gone =>
            /\ Handling(e) = "finish" => Read(e) = post[e].size
            /\ Handling(e) \in Writing \cup Closed /\ Holds(e, "request") => ShownOf(e, "request")
  /\ Handling(e) \in {"report", "reported"} \/ Logged(e, "undelivered") => reply[e].kind = "refused"
  /\ Logged(e, "undelivered") => Handling(e) \in Closed

(* An exchange marked as answered was, and is not told as given up; one that was checked was either. *)
Ending(e) ==
  /\ Handling(e) = "trip" => ~state[e].answered /\ reply[e].kind = "none"
  /\ reply[e].kind \in {"plain", "opaque"} => state[e].answered
  /\ \A f \in {"answer", "failed", "undelivered"} : Logged(e, f) \/ out[e]["handler"] = f => state[e].answered
  /\ Logged(e, "abandoned") \/ out[e]["handler"] = "abandoned" => ~state[e].answered /\ Handling(e) \in {"bye", "end"}
  /\ out[e]["handler"] = "abandoned" => ~Logged(e, "abandoned")
  /\ Once(e, "abandoned")
  /\ state[e].answered /\ reply[e].kind # "opaque" /\ ~(reply[e].kind = "plain" /\ Handling(e) = "copy") => HasSettled(e)
  /\ truth[e].died => state[e].cutShort \/ Handling(e) = "cutStream"
  /\ truth[e].checked => Handling(e) \in {"bye", "end"}
                         /\ (state[e].answered \/ Logged(e, "abandoned") \/ out[e]["handler"] = "abandoned")

(* A body's messages are told apart. *)
Distinct(e) == \A i, j \in DOMAIN post[e].holds : post[e].holds[i] = post[e].holds[j] => i = j

Good(e) ==
  /\ Distinct(e) /\ Reading(e) /\ Delivering(e) /\ Waiting(e)
  /\ Single(e) /\ Whole(e) /\ Refusing(e) /\ Ending(e)

HttpInv == ExchangeTypeOK /\ Turns /\ (\A e \in Exchange : Good(e)) /\ RefusedIsSeen

-----------------------------------------------------------------------------
(* What an action of one exchange is shown to do: it keeps the exchange good, touches no other and not
   the emitter, and takes no frame back from it. *)
Others(e) ==
  /\ log' = log /\ seq' = seq /\ seqMu' = seqMu
  /\ \A d \in Exchange \ {e} :
       /\ post'[d] = post[d] /\ tap'[d] = tap[d] /\ state'[d] = state[d] /\ pc'[d] = pc[d]
       /\ reply'[d] = reply[d] /\ out'[d] = out[d] /\ truth'[d] = truth[d]
Fills(e) ==
  /\ \A p \in Part : out[e][p] # NoFrame => out'[e][p] = out[e][p]
  /\ post'[e].size = post[e].size /\ post'[e].holds = post[e].holds /\ (post[e].gone => post'[e].gone)
Sound(e) == Good(e)' /\ Others(e) /\ Fills(e) /\ ExchangeTypeOK'

Unwritten(e)  == \A f : (Logged(e, f)' <=> Logged(e, f)) /\ (Once(e, f)' <=> Once(e, f))
ShownStays(e) == \A f \in Message : ShownOf(e, f)' <=> ShownOf(e, f)

(* A step that writes nothing leaves what an exchange has in the sink. *)
LEMMA Quiet ==
  ASSUME log' = log, NEW e \in Exchange
  PROVE  Unwritten(e)
  BY DEF Unwritten, Logged, Once

(* The types of what the actions of an exchange read. *)
LEMMA EntryTypes ==
  ASSUME ExchangeTypeOK, NEW e \in Exchange
  PROVE  /\ Cap \in Nat /\ tap[e].kept \in 0 .. Cap /\ tap[e].seen \in Seq(BodyFrame)
         /\ tap[e].held \in {"no", "transport", "handler"}
         /\ truth[e].forwarded \in Nat /\ truth[e].drained \in Nat /\ truth[e].before \in Nat
         /\ post[e].size \in Nat /\ post[e].sent \in Nat /\ post[e].sent <= post[e].size
         /\ post[e].holds \in Seq(Message)
         /\ post[e].gone \in BOOLEAN /\ tap[e].done \in BOOLEAN /\ tap[e].ended \in BOOLEAN /\ tap[e].cut \in BOOLEAN
         /\ truth[e].died \in BOOLEAN /\ truth[e].checked \in BOOLEAN /\ state[e].request \in BOOLEAN
         /\ state[e].answered \in BOOLEAN /\ state[e].cutShort \in BOOLEAN /\ tap[e].started \in BOOLEAN
  BY HttpExchangeAssumption DEF ExchangeTypeOK, Taps, Truths, Posts, States, Part

(* A goroutine that waits with a frame waits with one of the frames there are. *)
LEMMA EmitsType ==
  ASSUME out \in [Exchange -> [Part -> AnyFrame \cup {NoFrame}]], NEW e \in Exchange, NEW p \in Part,
         NEW f \in AnyFrame \cup {NoFrame}, Emits(e, p, f)
  PROVE  out' \in [Exchange -> [Part -> AnyFrame \cup {NoFrame}]]
  BY DEF Emits

(* The head of a sequence without repetitions is not in its tail. *)
LEMMA HeadAndTail ==
  ASSUME NEW S, NEW s \in Seq(S), s # <<>>, \A i, j \in DOMAIN s : s[i] = s[j] => i = j
  PROVE  /\ Head(s) \in S /\ Tail(s) \in Seq(S)
         /\ \A f : f \in ToSet(s) <=> f = Head(s) \/ f \in ToSet(Tail(s))
         /\ \A i, j \in DOMAIN Tail(s) : Tail(s)[i] = Tail(s)[j] => i = j
         /\ Head(s) \notin ToSet(Tail(s))
<1>1. Head(s) \in S /\ Tail(s) \in Seq(S) /\ Head(s) = s[1] /\ Len(Tail(s)) = Len(s) - 1 /\ Len(s) \in Nat \ {0}
  OBVIOUS
<1>2. DOMAIN s = 1 .. Len(s) /\ DOMAIN Tail(s) = 1 .. Len(s) - 1
  BY <1>1
<1>3. \A i \in 1 .. Len(s) - 1 : Tail(s)[i] = s[i + 1]
  BY <1>1
<1>4. \A f : f \in ToSet(s) <=> f = Head(s) \/ f \in ToSet(Tail(s))
  <2>1. SUFFICES ASSUME NEW f PROVE f \in ToSet(s) <=> f = Head(s) \/ f \in ToSet(Tail(s))
    OBVIOUS
  <2>2. ASSUME f \in ToSet(s) PROVE f = Head(s) \/ f \in ToSet(Tail(s))
    <3>1. PICK i \in 1 .. Len(s) : s[i] = f
      BY <2>2, <1>2 DEF ToSet
    <3>2. CASE i = 1
      BY <3>1, <3>2, <1>1
    <3>3. CASE i # 1
      <4>1. i - 1 \in 1 .. Len(s) - 1 /\ Tail(s)[i - 1] = f
        BY <3>1, <3>3, <1>1, <1>3
      <4> QED BY <4>1, <1>2 DEF ToSet
    <3> QED BY <3>2, <3>3
  <2>3. ASSUME f \in ToSet(Tail(s)) PROVE f \in ToSet(s)
    <3>1. PICK i \in 1 .. Len(s) - 1 : Tail(s)[i] = f
      BY <2>3, <1>2 DEF ToSet
    <3>2. i + 1 \in 1 .. Len(s) /\ s[i + 1] = f
      BY <3>1, <1>1, <1>3
    <3> QED BY <3>2, <1>2 DEF ToSet
  <2>4. Head(s) \in ToSet(s)
    BY <1>1, <1>2 DEF ToSet
  <2> QED BY <2>2, <2>3, <2>4
<1>5. \A i, j \in DOMAIN Tail(s) : Tail(s)[i] = Tail(s)[j] => i = j
  BY <1>1, <1>2, <1>3
<1>6. Head(s) \notin ToSet(Tail(s))
  <2>1. SUFFICES ASSUME NEW i \in 1 .. Len(s) - 1, Tail(s)[i] = Head(s) PROVE FALSE
    BY <1>2 DEF ToSet
  <2>2. s[i + 1] = s[1] /\ i + 1 \in DOMAIN s /\ 1 \in DOMAIN s
    BY <2>1, <1>1, <1>2, <1>3
  <2>3. i + 1 = 1
    BY <2>2
  <2> QED BY <2>3
<1> QED BY <1>1, <1>4, <1>5, <1>6

(* What is observed of a body repeats no frame, and is its messages when the copy is whole. *)
LEMMA ObservedIs ==
  ASSUME ExchangeTypeOK, NEW e \in Exchange, Distinct(e)
  PROVE  /\ Observed(e) \in Seq(BodyFrame)
         /\ \A i, j \in DOMAIN Observed(e) : Observed(e)[i] = Observed(e)[j] => i = j
         /\ ~tap[e].cut /\ tap[e].kept = post[e].size /\ tap[e].kept # 0 => Observed(e) = post[e].holds
<1>1. post[e].holds \in Seq(BodyFrame)
  <2>1. post[e].holds \in Seq(Message) /\ Message \subseteq BodyFrame
    BY EntryTypes DEF BodyFrame
  <2> QED BY <2>1
<1>2. /\ <<"truncated">> \in Seq(BodyFrame) /\ <<"fragment">> \in Seq(BodyFrame) /\ <<>> \in Seq(BodyFrame)
      /\ DOMAIN <<"truncated">> = {1} /\ DOMAIN <<"fragment">> = {1} /\ DOMAIN <<>> = {}
  BY DEF BodyFrame
<1> QED BY <1>1, <1>2 DEF Observed, Distinct

(* A goroutine that goes to one of its places is at one. *)
LEMMA GoesType ==
  ASSUME pc \in [Exchange -> Places], NEW e \in Exchange
  PROVE  /\ \A to \in AtSend : Goes(e, "transport", to) => pc' \in [Exchange -> Places]
         /\ \A to \in AtHandle : Goes(e, "handler", to) => pc' \in [Exchange -> Places]
  BY DEF Goes, Places

(* What the actions assign to the taps are taps. *)
LEMMA TapType ==
  ASSUME tap \in [Exchange -> Taps], NEW e \in Exchange
  PROVE  /\ \A b \in BOOLEAN : [tap EXCEPT ![e].ended = b] \in [Exchange -> Taps]
         /\ \A w \in {"no"} \cup Part : [tap EXCEPT ![e].held = w] \in [Exchange -> Taps]
         /\ \A w \in {"no"} \cup Part : [tap EXCEPT ![e].held = w, ![e].started = TRUE] \in [Exchange -> Taps]
         /\ \A s \in Seq(BodyFrame) : [tap EXCEPT ![e].seen = s] \in [Exchange -> Taps]
         /\ \A s \in Seq(BodyFrame) : [tap EXCEPT ![e].done = TRUE, ![e].seen = s] \in [Exchange -> Taps]
         /\ \A t \in Taps : [tap EXCEPT ![e] = t] \in [Exchange -> Taps]
<1>1. \A b \in BOOLEAN : [tap EXCEPT ![e].ended = b] \in [Exchange -> Taps]
  BY DEF Taps
<1>2. \A w \in {"no"} \cup Part : [tap EXCEPT ![e].held = w] \in [Exchange -> Taps]
  BY DEF Taps
<1>3. \A w \in {"no"} \cup Part : [tap EXCEPT ![e].held = w, ![e].started = TRUE] \in [Exchange -> Taps]
  BY Zenon DEF Taps
<1>4. \A s \in Seq(BodyFrame) : [tap EXCEPT ![e].seen = s] \in [Exchange -> Taps]
  BY DEF Taps
<1>5. \A s \in Seq(BodyFrame) : [tap EXCEPT ![e].done = TRUE, ![e].seen = s] \in [Exchange -> Taps]
  BY Zenon DEF Taps
<1> QED BY <1>1, <1>2, <1>3, <1>4, <1>5

(* What the actions assign to the states of the exchanges are states. *)
LEMMA StateType ==
  ASSUME state \in [Exchange -> States], NEW e \in Exchange
  PROVE  /\ \A b \in BOOLEAN : [state EXCEPT ![e].answered = b] \in [Exchange -> States]
         /\ \A b \in BOOLEAN : [state EXCEPT ![e].request = b] \in [Exchange -> States]
         /\ \A b, c \in BOOLEAN : [state EXCEPT ![e].answered = b, ![e].cutShort = c] \in [Exchange -> States]
<1>1. \A b \in BOOLEAN : [state EXCEPT ![e].answered = b] \in [Exchange -> States]
  BY DEF States
<1>2. \A b \in BOOLEAN : [state EXCEPT ![e].request = b] \in [Exchange -> States]
  BY DEF States
<1>3. \A b, c \in BOOLEAN : [state EXCEPT ![e].answered = b, ![e].cutShort = c] \in [Exchange -> States]
  BY Zenon DEF States
<1> QED BY <1>1, <1>2, <1>3

(* What the actions assign to truth is of its type. *)
LEMMA TruthType ==
  ASSUME truth \in [Exchange -> Truths], NEW e \in Exchange
  PROVE  /\ \A m, n \in Nat : [truth EXCEPT ![e].forwarded = m, ![e].before = n] \in [Exchange -> Truths]
         /\ \A n \in Nat : [truth EXCEPT ![e].drained = n] \in [Exchange -> Truths]
         /\ \A b \in BOOLEAN : [truth EXCEPT ![e].died = b] \in [Exchange -> Truths]
         /\ \A b \in BOOLEAN : [truth EXCEPT ![e].checked = b] \in [Exchange -> Truths]
<1>1. \A m, n \in Nat : [truth EXCEPT ![e].forwarded = m, ![e].before = n] \in [Exchange -> Truths]
  BY Zenon DEF Truths
<1>2. \A n \in Nat : [truth EXCEPT ![e].drained = n] \in [Exchange -> Truths]
  BY DEF Truths
<1>3. \A b \in BOOLEAN : [truth EXCEPT ![e].died = b] \in [Exchange -> Truths]
  BY DEF Truths
<1>4. \A b \in BOOLEAN : [truth EXCEPT ![e].checked = b] \in [Exchange -> Truths]
  BY DEF Truths
<1> QED BY <1>1, <1>2, <1>3, <1>4

(* What the client does to its request leaves one. *)
LEMMA PostType ==
  ASSUME post \in [Exchange -> Posts], NEW e \in Exchange
  PROVE  /\ \A n \in Nat : [post EXCEPT ![e].sent = n] \in [Exchange -> Posts]
         /\ \A b \in BOOLEAN : [post EXCEPT ![e].gone = b] \in [Exchange -> Posts]
  BY DEF Posts

(* What the actions assign to the answers are answers. *)
LEMMA ReplyType ==
  ASSUME reply \in [Exchange -> Replies], NEW e \in Exchange
  PROVE  /\ \A k \in ReplyKind : [reply EXCEPT ![e].kind = k] \in [Exchange -> Replies]
         /\ \A v \in Event : [reply EXCEPT ![e].event = v] \in [Exchange -> Replies]
         /\ \A n \in 0 .. MaxLines, v \in Event :
              [reply EXCEPT ![e].lines = n, ![e].event = v] \in [Exchange -> Replies]
<1>1. \A k \in ReplyKind : [reply EXCEPT ![e].kind = k] \in [Exchange -> Replies]
  BY DEF Replies
<1>2. \A v \in Event : [reply EXCEPT ![e].event = v] \in [Exchange -> Replies]
  BY DEF Replies
<1>3. \A n \in 0 .. MaxLines, v \in Event : [reply EXCEPT ![e].lines = n, ![e].event = v] \in [Exchange -> Replies]
  BY Zenon DEF Replies
<1> QED BY <1>1, <1>2, <1>3

(* A piece of the body leaves a tap. *)
LEMMA KeptType ==
  ASSUME NEW t \in Taps, NEW e \in Exchange, NEW n
  PROVE  Kept(t, e, n) \in Taps /\ [Kept(t, e, n) EXCEPT !.held = "no"] \in Taps
<1> DEFINE k == IF t.kept < Cap THEN t.kept + 1 ELSE t.kept
           b == t.cut \/ t.kept >= Cap
           c == AtEnd(e, n) /\ ~post[e].eofLate
<1>1. Cap \in Nat /\ t.kept \in 0 .. Cap
  BY HttpExchangeAssumption DEF Taps
<1>2. k \in 0 .. Cap
  BY <1>1
<1>3. b \in BOOLEAN /\ c \in BOOLEAN
  BY DEF Taps
<1>4. Kept(t, e, n) = [t EXCEPT !.kept = k, !.cut = b, !.ended = c]
  BY DEF Kept, Taps
<1> HIDE DEF k, b, c
<1>5. \A i \in 0 .. Cap, x, y \in BOOLEAN : [t EXCEPT !.kept = i, !.cut = x, !.ended = y] \in Taps
  BY Zenon DEF Taps
<1>6. [t EXCEPT !.kept = k, !.cut = b, !.ended = c] \in Taps
  BY <1>2, <1>3, <1>5, Zenon
<1>7. \A u \in Taps : [u EXCEPT !.held = "no"] \in Taps
  BY DEF Taps
<1> QED BY <1>4, <1>6, <1>7

-----------------------------------------------------------------------------
(* A piece more of the body that can be read. *)
LEMMA ClientSendsKeeps ==
  ASSUME ExchangeTypeOK, NEW e \in Exchange, Good(e), ClientSends(e)
  PROVE  Sound(e)
<1>1. /\ post[e].sent < post[e].size /\ pc' = pc /\ tap' = tap /\ state' = state /\ truth' = truth
      /\ post'[e].size = post[e].size /\ post'[e].holds = post[e].holds /\ post'[e].sent = post[e].sent + 1
      /\ post'[e].gone = post[e].gone /\ reply' = reply /\ out' = out
  BY DEF ExchangeTypeOK, Posts, Taps, States, Places, Replies, Truths, Part, ClientSends
<1>2. Unwritten(e)
  BY Quiet DEF ClientSends
<1>3. ShownStays(e)
  BY <1>1, <1>2 DEF ShownStays, Good, Unwritten, ShownOf, InCopy, Told, Waiting, Sending, Handling, Message,
     Settling, AnswerFrame, NoFrame
<1>4. Reading(e)' /\ Delivering(e)' /\ Whole(e)' /\ Refusing(e)'
  BY <1>1, <1>2, <1>3, EntryTypes DEF Good, Unwritten, ShownStays, Sending, Handling, Reading, Read,
     Delivering, Writing, Closed, Whole, Holds, Refusing, Message
<1>5. Distinct(e)' /\ Waiting(e)' /\ Single(e)' /\ Ending(e)'
  BY <1>1, <1>2, <1>3, EntryTypes DEF Good, Unwritten, ShownStays, Sending, Handling, Distinct, Waiting,
     Settling, AnswerFrame, BodyFrame, Message, NoFrame, Single, InCopy, Told, Ending, HasSettled
<1>6. Others(e)
  BY DEF ExchangeTypeOK, Others, ClientSends
<1>7. Fills(e)
  BY <1>1 DEF Good, Fills, Waiting, Sending, Handling, Part, NoFrame
<1>8. ExchangeTypeOK'
  <2>1. post' \in [Exchange -> Posts]
    <3>1. /\ post \in [Exchange -> Posts]
          /\ post' = [post EXCEPT ![e].sent = post[e].sent + 1]
      BY DEF ClientSends, ExchangeTypeOK, Posts
    <3>2. post[e].sent + 1 \in Nat
      BY EntryTypes
    <3> QED BY <3>1, <3>2, PostType, Zenon
  <2>2. \A d \in Exchange : post'[d].sent <= post'[d].size
    <3>1. post'[e].sent <= post'[e].size
      BY <1>1, EntryTypes
    <3>2. \A d \in Exchange \ {e} : post'[d].sent <= post'[d].size
      BY <1>6 DEF ExchangeTypeOK, Others
    <3> QED BY <3>1, <3>2
  <2> QED BY <2>1, <2>2, <1>1, <1>6 DEF ExchangeTypeOK, ClientSends
<1> QED BY <1>4, <1>5, <1>6, <1>7, <1>8 DEF Good, Sound

(* A client that left: nothing is promised of a refused request any more. *)
LEMMA ClientLeavesKeeps ==
  ASSUME ExchangeTypeOK, NEW e \in Exchange, Good(e), ClientLeaves(e)
  PROVE  Sound(e)
<1>1. /\ pc' = pc /\ tap' = tap /\ state' = state /\ truth' = truth /\ post'[e].size = post[e].size
      /\ post'[e].holds = post[e].holds /\ post'[e].sent = post[e].sent /\ post'[e].gone = TRUE
      /\ reply' = reply /\ out' = out
  BY DEF ExchangeTypeOK, Posts, Taps, States, Places, Replies, Truths, Part, ClientLeaves
<1>2. Unwritten(e)
  BY Quiet DEF ClientLeaves
<1>3. ShownStays(e)
  BY <1>1, <1>2 DEF ShownStays, Good, Unwritten, ShownOf, InCopy, Told, Waiting, Sending, Handling, Message,
     Settling, AnswerFrame, NoFrame
<1>4. Reading(e)' /\ Delivering(e)' /\ Whole(e)' /\ Refusing(e)'
  BY <1>1, <1>2, <1>3, EntryTypes DEF Good, Unwritten, ShownStays, Sending, Handling, Reading, Read,
     Delivering, Writing, Closed, Whole, Holds, Refusing, Message
<1>5. Distinct(e)' /\ Waiting(e)' /\ Single(e)' /\ Ending(e)'
  BY <1>1, <1>2, <1>3, EntryTypes DEF Good, Unwritten, ShownStays, Sending, Handling, Distinct, Waiting,
     Settling, AnswerFrame, BodyFrame, Message, NoFrame, Single, InCopy, Told, Ending, HasSettled
<1>6. Others(e)
  BY DEF ExchangeTypeOK, Others, ClientLeaves
<1>7. Fills(e)
  BY <1>1 DEF Good, Fills, Waiting, Sending, Handling, Part, NoFrame
<1>8. ExchangeTypeOK'
  <2>1. post' \in [Exchange -> Posts]
    <3>1. /\ post \in [Exchange -> Posts]
          /\ post' = [post EXCEPT ![e].gone = TRUE]
      BY DEF ClientLeaves, ExchangeTypeOK, Posts
    <3>2. TRUE \in BOOLEAN
      OBVIOUS
    <3> QED BY <3>1, <3>2, PostType, Zenon
  <2>2. \A d \in Exchange : post'[d].sent <= post'[d].size
    <3>1. post'[e].sent <= post'[e].size
      BY <1>1, EntryTypes
    <3>2. \A d \in Exchange \ {e} : post'[d].sent <= post'[d].size
      BY <1>6 DEF ExchangeTypeOK, Others
    <3> QED BY <3>1, <3>2
  <2> QED BY <2>1, <2>2, <1>1, <1>6 DEF ExchangeTypeOK, ClientLeaves
<1> QED BY <1>4, <1>5, <1>6, <1>7, <1>8 DEF Good, Sound

(* The dial is over: no exchange that is refused comes this way. *)
LEMMA ConnectsKeeps ==
  ASSUME ExchangeTypeOK, NEW e \in Exchange, Good(e), Connects(e)
  PROVE  Sound(e)
<1>1. /\ pc[e].handler = "trip" /\ pc[e].transport = "off"
      /\ pc'[e].transport = "send" /\ pc'[e].handler = pc[e].handler /\ tap' = tap /\ state' = state
      /\ truth' = truth /\ post' = post /\ reply' = reply /\ out' = out
  BY DEF ExchangeTypeOK, Posts, Taps, States, Places, Replies, Truths, Part, Connects, Goes
<1>2. Unwritten(e)
  BY Quiet DEF Connects
<1>3. ShownStays(e)
  BY <1>1, <1>2 DEF ShownStays, Good, Unwritten, ShownOf, InCopy, Told, Waiting, Sending, Handling, Message,
     Settling, AnswerFrame, NoFrame
<1>4. Reading(e)' /\ Delivering(e)' /\ Whole(e)' /\ Refusing(e)'
  BY <1>1, <1>2, <1>3, EntryTypes DEF Good, Unwritten, ShownStays, Sending, Handling, Reading, Read,
     Delivering, Writing, Closed, Whole, Holds, Refusing, Message
<1>5. Distinct(e)' /\ Waiting(e)' /\ Single(e)' /\ Ending(e)'
  BY <1>1, <1>2, <1>3, EntryTypes DEF Good, Unwritten, ShownStays, Sending, Handling, Distinct, Waiting,
     Settling, AnswerFrame, BodyFrame, Message, NoFrame, Single, InCopy, Told, Ending, HasSettled
<1>6. Others(e)
  BY DEF ExchangeTypeOK, Others, Connects, Goes
<1>7. Fills(e)
  BY <1>1 DEF Good, Fills, Waiting, Sending, Handling, Part, NoFrame
<1>8. ExchangeTypeOK'
  <2>1. pc' \in [Exchange -> Places]
    <3>1. Goes(e, "transport", "send") /\ "send" \in AtSend
      BY DEF Connects, AtSend, AtHandle
    <3> QED BY <3>1, GoesType, Zenon DEF ExchangeTypeOK
  <2> QED BY <2>1, <1>1, <1>6 DEF ExchangeTypeOK, Connects
<1> QED BY <1>4, <1>5, <1>6, <1>7, <1>8 DEF Good, Sound

(* The answer begins; a plain one will be told when it was copied, a stream when it says so. *)
LEMMA TargetAnswersKeeps ==
  ASSUME ExchangeTypeOK, NEW e \in Exchange, Good(e),
         NEW kind \in {"plain", "opaque", "stream"}, TargetAnswers(e, kind)
  PROVE  Sound(e)
<1>1. /\ pc[e].handler = "trip" /\ pc[e].transport # "off"
      /\ pc'[e].transport = pc[e].transport /\ pc'[e].handler = "copy" /\ tap' = tap
      /\ state'[e].request = state[e].request /\ state'[e].answered = (state[e].answered \/ kind # "stream")
      /\ state'[e].cutShort = state[e].cutShort /\ truth' = truth /\ post' = post /\ reply'[e].kind = kind
      /\ out' = out
  BY DEF ExchangeTypeOK, Posts, Taps, States, Places, Replies, Truths, Part, TargetAnswers, Goes
<1>2. Unwritten(e)
  BY Quiet DEF TargetAnswers
<1>3. ShownStays(e)
  BY <1>1, <1>2 DEF ShownStays, Good, Unwritten, ShownOf, InCopy, Told, Waiting, Sending, Handling, Message,
     Settling, AnswerFrame, NoFrame
<1>4. Reading(e)' /\ Delivering(e)' /\ Whole(e)' /\ Refusing(e)'
  BY <1>1, <1>2, <1>3, EntryTypes DEF Good, Unwritten, ShownStays, Sending, Handling, Reading, Read,
     Delivering, Writing, Closed, Whole, Holds, Refusing, Message
<1>5. Distinct(e)' /\ Waiting(e)' /\ Single(e)' /\ Ending(e)'
  BY <1>1, <1>2, <1>3, EntryTypes DEF Good, Unwritten, ShownStays, Sending, Handling, Distinct, Waiting,
     Settling, AnswerFrame, BodyFrame, Message, NoFrame, Single, InCopy, Told, Ending, HasSettled
<1>6. Others(e)
  BY DEF ExchangeTypeOK, Others, TargetAnswers, Goes
<1>7. Fills(e)
  BY <1>1 DEF Good, Fills, Waiting, Sending, Handling, Part, NoFrame
<1>8. ExchangeTypeOK'
  <2>1. pc' \in [Exchange -> Places]
    <3>1. Goes(e, "handler", "copy") /\ "copy" \in AtHandle
      BY DEF TargetAnswers, AtSend, AtHandle
    <3> QED BY <3>1, GoesType, Zenon DEF ExchangeTypeOK
  <2>2. state' \in [Exchange -> States]
    <3>1. /\ state \in [Exchange -> States]
          /\ state' = [state EXCEPT ![e].answered = state[e].answered \/ kind # "stream"]
      BY DEF TargetAnswers, Goes, ExchangeTypeOK, States
    <3>2. (state[e].answered \/ kind # "stream") \in BOOLEAN
      OBVIOUS
    <3> QED BY <3>1, <3>2, StateType, Zenon
  <2>3. reply' \in [Exchange -> Replies]
    <3>1. /\ reply \in [Exchange -> Replies]
          /\ reply' = [reply EXCEPT ![e].kind = kind]
      BY DEF TargetAnswers, Goes, ExchangeTypeOK, Replies
    <3>2. kind \in ReplyKind
      BY DEF ReplyKind
    <3> QED BY <3>1, <3>2, ReplyType, Zenon
  <2> QED BY <2>1, <2>2, <2>3, <1>1, <1>6 DEF ExchangeTypeOK, TargetAnswers
<1> QED BY <1>4, <1>5, <1>6, <1>7, <1>8 DEF Good, Sound

(* The answer is that the target failed, and it is on its way as the mark is set. *)
LEMMA FailsKeeps ==
  ASSUME ExchangeTypeOK, NEW e \in Exchange, Good(e), Fails(e)
  PROVE  Sound(e)
<1>1. /\ pc[e].handler = "trip" /\ pc[e].transport # "off"
      /\ pc'[e].transport = pc[e].transport /\ pc'[e].handler = "copied" /\ tap' = tap
      /\ state'[e].request = state[e].request /\ state'[e].answered = TRUE
      /\ state'[e].cutShort = state[e].cutShort /\ truth' = truth /\ post' = post
      /\ reply'[e].kind = "failed"
      /\ out'[e]["transport"] = out[e]["transport"] /\ out'[e]["handler"] = "failed"
  BY DEF ExchangeTypeOK, Posts, Taps, States, Places, Replies, Truths, Part, Fails, Goes, Emits
<1>2. Unwritten(e)
  BY Quiet DEF Fails
<1>3. ShownStays(e)
  BY <1>1, <1>2 DEF ShownStays, Good, Unwritten, ShownOf, InCopy, Told, Waiting, Sending, Handling, Message,
     Settling, AnswerFrame, NoFrame
<1>4. Reading(e)' /\ Delivering(e)' /\ Whole(e)' /\ Refusing(e)'
  BY <1>1, <1>2, <1>3, EntryTypes DEF Good, Unwritten, ShownStays, Sending, Handling, Reading, Read,
     Delivering, Writing, Closed, Whole, Holds, Refusing, Message
<1>5. Distinct(e)' /\ Waiting(e)' /\ Single(e)' /\ Ending(e)'
  BY <1>1, <1>2, <1>3, EntryTypes DEF Good, Unwritten, ShownStays, Sending, Handling, Distinct, Waiting,
     Settling, AnswerFrame, BodyFrame, Message, NoFrame, Single, InCopy, Told, Ending, HasSettled
<1>6. Others(e)
  BY DEF ExchangeTypeOK, Others, Fails, Goes, Emits
<1>7. Fills(e)
  BY <1>1 DEF Good, Fills, Waiting, Sending, Handling, Part, NoFrame
<1>8. ExchangeTypeOK'
  <2>1. pc' \in [Exchange -> Places]
    <3>1. Goes(e, "handler", "copied") /\ "copied" \in AtHandle
      BY DEF Fails, Emits, AtSend, AtHandle
    <3> QED BY <3>1, GoesType, Zenon DEF ExchangeTypeOK
  <2>2. out' \in [Exchange -> [Part -> AnyFrame \cup {NoFrame}]]
    BY EmitsType, EntryTypes DEF ExchangeTypeOK, Fails, Goes, Part, AnyFrame, AnswerFrame, BodyFrame
  <2>3. state' \in [Exchange -> States]
    <3>1. /\ state \in [Exchange -> States]
          /\ state' = [state EXCEPT ![e].answered = TRUE]
      BY DEF Fails, Goes, Emits, ExchangeTypeOK, States
    <3>2. TRUE \in BOOLEAN
      OBVIOUS
    <3> QED BY <3>1, <3>2, StateType, Zenon
  <2>4. reply' \in [Exchange -> Replies]
    <3>1. /\ reply \in [Exchange -> Replies]
          /\ reply' = [reply EXCEPT ![e].kind = "failed"]
      BY DEF Fails, Goes, Emits, ExchangeTypeOK, Replies
    <3>2. "failed" \in ReplyKind
      BY DEF ReplyKind
    <3> QED BY <3>1, <3>2, ReplyType, Zenon
  <2> QED BY <2>1, <2>2, <2>3, <2>4, <1>1, <1>6 DEF ExchangeTypeOK, Fails
<1> QED BY <1>4, <1>5, <1>6, <1>7, <1>8 DEF Good, Sound

(* The client left before an answer: nobody answered. *)
LEMMA CancelledKeeps ==
  ASSUME ExchangeTypeOK, NEW e \in Exchange, Good(e), Cancelled(e)
  PROVE  Sound(e)
<1>1. /\ pc[e].handler = "trip" /\ pc'[e].transport = pc[e].transport /\ pc'[e].handler = "close"
      /\ tap' = tap /\ state' = state /\ truth' = truth /\ post' = post /\ reply'[e].kind = "cancelled"
      /\ out' = out
  BY DEF ExchangeTypeOK, Posts, Taps, States, Places, Replies, Truths, Part, Cancelled, Goes
<1>2. Unwritten(e)
  BY Quiet DEF Cancelled
<1>3. ShownStays(e)
  BY <1>1, <1>2 DEF ShownStays, Good, Unwritten, ShownOf, InCopy, Told, Waiting, Sending, Handling, Message,
     Settling, AnswerFrame, NoFrame
<1>4. Reading(e)' /\ Delivering(e)' /\ Whole(e)' /\ Refusing(e)'
  BY <1>1, <1>2, <1>3, EntryTypes DEF Good, Unwritten, ShownStays, Sending, Handling, Reading, Read,
     Delivering, Writing, Closed, Whole, Holds, Refusing, Message
<1>5. Distinct(e)' /\ Waiting(e)' /\ Single(e)' /\ Ending(e)'
  BY <1>1, <1>2, <1>3, EntryTypes DEF Good, Unwritten, ShownStays, Sending, Handling, Distinct, Waiting,
     Settling, AnswerFrame, BodyFrame, Message, NoFrame, Single, InCopy, Told, Ending, HasSettled
<1>6. Others(e)
  BY DEF ExchangeTypeOK, Others, Cancelled, Goes
<1>7. Fills(e)
  BY <1>1 DEF Good, Fills, Waiting, Sending, Handling, Part, NoFrame
<1>8. ExchangeTypeOK'
  <2>1. pc' \in [Exchange -> Places]
    <3>1. Goes(e, "handler", "close") /\ "close" \in AtHandle
      BY DEF Cancelled, AtSend, AtHandle
    <3> QED BY <3>1, GoesType, Zenon DEF ExchangeTypeOK
  <2>2. reply' \in [Exchange -> Replies]
    <3>1. /\ reply \in [Exchange -> Replies]
          /\ reply' = [reply EXCEPT ![e].kind = "cancelled"]
      BY DEF Cancelled, Goes, ExchangeTypeOK, Replies
    <3>2. "cancelled" \in ReplyKind
      BY DEF ReplyKind
    <3> QED BY <3>1, <3>2, ReplyType, Zenon
  <2> QED BY <2>1, <2>2, <1>1, <1>6 DEF ExchangeTypeOK, Cancelled
<1> QED BY <1>4, <1>5, <1>6, <1>7, <1>8 DEF Good, Sound

(* Nothing of the body was read, and no copy was taken, when the dial is refused. *)
LEMMA RefusedKeeps ==
  ASSUME ExchangeTypeOK, NEW e \in Exchange, Good(e), Refused(e)
  PROVE  Sound(e)
<1>1. /\ pc[e].handler = "trip" /\ pc[e].transport = "off"
      /\ pc'[e].transport = pc[e].transport /\ pc'[e].handler = "close" /\ tap' = tap /\ state' = state
      /\ truth' = truth /\ post' = post /\ reply'[e].kind = "refused" /\ out' = out
  BY DEF ExchangeTypeOK, Posts, Taps, States, Places, Replies, Truths, Part, Refused, Goes
<1>2. Unwritten(e)
  BY Quiet DEF Refused
<1>3. ShownStays(e)
  BY <1>1, <1>2 DEF ShownStays, Good, Unwritten, ShownOf, InCopy, Told, Waiting, Sending, Handling, Message,
     Settling, AnswerFrame, NoFrame
<1>4. Reading(e)' /\ Delivering(e)' /\ Whole(e)' /\ Refusing(e)'
  BY <1>1, <1>2, <1>3, EntryTypes DEF Good, Unwritten, ShownStays, Sending, Handling, Reading, Read,
     Delivering, Writing, Closed, Whole, Holds, Refusing, Message
<1>5. Distinct(e)' /\ Waiting(e)' /\ Single(e)' /\ Ending(e)'
  BY <1>1, <1>2, <1>3, EntryTypes DEF Good, Unwritten, ShownStays, Sending, Handling, Distinct, Waiting,
     Settling, AnswerFrame, BodyFrame, Message, NoFrame, Single, InCopy, Told, Ending, HasSettled
<1>6. Others(e)
  BY DEF ExchangeTypeOK, Others, Refused, Goes
<1>7. Fills(e)
  BY <1>1 DEF Good, Fills, Waiting, Sending, Handling, Part, NoFrame
<1>8. ExchangeTypeOK'
  <2>1. pc' \in [Exchange -> Places]
    <3>1. Goes(e, "handler", "close") /\ "close" \in AtHandle
      BY DEF Refused, AtSend, AtHandle
    <3> QED BY <3>1, GoesType, Zenon DEF ExchangeTypeOK
  <2>2. reply' \in [Exchange -> Replies]
    <3>1. /\ reply \in [Exchange -> Replies]
          /\ reply' = [reply EXCEPT ![e].kind = "refused"]
      BY DEF Refused, Goes, ExchangeTypeOK, Replies
    <3>2. "refused" \in ReplyKind
      BY DEF ReplyKind
    <3> QED BY <3>1, <3>2, ReplyType, Zenon
  <2> QED BY <2>1, <2>2, <1>1, <1>6 DEF ExchangeTypeOK, Refused
<1> QED BY <1>4, <1>5, <1>6, <1>7, <1>8 DEF Good, Sound

(* The refusal is told when the request it is about shows. *)
LEMMA ReportsRefusalKeeps ==
  ASSUME ExchangeTypeOK, NEW e \in Exchange, Good(e), ReportsRefusal(e)
  PROVE  Sound(e)
<1>1. /\ pc[e].handler = "report" /\ pc'[e].transport = pc[e].transport /\ pc'[e].handler = "reported"
      /\ tap' = tap /\ state'[e].request = state[e].request /\ state'[e].answered = TRUE
      /\ state'[e].cutShort = state[e].cutShort /\ truth' = truth /\ post' = post /\ reply' = reply
      /\ out'[e]["transport"] = out[e]["transport"] /\ out'[e]["handler"] = "undelivered"
  BY DEF ExchangeTypeOK, Posts, Taps, States, Places, Replies, Truths, Part, ReportsRefusal, Goes, Emits
<1>2. Unwritten(e)
  BY Quiet DEF ReportsRefusal
<1>3. ShownStays(e)
  BY <1>1, <1>2 DEF ShownStays, Good, Unwritten, ShownOf, InCopy, Told, Waiting, Sending, Handling, Message,
     Settling, AnswerFrame, NoFrame
<1>4. Reading(e)' /\ Delivering(e)' /\ Whole(e)' /\ Refusing(e)'
  BY <1>1, <1>2, <1>3, EntryTypes DEF Good, Unwritten, ShownStays, Sending, Handling, Reading, Read,
     Delivering, Writing, Closed, Whole, Holds, Refusing, Message
<1>5. Distinct(e)' /\ Waiting(e)' /\ Single(e)' /\ Ending(e)'
  BY <1>1, <1>2, <1>3, EntryTypes DEF Good, Unwritten, ShownStays, Sending, Handling, Distinct, Waiting,
     Settling, AnswerFrame, BodyFrame, Message, NoFrame, Single, InCopy, Told, Ending, HasSettled
<1>6. Others(e)
  BY DEF ExchangeTypeOK, Others, ReportsRefusal, Goes, Emits
<1>7. Fills(e)
  BY <1>1 DEF Good, Fills, Waiting, Sending, Handling, Part, NoFrame
<1>8. ExchangeTypeOK'
  <2>1. pc' \in [Exchange -> Places]
    <3>1. Goes(e, "handler", "reported") /\ "reported" \in AtHandle
      BY DEF ReportsRefusal, Emits, AtSend, AtHandle
    <3> QED BY <3>1, GoesType, Zenon DEF ExchangeTypeOK
  <2>2. out' \in [Exchange -> [Part -> AnyFrame \cup {NoFrame}]]
    BY EmitsType, EntryTypes DEF ExchangeTypeOK, ReportsRefusal, Goes, Part, AnyFrame, AnswerFrame,
       BodyFrame
  <2>3. state' \in [Exchange -> States]
    <3>1. /\ state \in [Exchange -> States]
          /\ state' = [state EXCEPT ![e].answered = TRUE]
      BY DEF ReportsRefusal, Goes, Emits, ExchangeTypeOK, States
    <3>2. TRUE \in BOOLEAN
      OBVIOUS
    <3> QED BY <3>1, <3>2, StateType, Zenon
  <2> QED BY <2>1, <2>2, <2>3, <1>1, <1>6 DEF ExchangeTypeOK, ReportsRefusal
<1> QED BY <1>4, <1>5, <1>6, <1>7, <1>8 DEF Good, Sound

(* The refusal is in the sink, or nothing was to tell. *)
LEMMA RefusalReportedKeeps ==
  ASSUME ExchangeTypeOK, NEW e \in Exchange, Good(e), RefusalReported(e)
  PROVE  Sound(e)
<1>1. /\ pc[e].handler = "reported" /\ out[e]["handler"] = NoFrame
      /\ pc'[e].transport = pc[e].transport /\ pc'[e].handler = "check" /\ tap' = tap /\ state' = state
      /\ truth' = truth /\ post' = post /\ reply' = reply /\ out' = out
  BY DEF ExchangeTypeOK, Posts, Taps, States, Places, Replies, Truths, Part, RefusalReported, Goes, Idle
<1>2. Unwritten(e)
  BY Quiet DEF RefusalReported
<1>3. ShownStays(e)
  BY <1>1, <1>2 DEF ShownStays, Good, Unwritten, ShownOf, InCopy, Told, Waiting, Sending, Handling, Message,
     Settling, AnswerFrame, NoFrame
<1>4. Reading(e)' /\ Delivering(e)' /\ Whole(e)' /\ Refusing(e)'
  BY <1>1, <1>2, <1>3, EntryTypes DEF Good, Unwritten, ShownStays, Sending, Handling, Reading, Read,
     Delivering, Writing, Closed, Whole, Holds, Refusing, Message
<1>5. Distinct(e)' /\ Waiting(e)' /\ Single(e)' /\ Ending(e)'
  BY <1>1, <1>2, <1>3, EntryTypes DEF Good, Unwritten, ShownStays, Sending, Handling, Distinct, Waiting,
     Settling, AnswerFrame, BodyFrame, Message, NoFrame, Single, InCopy, Told, Ending, HasSettled
<1>6. Others(e)
  BY DEF ExchangeTypeOK, Others, RefusalReported, Goes
<1>7. Fills(e)
  BY <1>1 DEF Good, Fills, Waiting, Sending, Handling, Part, NoFrame
<1>8. ExchangeTypeOK'
  <2>1. pc' \in [Exchange -> Places]
    <3>1. Goes(e, "handler", "check") /\ "check" \in AtHandle
      BY DEF RefusalReported, AtSend, AtHandle
    <3> QED BY <3>1, GoesType, Zenon DEF ExchangeTypeOK
  <2> QED BY <2>1, <1>1, <1>6 DEF ExchangeTypeOK, RefusalReported
<1> QED BY <1>4, <1>5, <1>6, <1>7, <1>8 DEF Good, Sound

(* The transport takes readMu, which no drain has then. *)
LEMMA TransportReadsKeeps ==
  ASSUME ExchangeTypeOK, NEW e \in Exchange, Good(e), TransportReads(e)
  PROVE  Sound(e)
<1>1. /\ pc[e].transport = "send" /\ tap[e].held = "no"
      /\ pc'[e].transport = "read" /\ pc'[e].handler = pc[e].handler /\ tap'[e].started = TRUE
      /\ tap'[e].ended = tap[e].ended /\ tap'[e].done = tap[e].done /\ tap'[e].kept = tap[e].kept
      /\ tap'[e].cut = tap[e].cut /\ tap'[e].held = "transport" /\ tap'[e].seen = tap[e].seen
      /\ state' = state /\ truth' = truth /\ post' = post /\ reply' = reply /\ out' = out
  BY DEF ExchangeTypeOK, Posts, Taps, States, Places, Replies, Truths, Part, TransportReads, Goes
<1>2. Unwritten(e)
  BY Quiet DEF TransportReads
<1>3. ShownStays(e)
  BY <1>1, <1>2 DEF ShownStays, Good, Unwritten, ShownOf, InCopy, Told, Waiting, Sending, Handling, Message,
     Settling, AnswerFrame, NoFrame
<1>4. Reading(e)' /\ Delivering(e)' /\ Whole(e)' /\ Refusing(e)'
  BY <1>1, <1>2, <1>3, EntryTypes DEF Good, Unwritten, ShownStays, Sending, Handling, Reading, Read,
     Delivering, Writing, Closed, Whole, Holds, Refusing, Message
<1>5. Distinct(e)' /\ Waiting(e)' /\ Single(e)' /\ Ending(e)'
  BY <1>1, <1>2, <1>3, EntryTypes DEF Good, Unwritten, ShownStays, Sending, Handling, Distinct, Waiting,
     Settling, AnswerFrame, BodyFrame, Message, NoFrame, Single, InCopy, Told, Ending, HasSettled
<1>6. Others(e)
  BY DEF ExchangeTypeOK, Others, TransportReads, Goes
<1>7. Fills(e)
  BY <1>1 DEF Good, Fills, Waiting, Sending, Handling, Part, NoFrame
<1>8. ExchangeTypeOK'
  <2>1. pc' \in [Exchange -> Places]
    <3>1. Goes(e, "transport", "read") /\ "read" \in AtSend
      BY DEF TransportReads, AtSend, AtHandle
    <3> QED BY <3>1, GoesType, Zenon DEF ExchangeTypeOK
  <2>2. tap' \in [Exchange -> Taps]
    <3>1. /\ tap \in [Exchange -> Taps]
          /\ tap' = [tap EXCEPT ![e].held = "transport", ![e].started = TRUE]
      BY DEF TransportReads, Goes, ExchangeTypeOK, Taps
    <3>2. "transport" \in {"no"} \cup Part
      BY DEF Part
    <3> QED BY <3>1, <3>2, TapType, Zenon
  <2> QED BY <2>1, <2>2, <1>1, <1>6 DEF ExchangeTypeOK, TransportReads
<1> QED BY <1>4, <1>5, <1>6, <1>7, <1>8 DEF Good, Sound

(* The last piece: the copy is what was read, and knows its end. *)
LEMMA GetsLastKeeps ==
  ASSUME ExchangeTypeOK, NEW e \in Exchange, Good(e), TransportGets(e),
         AtEnd(e, truth[e].forwarded + truth[e].drained + 1) /\ ~post[e].eofLate
  PROVE  Sound(e)
<1>1. /\ pc[e].transport = "read" /\ ~tap[e].ended /\ Available(e)
      /\ pc'[e].transport = "finish" /\ pc'[e].handler = pc[e].handler /\ tap'[e].started = tap[e].started
      /\ tap'[e].ended = TRUE /\ tap'[e].done = tap[e].done
      /\ tap'[e].kept = (IF tap[e].kept < Cap THEN tap[e].kept + 1 ELSE tap[e].kept)
      /\ tap'[e].cut = (tap[e].cut \/ tap[e].kept >= Cap) /\ tap'[e].held = tap[e].held
      /\ tap'[e].seen = tap[e].seen /\ state' = state /\ truth'[e].forwarded = truth[e].forwarded + 1
      /\ truth'[e].drained = truth[e].drained
      /\ truth'[e].before = (IF pc[e].handler = "trip" THEN truth[e].before + 1 ELSE truth[e].before)
      /\ truth'[e].died = truth[e].died /\ truth'[e].checked = truth[e].checked /\ post' = post
      /\ reply' = reply /\ out' = out
  <2> DEFINE n == truth[e].forwarded + truth[e].drained + 1
             t == Kept(tap[e], e, n)
  <2>1. /\ t.started = tap[e].started /\ t.done = tap[e].done /\ t.held = tap[e].held /\ t.seen = tap[e].seen
        /\ t.kept = (IF tap[e].kept < Cap THEN tap[e].kept + 1 ELSE tap[e].kept)
        /\ t.cut = (tap[e].cut \/ tap[e].kept >= Cap) /\ t.ended = (AtEnd(e, n) /\ ~post[e].eofLate)
    BY DEF Kept, ExchangeTypeOK, Taps
  <2>2. tap' = [tap EXCEPT ![e] = t] /\ Goes(e, "transport", "finish")
    BY <2>1 DEF TransportGets
  <2>3. /\ pc[e].transport = "read" /\ ~tap[e].ended /\ Available(e)
        /\ out' = out /\ log' = log /\ reply' = reply /\ state' = state /\ post' = post
    BY DEF TransportGets
  <2>4. /\ truth'[e].forwarded = truth[e].forwarded + 1 /\ truth'[e].drained = truth[e].drained
        /\ truth'[e].before = (IF pc[e].handler = "trip" THEN truth[e].before + 1 ELSE truth[e].before)
        /\ truth'[e].died = truth[e].died /\ truth'[e].checked = truth[e].checked
    BY DEF TransportGets, ExchangeTypeOK, Truths
  <2>5. pc'[e].transport = "finish" /\ pc'[e].handler = pc[e].handler
    BY <2>2 DEF ExchangeTypeOK, Goes, Places
  <2>6. tap'[e] = t
    BY <2>2 DEF ExchangeTypeOK
  <2> QED BY <2>1, <2>3, <2>4, <2>5, <2>6 DEF Kept, ExchangeTypeOK, Taps
<1>2. Unwritten(e)
  BY Quiet DEF TransportGets
<1>3. ShownStays(e)
  BY <1>1, <1>2 DEF ShownStays, Good, Unwritten, ShownOf, InCopy, Told, Waiting, Sending, Handling, Message,
     Settling, AnswerFrame, NoFrame, Available, AtEnd
<1>4. Reading(e)'
  <2>0. Read(e) \in Nat /\ Read(e) = truth[e].forwarded + truth[e].drained /\ Read(e)' = Read(e) + 1
    <3>1. truth[e].forwarded \in Nat /\ truth[e].drained \in Nat
      BY EntryTypes
    <3>2. truth'[e].forwarded + truth'[e].drained = truth[e].forwarded + truth[e].drained + 1
      BY <1>1, <3>1
    <3> QED BY <3>1, <3>2 DEF Read
  <2>1. Read(e) + 1 <= post[e].sent
    BY <1>1, <2>0, EntryTypes DEF Available
  <2>2. /\ tap[e].kept = (IF Read(e) < Cap THEN Read(e) ELSE Cap)
        /\ tap[e].cut <=> Read(e) > Cap
    BY DEF Good, Reading
  <2>3. tap[e].kept >= Cap <=> Read(e) >= Cap
    BY <2>0, <2>2, EntryTypes
  <2>4. tap'[e].cut <=> Read(e) + 1 > Cap
    <3>1. tap'[e].cut <=> tap[e].cut \/ tap[e].kept >= Cap
      BY <1>1
    <3> QED BY <2>0, <2>2, <2>3, <3>1, EntryTypes
  <2>5. tap'[e].kept = (IF Read(e) + 1 < Cap THEN Read(e) + 1 ELSE Cap)
    BY <1>1, <2>0, <2>2, EntryTypes
  <2>6. tap'[e].ended => Read(e) + 1 = post[e].size
    BY <1>1, <2>0 DEF AtEnd
  <2>7. truth'[e].before <= truth'[e].forwarded
    <3>1. truth[e].before <= truth[e].forwarded /\ truth[e].before \in Nat /\ truth[e].forwarded \in Nat
      BY EntryTypes DEF Good, Reading
    <3>2. /\ truth'[e].forwarded = truth[e].forwarded + 1
          /\ truth'[e].before = truth[e].before \/ truth'[e].before = truth[e].before + 1
      BY <1>1
    <3> QED BY <3>1, <3>2
  <2> QED BY <1>1, <2>7, <2>0, <2>1, <2>4, <2>5, <2>6 DEF Good, Reading, Sending, Handling
<1>5. Whole(e)'
  BY <1>1, <1>2, <1>3, EntryTypes DEF Unwritten, ShownStays, Good, Sending, Handling, Whole, Holds,
     Delivering, Writing
<1>6. Delivering(e)' /\ Refusing(e)'
  BY <1>1, <1>2, <1>3, EntryTypes DEF Good, Unwritten, ShownStays, Sending, Handling, Delivering, Writing,
     Closed, Refusing, Reading, Holds, Read, Message, Available, AtEnd
<1>7. Distinct(e)' /\ Waiting(e)' /\ Single(e)' /\ Ending(e)'
  BY <1>1, <1>2, <1>3, EntryTypes DEF Good, Unwritten, ShownStays, Sending, Handling, Distinct, Waiting,
     Settling, AnswerFrame, BodyFrame, Message, NoFrame, Single, InCopy, Told, Ending, HasSettled, Available,
     AtEnd
<1>g. Kept(tap[e], e, truth[e].forwarded + truth[e].drained + 1).ended
  BY DEF Kept, ExchangeTypeOK, Taps
<1>8. Others(e)
  BY DEF ExchangeTypeOK, Others, TransportGets, Goes, Kept, Available
<1>9. Fills(e)
  BY <1>1 DEF Good, Fills, Waiting, Sending, Handling, Part, NoFrame
<1>10. ExchangeTypeOK'
  <2>1. pc' \in [Exchange -> Places]
    <3>1. Goes(e, "transport", "finish") /\ "finish" \in AtSend
      BY <1>g DEF TransportGets, Kept, AtSend, AtHandle
    <3> QED BY <3>1, GoesType, Zenon DEF ExchangeTypeOK
  <2>2. tap' \in [Exchange -> Taps]
    <3>1. /\ tap \in [Exchange -> Taps]
          /\ tap' = [tap EXCEPT ![e] = Kept(tap[e], e, truth[e].forwarded + truth[e].drained + 1)]
      BY <1>g DEF TransportGets, Goes, Kept, ExchangeTypeOK, Taps
    <3>2. Kept(tap[e], e, truth[e].forwarded + truth[e].drained + 1) \in Taps
      BY KeptType DEF ExchangeTypeOK
    <3> QED BY <3>1, <3>2, TapType, Zenon
  <2>3. truth' \in [Exchange -> Truths]
    <3>1. /\ truth \in [Exchange -> Truths]
          /\ truth' = [truth EXCEPT ![e].forwarded = truth[e].forwarded + 1,
                                    ![e].before = IF pc[e].handler = "trip" THEN truth[e].before + 1
                                                  ELSE truth[e].before]
      BY DEF TransportGets, Goes, Kept, ExchangeTypeOK, Truths
    <3>2. truth[e].forwarded + 1 \in Nat
      BY EntryTypes
    <3>3. (IF pc[e].handler = "trip" THEN truth[e].before + 1 ELSE truth[e].before) \in Nat
      BY EntryTypes
    <3> QED BY <3>1, <3>2, <3>3, TruthType, Zenon
  <2> QED BY <2>1, <2>2, <2>3, <1>1, <1>8 DEF ExchangeTypeOK, TransportGets
<1> QED BY <1>4, <1>5, <1>6, <1>7, <1>8, <1>9, <1>10 DEF Good, Sound

(* A piece more: the copy is what was read, as far as the cap. *)
LEMMA GetsMoreKeeps ==
  ASSUME ExchangeTypeOK, NEW e \in Exchange, Good(e), TransportGets(e),
         ~(AtEnd(e, truth[e].forwarded + truth[e].drained + 1) /\ ~post[e].eofLate)
  PROVE  Sound(e)
<1>1. /\ pc[e].transport = "read" /\ ~tap[e].ended /\ Available(e)
      /\ pc'[e].transport = "send" /\ pc'[e].handler = pc[e].handler /\ tap'[e].started = tap[e].started
      /\ tap'[e].ended = FALSE /\ tap'[e].done = tap[e].done
      /\ tap'[e].kept = (IF tap[e].kept < Cap THEN tap[e].kept + 1 ELSE tap[e].kept)
      /\ tap'[e].cut = (tap[e].cut \/ tap[e].kept >= Cap) /\ tap'[e].held = "no"
      /\ tap'[e].seen = tap[e].seen /\ state' = state /\ truth'[e].forwarded = truth[e].forwarded + 1
      /\ truth'[e].drained = truth[e].drained
      /\ truth'[e].before = (IF pc[e].handler = "trip" THEN truth[e].before + 1 ELSE truth[e].before)
      /\ truth'[e].died = truth[e].died /\ truth'[e].checked = truth[e].checked /\ post' = post
      /\ reply' = reply /\ out' = out
  <2> DEFINE n == truth[e].forwarded + truth[e].drained + 1
             t == Kept(tap[e], e, n)
  <2>1. /\ t.started = tap[e].started /\ t.done = tap[e].done /\ t.held = tap[e].held /\ t.seen = tap[e].seen
        /\ t.kept = (IF tap[e].kept < Cap THEN tap[e].kept + 1 ELSE tap[e].kept)
        /\ t.cut = (tap[e].cut \/ tap[e].kept >= Cap) /\ t.ended = (AtEnd(e, n) /\ ~post[e].eofLate)
    BY DEF Kept, ExchangeTypeOK, Taps
  <2>2. tap' = [tap EXCEPT ![e] = [t EXCEPT !.held = "no"]] /\ Goes(e, "transport", "send")
    BY <2>1 DEF TransportGets
  <2>3. /\ pc[e].transport = "read" /\ ~tap[e].ended /\ Available(e)
        /\ out' = out /\ log' = log /\ reply' = reply /\ state' = state /\ post' = post
    BY DEF TransportGets
  <2>4. /\ truth'[e].forwarded = truth[e].forwarded + 1 /\ truth'[e].drained = truth[e].drained
        /\ truth'[e].before = (IF pc[e].handler = "trip" THEN truth[e].before + 1 ELSE truth[e].before)
        /\ truth'[e].died = truth[e].died /\ truth'[e].checked = truth[e].checked
    BY DEF TransportGets, ExchangeTypeOK, Truths
  <2>5. pc'[e].transport = "send" /\ pc'[e].handler = pc[e].handler
    BY <2>2 DEF ExchangeTypeOK, Goes, Places
  <2>6. tap'[e] = [t EXCEPT !.held = "no"]
    BY <2>2 DEF ExchangeTypeOK
  <2> QED BY <2>1, <2>3, <2>4, <2>5, <2>6 DEF Kept, ExchangeTypeOK, Taps
<1>2. Unwritten(e)
  BY Quiet DEF TransportGets
<1>3. ShownStays(e)
  BY <1>1, <1>2 DEF ShownStays, Good, Unwritten, ShownOf, InCopy, Told, Waiting, Sending, Handling, Message,
     Settling, AnswerFrame, NoFrame, Available, AtEnd
<1>4. Reading(e)'
  <2>0. Read(e) \in Nat /\ Read(e) = truth[e].forwarded + truth[e].drained /\ Read(e)' = Read(e) + 1
    <3>1. truth[e].forwarded \in Nat /\ truth[e].drained \in Nat
      BY EntryTypes
    <3>2. truth'[e].forwarded + truth'[e].drained = truth[e].forwarded + truth[e].drained + 1
      BY <1>1, <3>1
    <3> QED BY <3>1, <3>2 DEF Read
  <2>1. Read(e) + 1 <= post[e].sent
    BY <1>1, <2>0, EntryTypes DEF Available
  <2>2. /\ tap[e].kept = (IF Read(e) < Cap THEN Read(e) ELSE Cap)
        /\ tap[e].cut <=> Read(e) > Cap
    BY DEF Good, Reading
  <2>3. tap[e].kept >= Cap <=> Read(e) >= Cap
    BY <2>0, <2>2, EntryTypes
  <2>4. tap'[e].cut <=> Read(e) + 1 > Cap
    <3>1. tap'[e].cut <=> tap[e].cut \/ tap[e].kept >= Cap
      BY <1>1
    <3> QED BY <2>0, <2>2, <2>3, <3>1, EntryTypes
  <2>5. tap'[e].kept = (IF Read(e) + 1 < Cap THEN Read(e) + 1 ELSE Cap)
    BY <1>1, <2>0, <2>2, EntryTypes
  <2>6. tap'[e].ended => Read(e) + 1 = post[e].size
    BY <1>1, <2>0 DEF AtEnd
  <2>7. truth'[e].before <= truth'[e].forwarded
    <3>1. truth[e].before <= truth[e].forwarded /\ truth[e].before \in Nat /\ truth[e].forwarded \in Nat
      BY EntryTypes DEF Good, Reading
    <3>2. /\ truth'[e].forwarded = truth[e].forwarded + 1
          /\ truth'[e].before = truth[e].before \/ truth'[e].before = truth[e].before + 1
      BY <1>1
    <3> QED BY <3>1, <3>2
  <2> QED BY <1>1, <2>7, <2>0, <2>1, <2>4, <2>5, <2>6 DEF Good, Reading, Sending, Handling
<1>5. Whole(e)'
  BY <1>1, <1>2, <1>3, EntryTypes DEF Unwritten, ShownStays, Good, Sending, Handling, Whole, Holds,
     Delivering, Writing
<1>6. Delivering(e)' /\ Refusing(e)'
  BY <1>1, <1>2, <1>3, EntryTypes DEF Good, Unwritten, ShownStays, Sending, Handling, Delivering, Writing,
     Closed, Refusing, Reading, Holds, Read, Message, Available, AtEnd
<1>7. Distinct(e)' /\ Waiting(e)' /\ Single(e)' /\ Ending(e)'
  BY <1>1, <1>2, <1>3, EntryTypes DEF Good, Unwritten, ShownStays, Sending, Handling, Distinct, Waiting,
     Settling, AnswerFrame, BodyFrame, Message, NoFrame, Single, InCopy, Told, Ending, HasSettled, Available,
     AtEnd
<1>g. ~Kept(tap[e], e, truth[e].forwarded + truth[e].drained + 1).ended
  BY DEF Kept, ExchangeTypeOK, Taps
<1>8. Others(e)
  BY DEF ExchangeTypeOK, Others, TransportGets, Goes, Kept, Available
<1>9. Fills(e)
  BY <1>1 DEF Good, Fills, Waiting, Sending, Handling, Part, NoFrame
<1>10. ExchangeTypeOK'
  <2>1. pc' \in [Exchange -> Places]
    <3>1. Goes(e, "transport", "send") /\ "send" \in AtSend
      BY <1>g DEF TransportGets, Kept, AtSend, AtHandle
    <3> QED BY <3>1, GoesType, Zenon DEF ExchangeTypeOK
  <2>2. tap' \in [Exchange -> Taps]
    <3>1. /\ tap \in [Exchange -> Taps]
          /\ tap' = [tap EXCEPT ![e] = [Kept(tap[e], e, truth[e].forwarded + truth[e].drained + 1) EXCEPT !.held = "no"]]
      BY <1>g DEF TransportGets, Goes, Kept, ExchangeTypeOK, Taps
    <3>2. [Kept(tap[e], e, truth[e].forwarded + truth[e].drained + 1) EXCEPT !.held = "no"] \in Taps
      BY KeptType DEF ExchangeTypeOK
    <3> QED BY <3>1, <3>2, TapType, Zenon
  <2>3. truth' \in [Exchange -> Truths]
    <3>1. /\ truth \in [Exchange -> Truths]
          /\ truth' = [truth EXCEPT ![e].forwarded = truth[e].forwarded + 1,
                                    ![e].before = IF pc[e].handler = "trip" THEN truth[e].before + 1
                                                  ELSE truth[e].before]
      BY DEF TransportGets, Goes, Kept, ExchangeTypeOK, Truths
    <3>2. truth[e].forwarded + 1 \in Nat
      BY EntryTypes
    <3>3. (IF pc[e].handler = "trip" THEN truth[e].before + 1 ELSE truth[e].before) \in Nat
      BY EntryTypes
    <3> QED BY <3>1, <3>2, <3>3, TruthType, Zenon
  <2> QED BY <2>1, <2>2, <2>3, <1>1, <1>8 DEF ExchangeTypeOK, TransportGets
<1> QED BY <1>4, <1>5, <1>6, <1>7, <1>8, <1>9, <1>10 DEF Good, Sound

(* No piece follows, and a body at its end was read whole. *)
LEMMA TransportEndsKeeps ==
  ASSUME ExchangeTypeOK, NEW e \in Exchange, Good(e), TransportEnds(e)
  PROVE  Sound(e)
<1>1. /\ pc[e].transport = "read" /\ pc'[e].transport = "finish" /\ pc'[e].handler = pc[e].handler
      /\ tap'[e].started = tap[e].started
      /\ tap'[e].ended = (tap[e].ended \/ (~post[e].gone /\ AtEnd(e, truth[e].forwarded + truth[e].drained)))
      /\ tap'[e].done = tap[e].done /\ tap'[e].kept = tap[e].kept /\ tap'[e].cut = tap[e].cut
      /\ tap'[e].held = tap[e].held /\ tap'[e].seen = tap[e].seen /\ state' = state /\ truth' = truth
      /\ post' = post /\ reply' = reply /\ out' = out
  BY DEF ExchangeTypeOK, Posts, Taps, States, Places, Replies, Truths, Part, TransportEnds, Goes
<1>2. Unwritten(e)
  BY Quiet DEF TransportEnds
<1>3. ShownStays(e)
  BY <1>1, <1>2 DEF ShownStays, Good, Unwritten, ShownOf, InCopy, Told, Waiting, Sending, Handling, Message,
     Settling, AnswerFrame, NoFrame, AtEnd
<1>4. Reading(e)' /\ Delivering(e)' /\ Whole(e)' /\ Refusing(e)'
  BY <1>1, <1>2, <1>3, EntryTypes DEF Good, Unwritten, ShownStays, Sending, Handling, Reading, Read,
     Delivering, Writing, Closed, Whole, Holds, Refusing, Message, AtEnd
<1>5. Distinct(e)' /\ Waiting(e)' /\ Single(e)' /\ Ending(e)'
  BY <1>1, <1>2, <1>3, EntryTypes DEF Good, Unwritten, ShownStays, Sending, Handling, Distinct, Waiting,
     Settling, AnswerFrame, BodyFrame, Message, NoFrame, Single, InCopy, Told, Ending, HasSettled, AtEnd
<1>6. Others(e)
  BY DEF ExchangeTypeOK, Others, TransportEnds, Goes
<1>7. Fills(e)
  BY <1>1 DEF Good, Fills, Waiting, Sending, Handling, Part, NoFrame
<1>8. ExchangeTypeOK'
  <2>1. pc' \in [Exchange -> Places]
    <3>1. Goes(e, "transport", "finish") /\ "finish" \in AtSend
      BY DEF TransportEnds, AtSend, AtHandle
    <3> QED BY <3>1, GoesType, Zenon DEF ExchangeTypeOK
  <2>2. tap' \in [Exchange -> Taps]
    <3>1. /\ tap \in [Exchange -> Taps]
          /\ tap' = [tap EXCEPT ![e].ended = tap[e].ended \/ (~post[e].gone /\ AtEnd(e, truth[e].forwarded + truth[e].drained))]
      BY DEF TransportEnds, Goes, ExchangeTypeOK, Taps
    <3>2. (tap[e].ended \/ (~post[e].gone /\ AtEnd(e, truth[e].forwarded + truth[e].drained))) \in BOOLEAN
      OBVIOUS
    <3> QED BY <3>1, <3>2, TapType, Zenon
  <2> QED BY <2>1, <2>2, <1>1, <1>6 DEF ExchangeTypeOK, TransportEnds
<1> QED BY <1>4, <1>5, <1>6, <1>7, <1>8 DEF Good, Sound

(* The transport comes first and takes the copy: a whole one has all the body's messages. *)
LEMMA TransportFirstKeeps ==
  ASSUME ExchangeTypeOK, NEW e \in Exchange, Good(e), TransportFinishes(e), ~tap[e].done
  PROVE  Sound(e)
<1>1. /\ pc[e].transport = "finish" /\ pc'[e].transport = "deliver" /\ pc'[e].handler = pc[e].handler
      /\ tap'[e].started = tap[e].started /\ tap'[e].ended = tap[e].ended /\ tap'[e].done = TRUE
      /\ tap'[e].kept = tap[e].kept /\ tap'[e].cut = tap[e].cut /\ tap'[e].held = tap[e].held
      /\ tap'[e].seen = Observed(e) /\ state' = state /\ truth' = truth /\ post' = post /\ reply' = reply
      /\ out' = out
  BY DEF ExchangeTypeOK, Posts, Taps, States, Places, Replies, Truths, Part, TransportFinishes, Goes,
     MayFinish, Snapshots
<1>2. Unwritten(e)
  BY Quiet DEF TransportFinishes
<1>a. /\ Observed(e) \in Seq(BodyFrame)
      /\ \A i, j \in DOMAIN Observed(e) : Observed(e)[i] = Observed(e)[j] => i = j
      /\ ~tap[e].cut /\ tap[e].kept = post[e].size /\ tap[e].kept # 0 => Observed(e) = post[e].holds
  BY ObservedIs DEF Good
<1>b. \A f \in Message : ~Logged(e, f) /\ ~Told(e, f)
  BY DEF Good, Delivering, ShownOf
<1>c. \A f : Told(e, f)' <=> Told(e, f)
  BY <1>1 DEF Told
<1>3. \A f \in Message : ShownOf(e, f)' <=> f \in ToSet(Observed(e))
  BY <1>1, <1>2, <1>b, <1>c DEF Unwritten, ShownOf, InCopy
<1>d. post[e].size \in 1 .. Cap /\ Read(e) = post[e].size => Observed(e) = post[e].holds
  BY <1>a, EntryTypes DEF Good, Reading
<1>e. truth[e].before = post[e].size => Read(e) = post[e].size
  BY EntryTypes DEF Good, Reading, Read
<1>4. Whole(e)'
  BY <1>1, <1>3, <1>d, <1>e DEF Whole, Holds
<1>5. Single(e)'
  BY <1>1, <1>2, <1>a, <1>b, <1>c DEF Unwritten, Good, Single
<1>6. Reading(e)' /\ Delivering(e)' /\ Refusing(e)'
  BY <1>1, <1>2, <1>3, EntryTypes DEF Good, Unwritten, ShownStays, Sending, Handling, Reading, Read,
     Delivering, Writing, Closed, Refusing, Holds, Message, Observed
<1>7. Distinct(e)' /\ Waiting(e)' /\ Ending(e)'
  BY <1>1, <1>2, <1>3, EntryTypes DEF Good, Unwritten, ShownStays, Sending, Handling, Distinct, Waiting,
     Settling, AnswerFrame, BodyFrame, Message, NoFrame, Ending, HasSettled, Observed
<1>8. Others(e)
  BY DEF ExchangeTypeOK, Others, TransportFinishes, Goes, MayFinish, Snapshots
<1>9. Fills(e)
  BY <1>1 DEF Good, Fills, Waiting, Sending, Handling, Part, NoFrame
<1>10. ExchangeTypeOK'
  <2>1. pc' \in [Exchange -> Places]
    <3>1. Goes(e, "transport", "deliver") /\ "deliver" \in AtSend
      BY DEF TransportFinishes, MayFinish, Snapshots, AtSend, AtHandle
    <3> QED BY <3>1, GoesType, Zenon DEF ExchangeTypeOK
  <2>2. tap' \in [Exchange -> Taps]
    <3>1. /\ tap \in [Exchange -> Taps]
          /\ tap' = [tap EXCEPT ![e].done = TRUE, ![e].seen = Observed(e)]
      BY DEF TransportFinishes, Goes, MayFinish, Snapshots, ExchangeTypeOK, Taps
    <3>2. Observed(e) \in Seq(BodyFrame)
      BY ObservedIs DEF Good
    <3> QED BY <3>1, <3>2, TapType, Zenon
  <2> QED BY <2>1, <2>2, <1>1, <1>8 DEF ExchangeTypeOK, TransportFinishes
<1> QED BY <1>4, <1>5, <1>6, <1>7, <1>8, <1>9, <1>10 DEF Good, Sound

(* The transport comes late and takes nothing. *)
LEMMA TransportLateKeeps ==
  ASSUME ExchangeTypeOK, NEW e \in Exchange, Good(e), TransportFinishes(e), tap[e].done
  PROVE  Sound(e)
<1>1. /\ pc[e].transport = "finish" /\ pc'[e].transport = "over" /\ pc'[e].handler = pc[e].handler
      /\ tap'[e].started = tap[e].started /\ tap'[e].ended = tap[e].ended /\ tap'[e].done = tap[e].done
      /\ tap'[e].kept = tap[e].kept /\ tap'[e].cut = tap[e].cut /\ tap'[e].held = "no"
      /\ tap'[e].seen = tap[e].seen /\ state' = state /\ truth' = truth /\ post' = post /\ reply' = reply
      /\ out' = out
  <2>1. ~MayFinish(e)
    BY DEF MayFinish
  <2>2. tap' = [tap EXCEPT ![e].held = "no"] /\ Goes(e, "transport", "over")
    BY <2>1 DEF TransportFinishes
  <2>3. /\ pc[e].transport = "finish" /\ log' = log /\ out' = out /\ reply' = reply /\ state' = state
        /\ truth' = truth /\ post' = post
    BY DEF TransportFinishes
  <2>4. pc'[e].transport = "over" /\ pc'[e].handler = pc[e].handler
    BY <2>2 DEF ExchangeTypeOK, Places, Goes
  <2>5. /\ tap'[e].started = tap[e].started /\ tap'[e].ended = tap[e].ended /\ tap'[e].done = tap[e].done
        /\ tap'[e].kept = tap[e].kept /\ tap'[e].cut = tap[e].cut /\ tap'[e].held = "no"
        /\ tap'[e].seen = tap[e].seen
    BY <2>2 DEF ExchangeTypeOK, Taps
  <2> QED BY <2>3, <2>4, <2>5
<1>2. Unwritten(e)
  BY Quiet DEF TransportFinishes
<1>3. ShownStays(e)
  BY <1>1, <1>2 DEF ShownStays, Good, Unwritten, ShownOf, InCopy, Told, Waiting, Sending, Handling, Message,
     Settling, AnswerFrame, NoFrame, Observed
<1>4. Reading(e)' /\ Delivering(e)' /\ Whole(e)' /\ Refusing(e)'
  BY <1>1, <1>2, <1>3, EntryTypes DEF Good, Unwritten, ShownStays, Sending, Handling, Reading, Read,
     Delivering, Writing, Closed, Whole, Holds, Refusing, Message, Observed
<1>5. Distinct(e)' /\ Waiting(e)' /\ Single(e)' /\ Ending(e)'
  BY <1>1, <1>2, <1>3, EntryTypes DEF Good, Unwritten, ShownStays, Sending, Handling, Distinct, Waiting,
     Settling, AnswerFrame, BodyFrame, Message, NoFrame, Single, InCopy, Told, Ending, HasSettled, Observed
<1>6. Others(e)
  BY DEF ExchangeTypeOK, Others, TransportFinishes, Goes, MayFinish
<1>7. Fills(e)
  BY <1>1 DEF Good, Fills, Waiting, Sending, Handling, Part, NoFrame
<1>8. ExchangeTypeOK'
  <2>1. pc' \in [Exchange -> Places]
    <3>1. Goes(e, "transport", "over") /\ "over" \in AtSend
      BY DEF TransportFinishes, MayFinish, AtSend, AtHandle
    <3> QED BY <3>1, GoesType, Zenon DEF ExchangeTypeOK
  <2>2. tap' \in [Exchange -> Taps]
    <3>1. /\ tap \in [Exchange -> Taps]
          /\ tap' = [tap EXCEPT ![e].held = "no"]
      BY DEF TransportFinishes, Goes, MayFinish, ExchangeTypeOK, Taps
    <3>2. "no" \in {"no"} \cup Part
      BY DEF Part
    <3> QED BY <3>1, <3>2, TapType, Zenon
  <2> QED BY <2>1, <2>2, <1>1, <1>6 DEF ExchangeTypeOK, TransportFinishes
<1> QED BY <1>4, <1>5, <1>6, <1>7, <1>8 DEF Good, Sound

(* A message goes from the copy on its way to the emitter. *)
LEMMA TransportDeliversKeeps ==
  ASSUME ExchangeTypeOK, NEW e \in Exchange, Good(e), TransportDelivers(e)
  PROVE  Sound(e)
<1>1. /\ pc[e].transport = "deliver" /\ tap[e].seen # <<>>
      /\ pc'[e].transport = "emit" /\ pc'[e].handler = pc[e].handler /\ tap'[e].started = tap[e].started
      /\ tap'[e].ended = tap[e].ended /\ tap'[e].done = tap[e].done /\ tap'[e].kept = tap[e].kept
      /\ tap'[e].cut = tap[e].cut /\ tap'[e].held = tap[e].held /\ tap'[e].seen = Tail(tap[e].seen)
      /\ state'[e].request = (state[e].request \/ Head(tap[e].seen) = "request")
      /\ state'[e].answered = state[e].answered /\ state'[e].cutShort = state[e].cutShort /\ truth' = truth
      /\ post' = post /\ reply' = reply
      /\ out'[e]["transport"] = Head(tap[e].seen) /\ out'[e]["handler"] = out[e]["handler"]
  BY DEF ExchangeTypeOK, Posts, Taps, States, Places, Replies, Truths, Part, TransportDelivers, Goes,
     Emits, MarksBeforeEmit
<1>2. Unwritten(e)
  BY Quiet DEF TransportDelivers
<1>a. /\ \A f : InCopy(e, f) <=> f = Head(tap[e].seen) \/ InCopy(e, f)'
      /\ \A i, j \in DOMAIN tap'[e].seen : tap'[e].seen[i] = tap'[e].seen[j] => i = j
      /\ \A f : f = Head(tap[e].seen) => ~InCopy(e, f)'
      /\ Head(tap[e].seen) \in BodyFrame
  <2>1. /\ tap[e].seen \in Seq(BodyFrame) /\ tap[e].seen # <<>>
        /\ \A i, j \in DOMAIN tap[e].seen : tap[e].seen[i] = tap[e].seen[j] => i = j
    BY <1>1, EntryTypes DEF Good, Single
  <2>2. /\ Head(tap[e].seen) \in BodyFrame
        /\ \A f : f \in ToSet(tap[e].seen) <=> f = Head(tap[e].seen) \/ f \in ToSet(Tail(tap[e].seen))
        /\ \A i, j \in DOMAIN Tail(tap[e].seen) : Tail(tap[e].seen)[i] = Tail(tap[e].seen)[j] => i = j
        /\ Head(tap[e].seen) \notin ToSet(Tail(tap[e].seen))
    BY <2>1, HeadAndTail
  <2>3. tap'[e].seen = Tail(tap[e].seen)
    BY <1>1
  <2> QED BY <2>2, <2>3 DEF InCopy
<1>3. ShownStays(e)
  BY <1>1, <1>2, <1>a DEF Unwritten, ShownStays, Good, ShownOf, Told, Waiting, Sending, Handling, Message,
     Settling, AnswerFrame, NoFrame
<1>4. Single(e)'
  BY <1>1, <1>2, <1>a DEF Unwritten, Good, Single, Told, Waiting, Sending, Handling, Message, NoFrame,
     Settling, AnswerFrame
<1>5. Reading(e)' /\ Delivering(e)' /\ Whole(e)' /\ Refusing(e)'
  BY <1>1, <1>2, <1>3, EntryTypes DEF Good, Unwritten, ShownStays, Sending, Handling, Reading, Read,
     Delivering, Writing, Closed, Whole, Holds, Refusing, Message
<1>6. Distinct(e)' /\ Waiting(e)' /\ Ending(e)'
  BY <1>1, <1>2, <1>3, EntryTypes DEF Good, Unwritten, ShownStays, Sending, Handling, Distinct, Waiting,
     Settling, AnswerFrame, BodyFrame, Message, NoFrame, Ending, HasSettled
<1>7. Others(e)
  BY DEF ExchangeTypeOK, Others, TransportDelivers, Goes, Emits, MarksBeforeEmit
<1>8. Fills(e)
  BY <1>1 DEF Good, Fills, Waiting, Sending, Handling, Part, NoFrame
<1>9. ExchangeTypeOK'
  <2>1. pc' \in [Exchange -> Places]
    <3>1. Goes(e, "transport", "emit") /\ "emit" \in AtSend
      BY DEF TransportDelivers, Emits, MarksBeforeEmit, AtSend, AtHandle
    <3> QED BY <3>1, GoesType, Zenon DEF ExchangeTypeOK
  <2>2. out' \in [Exchange -> [Part -> AnyFrame \cup {NoFrame}]]
    BY EmitsType, EntryTypes DEF ExchangeTypeOK, TransportDelivers, Goes, MarksBeforeEmit, Part, AnyFrame,
       AnswerFrame, BodyFrame
  <2>3. tap' \in [Exchange -> Taps]
    <3>1. /\ tap \in [Exchange -> Taps]
          /\ tap' = [tap EXCEPT ![e].seen = Tail(tap[e].seen)]
      BY DEF TransportDelivers, Goes, Emits, MarksBeforeEmit, ExchangeTypeOK, Taps
    <3>2. Tail(tap[e].seen) \in Seq(BodyFrame)
      BY EntryTypes, HeadAndTail, <1>1 DEF Good, Single
    <3> QED BY <3>1, <3>2, TapType, Zenon
  <2>4. state' \in [Exchange -> States]
    <3>1. /\ state \in [Exchange -> States]
          /\ state' = [state EXCEPT ![e].request = state[e].request \/ Head(tap[e].seen) = "request"]
      BY DEF TransportDelivers, Goes, Emits, MarksBeforeEmit, ExchangeTypeOK, States
    <3>2. (state[e].request \/ Head(tap[e].seen) = "request") \in BOOLEAN
      OBVIOUS
    <3> QED BY <3>1, <3>2, StateType, Zenon
  <2> QED BY <2>1, <2>2, <2>3, <2>4, <1>1, <1>7 DEF ExchangeTypeOK, TransportDelivers
<1> QED BY <1>4, <1>5, <1>6, <1>7, <1>8, <1>9 DEF Good, Sound

(* The frame was written, the next follows. *)
LEMMA TransportEmittedKeeps ==
  ASSUME ExchangeTypeOK, NEW e \in Exchange, Good(e), TransportEmitted(e)
  PROVE  Sound(e)
<1>1. /\ pc[e].transport = "emit" /\ out[e]["transport"] = NoFrame
      /\ pc'[e].transport = "deliver" /\ pc'[e].handler = pc[e].handler /\ tap' = tap /\ state' = state
      /\ truth' = truth /\ post' = post /\ reply' = reply /\ out' = out
  BY DEF ExchangeTypeOK, Posts, Taps, States, Places, Replies, Truths, Part, TransportEmitted, Goes, Idle
<1>2. Unwritten(e)
  BY Quiet DEF TransportEmitted
<1>3. ShownStays(e)
  BY <1>1, <1>2 DEF ShownStays, Good, Unwritten, ShownOf, InCopy, Told, Waiting, Sending, Handling, Message,
     Settling, AnswerFrame, NoFrame
<1>4. Reading(e)' /\ Delivering(e)' /\ Whole(e)' /\ Refusing(e)'
  BY <1>1, <1>2, <1>3, EntryTypes DEF Good, Unwritten, ShownStays, Sending, Handling, Reading, Read,
     Delivering, Writing, Closed, Whole, Holds, Refusing, Message
<1>5. Distinct(e)' /\ Waiting(e)' /\ Single(e)' /\ Ending(e)'
  BY <1>1, <1>2, <1>3, EntryTypes DEF Good, Unwritten, ShownStays, Sending, Handling, Distinct, Waiting,
     Settling, AnswerFrame, BodyFrame, Message, NoFrame, Single, InCopy, Told, Ending, HasSettled
<1>6. Others(e)
  BY DEF ExchangeTypeOK, Others, TransportEmitted, Goes
<1>7. Fills(e)
  BY <1>1 DEF Good, Fills, Waiting, Sending, Handling, Part, NoFrame
<1>8. ExchangeTypeOK'
  <2>1. pc' \in [Exchange -> Places]
    <3>1. Goes(e, "transport", "deliver") /\ "deliver" \in AtSend
      BY DEF TransportEmitted, AtSend, AtHandle
    <3> QED BY <3>1, GoesType, Zenon DEF ExchangeTypeOK
  <2> QED BY <2>1, <1>1, <1>6 DEF ExchangeTypeOK, TransportEmitted
<1> QED BY <1>4, <1>5, <1>6, <1>7, <1>8 DEF Good, Sound

(* The copy is delivered and readMu let go. *)
LEMMA TransportReturnsKeeps ==
  ASSUME ExchangeTypeOK, NEW e \in Exchange, Good(e), TransportReturns(e)
  PROVE  Sound(e)
<1>1. /\ pc[e].transport = "deliver" /\ tap[e].seen = <<>>
      /\ pc'[e].transport = "over" /\ pc'[e].handler = pc[e].handler /\ tap'[e].started = tap[e].started
      /\ tap'[e].ended = tap[e].ended /\ tap'[e].done = tap[e].done /\ tap'[e].kept = tap[e].kept
      /\ tap'[e].cut = tap[e].cut /\ tap'[e].held = "no" /\ tap'[e].seen = tap[e].seen /\ state' = state
      /\ truth' = truth /\ post' = post /\ reply' = reply /\ out' = out
  BY DEF ExchangeTypeOK, Posts, Taps, States, Places, Replies, Truths, Part, TransportReturns, Goes
<1>2. Unwritten(e)
  BY Quiet DEF TransportReturns
<1>3. ShownStays(e)
  BY <1>1, <1>2 DEF ShownStays, Good, Unwritten, ShownOf, InCopy, Told, Waiting, Sending, Handling, Message,
     Settling, AnswerFrame, NoFrame
<1>4. Reading(e)' /\ Delivering(e)' /\ Whole(e)' /\ Refusing(e)'
  BY <1>1, <1>2, <1>3, EntryTypes DEF Good, Unwritten, ShownStays, Sending, Handling, Reading, Read,
     Delivering, Writing, Closed, Whole, Holds, Refusing, Message
<1>5. Distinct(e)' /\ Waiting(e)' /\ Single(e)' /\ Ending(e)'
  BY <1>1, <1>2, <1>3, EntryTypes DEF Good, Unwritten, ShownStays, Sending, Handling, Distinct, Waiting,
     Settling, AnswerFrame, BodyFrame, Message, NoFrame, Single, InCopy, Told, Ending, HasSettled
<1>6. Others(e)
  BY DEF ExchangeTypeOK, Others, TransportReturns, Goes
<1>7. Fills(e)
  BY <1>1 DEF Good, Fills, Waiting, Sending, Handling, Part, NoFrame
<1>8. ExchangeTypeOK'
  <2>1. pc' \in [Exchange -> Places]
    <3>1. Goes(e, "transport", "over") /\ "over" \in AtSend
      BY DEF TransportReturns, AtSend, AtHandle
    <3> QED BY <3>1, GoesType, Zenon DEF ExchangeTypeOK
  <2>2. tap' \in [Exchange -> Taps]
    <3>1. /\ tap \in [Exchange -> Taps]
          /\ tap' = [tap EXCEPT ![e].held = "no"]
      BY DEF TransportReturns, Goes, ExchangeTypeOK, Taps
    <3>2. "no" \in {"no"} \cup Part
      BY DEF Part
    <3> QED BY <3>1, <3>2, TapType, Zenon
  <2> QED BY <2>1, <2>2, <1>1, <1>6 DEF ExchangeTypeOK, TransportReturns
<1> QED BY <1>4, <1>5, <1>6, <1>7, <1>8 DEF Good, Sound

(* The transport stops sending between two reads. *)
LEMMA TransportStopsKeeps ==
  ASSUME ExchangeTypeOK, NEW e \in Exchange, Good(e), TransportStops(e)
  PROVE  Sound(e)
<1>1. /\ pc[e].transport = "send" /\ pc[e].handler # "trip"
      /\ pc'[e].transport = "over" /\ pc'[e].handler = pc[e].handler /\ tap' = tap /\ state' = state
      /\ truth' = truth /\ post' = post /\ reply' = reply /\ out' = out
  BY DEF ExchangeTypeOK, Posts, Taps, States, Places, Replies, Truths, Part, TransportStops, Goes
<1>2. Unwritten(e)
  BY Quiet DEF TransportStops
<1>3. ShownStays(e)
  BY <1>1, <1>2 DEF ShownStays, Good, Unwritten, ShownOf, InCopy, Told, Waiting, Sending, Handling, Message,
     Settling, AnswerFrame, NoFrame
<1>4. Reading(e)' /\ Delivering(e)' /\ Whole(e)' /\ Refusing(e)'
  BY <1>1, <1>2, <1>3, EntryTypes DEF Good, Unwritten, ShownStays, Sending, Handling, Reading, Read,
     Delivering, Writing, Closed, Whole, Holds, Refusing, Message
<1>5. Distinct(e)' /\ Waiting(e)' /\ Single(e)' /\ Ending(e)'
  BY <1>1, <1>2, <1>3, EntryTypes DEF Good, Unwritten, ShownStays, Sending, Handling, Distinct, Waiting,
     Settling, AnswerFrame, BodyFrame, Message, NoFrame, Single, InCopy, Told, Ending, HasSettled
<1>6. Others(e)
  BY DEF ExchangeTypeOK, Others, TransportStops, Goes
<1>7. Fills(e)
  BY <1>1 DEF Good, Fills, Waiting, Sending, Handling, Part, NoFrame
<1>8. ExchangeTypeOK'
  <2>1. pc' \in [Exchange -> Places]
    <3>1. Goes(e, "transport", "over") /\ "over" \in AtSend
      BY DEF TransportStops, AtSend, AtHandle
    <3> QED BY <3>1, GoesType, Zenon DEF ExchangeTypeOK
  <2> QED BY <2>1, <1>1, <1>6 DEF ExchangeTypeOK, TransportStops
<1> QED BY <1>4, <1>5, <1>6, <1>7, <1>8 DEF Good, Sound

(* A plain answer is on its way in the form its copy has, a compressed one is not told. *)
LEMMA CopiesPlainKeeps ==
  ASSUME ExchangeTypeOK, NEW e \in Exchange, Good(e), NEW whole \in BOOLEAN, CopiesPlain(e, whole)
  PROVE  Sound(e)
<1>1. /\ pc[e].handler = "copy" /\ reply[e].kind \in {"plain", "opaque"}
      /\ pc'[e].transport = pc[e].transport /\ pc'[e].handler = "copied" /\ tap' = tap /\ state' = state
      /\ truth' = truth /\ post' = post /\ reply' = reply
      /\ out'[e]["transport"] = out[e]["transport"] /\ out'[e]["handler"] = PlainFrame(e, whole)
  BY DEF ExchangeTypeOK, Posts, Taps, States, Places, Replies, Truths, Part, CopiesPlain, Goes, Emits
<1>2. Unwritten(e)
  BY Quiet DEF CopiesPlain
<1>3. ShownStays(e)
  BY <1>1, <1>2 DEF ShownStays, Good, Unwritten, ShownOf, InCopy, Told, Waiting, Sending, Handling, Message,
     Settling, AnswerFrame, NoFrame, PlainFrame
<1>4. Distinct(e)'
  BY <1>1, <1>2, <1>3, EntryTypes DEF Good, Unwritten, ShownStays, Sending, Handling, Distinct, PlainFrame
<1>5. Reading(e)'
  BY <1>1, <1>2, <1>3, EntryTypes DEF Good, Unwritten, ShownStays, Sending, Handling, Reading, Read,
     PlainFrame
<1>6. Delivering(e)'
  BY <1>1, <1>2, <1>3, EntryTypes DEF Good, Unwritten, ShownStays, Sending, Handling, Delivering, Writing,
     Closed, PlainFrame
<1>7. Waiting(e)'
  BY <1>1, <1>2, <1>3, EntryTypes DEF Good, Unwritten, ShownStays, Sending, Handling, Waiting, Settling,
     AnswerFrame, BodyFrame, Message, NoFrame, PlainFrame
<1>8. Single(e)'
  BY <1>1, <1>2, <1>3, EntryTypes DEF Good, Unwritten, ShownStays, Sending, Handling, Single, InCopy, Told,
     Message, NoFrame, Waiting, Settling, AnswerFrame, PlainFrame
<1>9. Whole(e)'
  BY <1>1, <1>2, <1>3, EntryTypes DEF Good, Unwritten, ShownStays, Sending, Handling, Whole, Holds,
     PlainFrame
<1>10. Refusing(e)'
  BY <1>1, <1>2, <1>3, EntryTypes DEF Good, Unwritten, ShownStays, Sending, Handling, Refusing, Reading,
     Delivering, Holds, Writing, Closed, Read, Message, PlainFrame
<1>11. Ending(e)'
  BY <1>1, <1>2, <1>3, EntryTypes DEF Good, Unwritten, ShownStays, Sending, Handling, Ending, HasSettled,
     Settling, AnswerFrame, NoFrame, Waiting, PlainFrame
<1>12. Others(e)
  BY DEF ExchangeTypeOK, Others, CopiesPlain, Goes, Emits
<1>13. Fills(e)
  BY <1>1 DEF Good, Fills, Waiting, Sending, Handling, Part, NoFrame
<1>14. ExchangeTypeOK'
  <2>1. pc' \in [Exchange -> Places]
    <3>1. Goes(e, "handler", "copied") /\ "copied" \in AtHandle
      BY DEF CopiesPlain, Emits, AtSend, AtHandle
    <3> QED BY <3>1, GoesType, Zenon DEF ExchangeTypeOK
  <2>2. out' \in [Exchange -> [Part -> AnyFrame \cup {NoFrame}]]
    BY EmitsType, EntryTypes DEF ExchangeTypeOK, CopiesPlain, Goes, Part, AnyFrame, AnswerFrame, BodyFrame,
       PlainFrame
  <2> QED BY <2>1, <2>2, <1>1, <1>12 DEF ExchangeTypeOK, CopiesPlain
<1> QED BY <1>4, <1>5, <1>6, <1>7, <1>8, <1>9, <1>10, <1>11, <1>12, <1>13, <1>14 DEF Good, Sound

(* A line joins the event held. *)
LEMMA StreamLineKeeps ==
  ASSUME ExchangeTypeOK, NEW e \in Exchange, Good(e), NEW answers \in BOOLEAN, StreamLine(e, answers)
  PROVE  Sound(e)
<1>1. /\ pc[e].handler = "copy" /\ reply[e].kind = "stream" /\ pc' = pc /\ tap' = tap /\ state' = state
      /\ truth' = truth /\ post' = post /\ reply'[e].kind = reply[e].kind /\ out' = out
  BY DEF ExchangeTypeOK, Posts, Taps, States, Places, Replies, Truths, Part, StreamLine
<1>2. Unwritten(e)
  BY Quiet DEF StreamLine
<1>3. ShownStays(e)
  BY <1>1, <1>2 DEF ShownStays, Good, Unwritten, ShownOf, InCopy, Told, Waiting, Sending, Handling, Message,
     Settling, AnswerFrame, NoFrame
<1>4. Reading(e)' /\ Delivering(e)' /\ Whole(e)' /\ Refusing(e)'
  BY <1>1, <1>2, <1>3, EntryTypes DEF Good, Unwritten, ShownStays, Sending, Handling, Reading, Read,
     Delivering, Writing, Closed, Whole, Holds, Refusing, Message
<1>5. Distinct(e)' /\ Waiting(e)' /\ Single(e)' /\ Ending(e)'
  BY <1>1, <1>2, <1>3, EntryTypes DEF Good, Unwritten, ShownStays, Sending, Handling, Distinct, Waiting,
     Settling, AnswerFrame, BodyFrame, Message, NoFrame, Single, InCopy, Told, Ending, HasSettled
<1>6. Others(e)
  BY DEF ExchangeTypeOK, Others, StreamLine
<1>7. Fills(e)
  BY <1>1 DEF Good, Fills, Waiting, Sending, Handling, Part, NoFrame
<1>8. ExchangeTypeOK'
  <2>1. reply' \in [Exchange -> Replies]
    <3>1. /\ reply \in [Exchange -> Replies]
          /\ reply' = [reply EXCEPT ![e].lines = reply[e].lines + 1, ![e].event = DataLine(reply[e].event, answers)]
      BY DEF StreamLine, ExchangeTypeOK, Replies
    <3>9. MaxLines \in Nat /\ reply[e].lines \in 0 .. MaxLines /\ reply[e].lines < MaxLines
      BY HttpExchangeAssumption DEF ExchangeTypeOK, Replies, StreamLine
    <3>2. reply[e].lines + 1 \in 0 .. MaxLines
      BY <3>9
    <3>8. Cap \in Nat /\ reply[e].event \in Event
      BY HttpExchangeAssumption DEF ExchangeTypeOK, Replies
    <3>3. DataLine(reply[e].event, answers) \in Event
      BY <3>8 DEF DataLine, Event
    <3> QED BY <3>1, <3>2, <3>3, ReplyType, Zenon
  <2> QED BY <2>1, <1>1, <1>6 DEF ExchangeTypeOK, StreamLine
<1> QED BY <1>4, <1>5, <1>6, <1>7, <1>8 DEF Good, Sound

(* An event is on its way, and an answer marks the exchange. *)
LEMMA StreamBlankKeeps ==
  ASSUME ExchangeTypeOK, NEW e \in Exchange, Good(e), StreamBlank(e)
  PROVE  Sound(e)
<1>1. /\ pc[e].handler = "copy" /\ reply[e].kind = "stream" /\ out[e]["handler"] = NoFrame /\ pc' = pc
      /\ tap' = tap /\ state'[e].request = state[e].request
      /\ state'[e].answered = (state[e].answered \/ HeldFrame(e) = "answer")
      /\ state'[e].cutShort = state[e].cutShort /\ truth' = truth /\ post' = post
      /\ reply'[e].kind = reply[e].kind
      /\ out'[e]["transport"] = out[e]["transport"] /\ out'[e]["handler"] = HeldFrame(e)
  BY DEF ExchangeTypeOK, Posts, Taps, States, Places, Replies, Truths, Part, StreamBlank, Emits, Idle
<1>2. Unwritten(e)
  BY Quiet DEF StreamBlank
<1>3. ShownStays(e)
  BY <1>1, <1>2 DEF ShownStays, Good, Unwritten, ShownOf, InCopy, Told, Waiting, Sending, Handling, Message,
     Settling, AnswerFrame, NoFrame, HeldFrame, EventFrame
<1>4. Distinct(e)'
  BY <1>1, <1>2, <1>3, EntryTypes DEF Good, Unwritten, ShownStays, Sending, Handling, Distinct, HeldFrame,
     EventFrame
<1>5. Reading(e)'
  BY <1>1, <1>2, <1>3, EntryTypes DEF Good, Unwritten, ShownStays, Sending, Handling, Reading, Read,
     HeldFrame, EventFrame
<1>6. Delivering(e)'
  BY <1>1, <1>2, <1>3, EntryTypes DEF Good, Unwritten, ShownStays, Sending, Handling, Delivering, Writing,
     Closed, HeldFrame, EventFrame
<1>7. Waiting(e)'
  BY <1>1, <1>2, <1>3, EntryTypes DEF Good, Unwritten, ShownStays, Sending, Handling, Waiting, Settling,
     AnswerFrame, BodyFrame, Message, NoFrame, HeldFrame, EventFrame
<1>8. Single(e)'
  BY <1>1, <1>2, <1>3, EntryTypes DEF Good, Unwritten, ShownStays, Sending, Handling, Single, InCopy, Told,
     Message, NoFrame, Waiting, Settling, AnswerFrame, HeldFrame, EventFrame
<1>9. Whole(e)'
  BY <1>1, <1>2, <1>3, EntryTypes DEF Good, Unwritten, ShownStays, Sending, Handling, Whole, Holds,
     HeldFrame, EventFrame
<1>10. Refusing(e)'
  BY <1>1, <1>2, <1>3, EntryTypes DEF Good, Unwritten, ShownStays, Sending, Handling, Refusing, Reading,
     Delivering, Holds, Writing, Closed, Read, Message, HeldFrame, EventFrame
<1>11. Ending(e)'
  BY <1>1, <1>2, <1>3, EntryTypes DEF Good, Unwritten, ShownStays, Sending, Handling, Ending, HasSettled,
     Settling, AnswerFrame, NoFrame, Waiting, HeldFrame, EventFrame
<1>12. Others(e)
  BY DEF ExchangeTypeOK, Others, StreamBlank, Emits
<1>13. Fills(e)
  BY <1>1 DEF Good, Fills, Waiting, Sending, Handling, Part, NoFrame
<1>14. ExchangeTypeOK'
  <2>1. out' \in [Exchange -> [Part -> AnyFrame \cup {NoFrame}]]
    BY EmitsType, EntryTypes DEF ExchangeTypeOK, StreamBlank, Part, AnyFrame, AnswerFrame, BodyFrame,
       HeldFrame, EventFrame
  <2>2. state' \in [Exchange -> States]
    <3>1. /\ state \in [Exchange -> States]
          /\ state' = [state EXCEPT ![e].answered = state[e].answered \/ HeldFrame(e) = "answer"]
      BY DEF StreamBlank, Emits, ExchangeTypeOK, States
    <3>2. (state[e].answered \/ HeldFrame(e) = "answer") \in BOOLEAN
      OBVIOUS
    <3> QED BY <3>1, <3>2, StateType, Zenon
  <2>3. reply' \in [Exchange -> Replies]
    <3>1. /\ reply \in [Exchange -> Replies]
          /\ reply' = [reply EXCEPT ![e].event = NoEvent]
      BY DEF StreamBlank, Emits, ExchangeTypeOK, Replies
    <3>2. NoEvent \in Event
      BY HttpExchangeAssumption DEF Event, NoEvent
    <3> QED BY <3>1, <3>2, ReplyType, Zenon
  <2> QED BY <2>1, <2>2, <2>3, <1>1, <1>12 DEF ExchangeTypeOK, StreamBlank
<1> QED BY <1>4, <1>5, <1>6, <1>7, <1>8, <1>9, <1>10, <1>11, <1>12, <1>13, <1>14 DEF Good, Sound

(* A stream that the target broke is one that will say it was cut. *)
LEMMA StreamEndsKeeps ==
  ASSUME ExchangeTypeOK, NEW e \in Exchange, Good(e), NEW how \in {"server", "client", "target"}, StreamEnds(e, how)
  PROVE  Sound(e)
<1>1. /\ pc[e].handler = "copy" /\ reply[e].kind = "stream" /\ out[e]["handler"] = NoFrame
      /\ pc'[e].transport = pc[e].transport
      /\ pc'[e].handler = (IF how = "server" THEN "closeStream" ELSE "cutStream")
      /\ tap' = tap /\ state' = state /\ truth'[e].forwarded = truth[e].forwarded
      /\ truth'[e].drained = truth[e].drained /\ truth'[e].before = truth[e].before
      /\ truth'[e].died = (how = "target") /\ truth'[e].checked = truth[e].checked /\ post' = post
      /\ reply' = reply /\ out' = out
  BY DEF ExchangeTypeOK, Posts, Taps, States, Places, Replies, Truths, Part, StreamEnds, Goes, Idle
<1>2. Unwritten(e)
  BY Quiet DEF StreamEnds
<1>3. ShownStays(e)
  BY <1>1, <1>2 DEF ShownStays, Good, Unwritten, ShownOf, InCopy, Told, Waiting, Sending, Handling, Message,
     Settling, AnswerFrame, NoFrame
<1>4. Reading(e)' /\ Delivering(e)' /\ Whole(e)' /\ Refusing(e)'
  BY <1>1, <1>2, <1>3, EntryTypes DEF Good, Unwritten, ShownStays, Sending, Handling, Reading, Read,
     Delivering, Writing, Closed, Whole, Holds, Refusing, Message
<1>5. Distinct(e)' /\ Waiting(e)' /\ Single(e)' /\ Ending(e)'
  BY <1>1, <1>2, <1>3, EntryTypes DEF Good, Unwritten, ShownStays, Sending, Handling, Distinct, Waiting,
     Settling, AnswerFrame, BodyFrame, Message, NoFrame, Single, InCopy, Told, Ending, HasSettled
<1>6. Others(e)
  BY DEF ExchangeTypeOK, Others, StreamEnds, Goes
<1>7. Fills(e)
  BY <1>1 DEF Good, Fills, Waiting, Sending, Handling, Part, NoFrame
<1>8. ExchangeTypeOK'
  <2>1. pc' \in [Exchange -> Places]
    <3>1. /\ Goes(e, "handler", (IF how = "server" THEN "closeStream" ELSE "cutStream"))
          /\ (IF how = "server" THEN "closeStream" ELSE "cutStream") \in AtHandle
      BY DEF StreamEnds, AtSend, AtHandle
    <3> QED BY <3>1, GoesType, Zenon DEF ExchangeTypeOK
  <2>2. truth' \in [Exchange -> Truths]
    <3>1. /\ truth \in [Exchange -> Truths]
          /\ truth' = [truth EXCEPT ![e].died = (how = "target")]
      BY DEF StreamEnds, Goes, ExchangeTypeOK, Truths
    <3>2. (how = "target") \in BOOLEAN
      OBVIOUS
    <3> QED BY <3>1, <3>2, TruthType, Zenon
  <2> QED BY <2>1, <2>2, <1>1, <1>6 DEF ExchangeTypeOK, StreamEnds
<1> QED BY <1>4, <1>5, <1>6, <1>7, <1>8 DEF Good, Sound

(* The event held is on its way, and a broken stream has said that it was cut. *)
LEMMA ClosesStreamKeeps ==
  ASSUME ExchangeTypeOK, NEW e \in Exchange, Good(e), ClosesStream(e)
  PROVE  Sound(e)
<1>1. /\ pc[e].handler \in {"closeStream", "cutStream"}
      /\ pc'[e].transport = pc[e].transport /\ pc'[e].handler = "copied" /\ tap' = tap
      /\ state'[e].request = state[e].request
      /\ state'[e].answered = (state[e].answered \/ HeldFrame(e) = "answer")
      /\ state'[e].cutShort = (state[e].cutShort \/ pc[e].handler = "cutStream") /\ truth' = truth
      /\ post' = post /\ reply'[e].kind = reply[e].kind
      /\ out'[e]["transport"] = out[e]["transport"] /\ out'[e]["handler"] = HeldFrame(e)
  BY DEF ExchangeTypeOK, Posts, Taps, States, Places, Replies, Truths, Part, ClosesStream, Goes, Emits,
     SaysCut
<1>2. Unwritten(e)
  BY Quiet DEF ClosesStream
<1>3. ShownStays(e)
  BY <1>1, <1>2 DEF ShownStays, Good, Unwritten, ShownOf, InCopy, Told, Waiting, Sending, Handling, Message,
     Settling, AnswerFrame, NoFrame, HeldFrame, EventFrame
<1>4. Distinct(e)'
  BY <1>1, <1>2, <1>3, EntryTypes DEF Good, Unwritten, ShownStays, Sending, Handling, Distinct, HeldFrame,
     EventFrame
<1>5. Reading(e)'
  BY <1>1, <1>2, <1>3, EntryTypes DEF Good, Unwritten, ShownStays, Sending, Handling, Reading, Read,
     HeldFrame, EventFrame
<1>6. Delivering(e)'
  BY <1>1, <1>2, <1>3, EntryTypes DEF Good, Unwritten, ShownStays, Sending, Handling, Delivering, Writing,
     Closed, HeldFrame, EventFrame
<1>7. Waiting(e)'
  BY <1>1, <1>2, <1>3, EntryTypes DEF Good, Unwritten, ShownStays, Sending, Handling, Waiting, Settling,
     AnswerFrame, BodyFrame, Message, NoFrame, HeldFrame, EventFrame
<1>8. Single(e)'
  BY <1>1, <1>2, <1>3, EntryTypes DEF Good, Unwritten, ShownStays, Sending, Handling, Single, InCopy, Told,
     Message, NoFrame, Waiting, Settling, AnswerFrame, HeldFrame, EventFrame
<1>9. Whole(e)'
  BY <1>1, <1>2, <1>3, EntryTypes DEF Good, Unwritten, ShownStays, Sending, Handling, Whole, Holds,
     HeldFrame, EventFrame
<1>10. Refusing(e)'
  BY <1>1, <1>2, <1>3, EntryTypes DEF Good, Unwritten, ShownStays, Sending, Handling, Refusing, Reading,
     Delivering, Holds, Writing, Closed, Read, Message, HeldFrame, EventFrame
<1>11. Ending(e)'
  BY <1>1, <1>2, <1>3, EntryTypes DEF Good, Unwritten, ShownStays, Sending, Handling, Ending, HasSettled,
     Settling, AnswerFrame, NoFrame, Waiting, HeldFrame, EventFrame
<1>12. Others(e)
  BY DEF ExchangeTypeOK, Others, ClosesStream, Goes, Emits, SaysCut
<1>13. Fills(e)
  BY <1>1 DEF Good, Fills, Waiting, Sending, Handling, Part, NoFrame
<1>14. ExchangeTypeOK'
  <2>1. pc' \in [Exchange -> Places]
    <3>1. Goes(e, "handler", "copied") /\ "copied" \in AtHandle
      BY DEF ClosesStream, Emits, SaysCut, AtSend, AtHandle
    <3> QED BY <3>1, GoesType, Zenon DEF ExchangeTypeOK
  <2>2. out' \in [Exchange -> [Part -> AnyFrame \cup {NoFrame}]]
    BY EmitsType, EntryTypes DEF ExchangeTypeOK, ClosesStream, Goes, SaysCut, Part, AnyFrame, AnswerFrame,
       BodyFrame, HeldFrame, EventFrame
  <2>3. state' \in [Exchange -> States]
    <3>1. /\ state \in [Exchange -> States]
          /\ state' = [state EXCEPT ![e].answered = state[e].answered \/ HeldFrame(e) = "answer",
                                    ![e].cutShort = state[e].cutShort \/ SaysCut(e)]
      BY DEF ClosesStream, Goes, Emits, SaysCut, ExchangeTypeOK, States
    <3>2. (state[e].answered \/ HeldFrame(e) = "answer") \in BOOLEAN
      OBVIOUS
    <3>3. (state[e].cutShort \/ SaysCut(e)) \in BOOLEAN
      OBVIOUS
    <3> QED BY <3>1, <3>2, <3>3, StateType, Zenon
  <2>4. reply' \in [Exchange -> Replies]
    <3>1. /\ reply \in [Exchange -> Replies]
          /\ reply' = [reply EXCEPT ![e].event = NoEvent]
      BY DEF ClosesStream, Goes, Emits, SaysCut, ExchangeTypeOK, Replies
    <3>2. NoEvent \in Event
      BY HttpExchangeAssumption DEF Event, NoEvent
    <3> QED BY <3>1, <3>2, ReplyType, Zenon
  <2> QED BY <2>1, <2>2, <2>3, <2>4, <1>1, <1>12 DEF ExchangeTypeOK, ClosesStream
<1> QED BY <1>4, <1>5, <1>6, <1>7, <1>8, <1>9, <1>10, <1>11, <1>12, <1>13, <1>14 DEF Good, Sound

(* The answer's last frame was written. *)
LEMMA CopyOverKeeps ==
  ASSUME ExchangeTypeOK, NEW e \in Exchange, Good(e), CopyOver(e)
  PROVE  Sound(e)
<1>1. /\ pc[e].handler = "copied" /\ out[e]["handler"] = NoFrame
      /\ pc'[e].transport = pc[e].transport /\ pc'[e].handler = "close" /\ tap' = tap /\ state' = state
      /\ truth' = truth /\ post' = post /\ reply' = reply /\ out' = out
  BY DEF ExchangeTypeOK, Posts, Taps, States, Places, Replies, Truths, Part, CopyOver, Goes, Idle
<1>2. Unwritten(e)
  BY Quiet DEF CopyOver
<1>3. ShownStays(e)
  BY <1>1, <1>2 DEF ShownStays, Good, Unwritten, ShownOf, InCopy, Told, Waiting, Sending, Handling, Message,
     Settling, AnswerFrame, NoFrame
<1>4. Reading(e)' /\ Delivering(e)' /\ Whole(e)' /\ Refusing(e)'
  BY <1>1, <1>2, <1>3, EntryTypes DEF Good, Unwritten, ShownStays, Sending, Handling, Reading, Read,
     Delivering, Writing, Closed, Whole, Holds, Refusing, Message
<1>5. Distinct(e)' /\ Waiting(e)' /\ Single(e)' /\ Ending(e)'
  BY <1>1, <1>2, <1>3, EntryTypes DEF Good, Unwritten, ShownStays, Sending, Handling, Distinct, Waiting,
     Settling, AnswerFrame, BodyFrame, Message, NoFrame, Single, InCopy, Told, Ending, HasSettled
<1>6. Others(e)
  BY DEF ExchangeTypeOK, Others, CopyOver, Goes
<1>7. Fills(e)
  BY <1>1 DEF Good, Fills, Waiting, Sending, Handling, Part, NoFrame
<1>8. ExchangeTypeOK'
  <2>1. pc' \in [Exchange -> Places]
    <3>1. Goes(e, "handler", "close") /\ "close" \in AtHandle
      BY DEF CopyOver, AtSend, AtHandle
    <3> QED BY <3>1, GoesType, Zenon DEF ExchangeTypeOK
  <2> QED BY <2>1, <1>1, <1>6 DEF ExchangeTypeOK, CopyOver
<1> QED BY <1>4, <1>5, <1>6, <1>7, <1>8 DEF Good, Sound

(* Nobody read: the handler takes readMu to drain, which the transport does not have then. *)
LEMMA ClosesUnreadKeeps ==
  ASSUME ExchangeTypeOK, NEW e \in Exchange, Good(e), Closes(e), Drains(e)
  PROVE  Sound(e)
<1>1. /\ pc[e].handler = "close" /\ pc'[e].transport = pc[e].transport /\ pc'[e].handler = "drain"
      /\ tap'[e].started = TRUE /\ tap'[e].ended = tap[e].ended /\ tap'[e].done = tap[e].done
      /\ tap'[e].kept = tap[e].kept /\ tap'[e].cut = tap[e].cut /\ tap'[e].held = "handler"
      /\ tap'[e].seen = tap[e].seen /\ state' = state /\ truth' = truth /\ post' = post /\ reply' = reply
      /\ out' = out
  BY DEF ExchangeTypeOK, Posts, Taps, States, Places, Replies, Truths, Part, Closes, Goes
<1>2. Unwritten(e)
  BY Quiet DEF Closes
<1>3. ShownStays(e)
  BY <1>1, <1>2 DEF ShownStays, Good, Unwritten, ShownOf, InCopy, Told, Waiting, Sending, Handling, Message,
     Settling, AnswerFrame, NoFrame, Drains
<1>4. Reading(e)' /\ Delivering(e)' /\ Whole(e)' /\ Refusing(e)'
  BY <1>1, <1>2, <1>3, EntryTypes DEF Good, Unwritten, ShownStays, Sending, Handling, Reading, Read,
     Delivering, Writing, Closed, Whole, Holds, Refusing, Message, Drains
<1>5. Distinct(e)' /\ Waiting(e)' /\ Single(e)' /\ Ending(e)'
  BY <1>1, <1>2, <1>3, EntryTypes DEF Good, Unwritten, ShownStays, Sending, Handling, Distinct, Waiting,
     Settling, AnswerFrame, BodyFrame, Message, NoFrame, Single, InCopy, Told, Ending, HasSettled, Drains
<1>6. Others(e)
  BY DEF ExchangeTypeOK, Others, Closes, Goes
<1>7. Fills(e)
  BY <1>1 DEF Good, Fills, Waiting, Sending, Handling, Part, NoFrame
<1>8. ExchangeTypeOK'
  <2>1. pc' \in [Exchange -> Places]
    <3>1. Goes(e, "handler", "drain") /\ "drain" \in AtHandle
      BY DEF Closes, AtSend, AtHandle
    <3> QED BY <3>1, GoesType, Zenon DEF ExchangeTypeOK
  <2>2. tap' \in [Exchange -> Taps]
    <3>1. /\ tap \in [Exchange -> Taps]
          /\ tap' = [tap EXCEPT ![e].held = "handler", ![e].started = TRUE]
      BY DEF Closes, Goes, ExchangeTypeOK, Taps
    <3>2. "handler" \in {"no"} \cup Part
      BY DEF Part
    <3> QED BY <3>1, <3>2, TapType, Zenon
  <2> QED BY <2>1, <2>2, <1>1, <1>6 DEF ExchangeTypeOK, Closes
<1> QED BY <1>4, <1>5, <1>6, <1>7, <1>8 DEF Good, Sound

(* Somebody read, so it was not a refused request. *)
LEMMA ClosesReadKeeps ==
  ASSUME ExchangeTypeOK, NEW e \in Exchange, Good(e), Closes(e), ~Drains(e)
  PROVE  Sound(e)
<1>1. /\ pc[e].handler = "close" /\ pc'[e].transport = pc[e].transport /\ pc'[e].handler = "finish"
      /\ tap' = tap /\ state' = state /\ truth' = truth /\ post' = post /\ reply' = reply /\ out' = out
  BY DEF ExchangeTypeOK, Posts, Taps, States, Places, Replies, Truths, Part, Closes, Goes
<1>2. Unwritten(e)
  BY Quiet DEF Closes
<1>3. ShownStays(e)
  BY <1>1, <1>2 DEF ShownStays, Good, Unwritten, ShownOf, InCopy, Told, Waiting, Sending, Handling, Message,
     Settling, AnswerFrame, NoFrame, Drains
<1>4. Refusing(e)'
  BY <1>1, <1>2, <1>3, EntryTypes DEF Unwritten, ShownStays, Good, Sending, Handling, Refusing, Reading,
     Drains
<1>5. Reading(e)' /\ Delivering(e)' /\ Whole(e)'
  BY <1>1, <1>2, <1>3, EntryTypes DEF Good, Unwritten, ShownStays, Sending, Handling, Reading, Read,
     Delivering, Writing, Closed, Whole, Holds, Drains
<1>6. Distinct(e)' /\ Waiting(e)' /\ Single(e)' /\ Ending(e)'
  BY <1>1, <1>2, <1>3, EntryTypes DEF Good, Unwritten, ShownStays, Sending, Handling, Distinct, Waiting,
     Settling, AnswerFrame, BodyFrame, Message, NoFrame, Single, InCopy, Told, Ending, HasSettled, Drains
<1>7. Others(e)
  BY DEF ExchangeTypeOK, Others, Closes, Goes
<1>8. Fills(e)
  BY <1>1 DEF Good, Fills, Waiting, Sending, Handling, Part, NoFrame
<1>9. ExchangeTypeOK'
  <2>1. pc' \in [Exchange -> Places]
    <3>1. Goes(e, "handler", "finish") /\ "finish" \in AtHandle
      BY DEF Closes, AtSend, AtHandle
    <3> QED BY <3>1, GoesType, Zenon DEF ExchangeTypeOK
  <2> QED BY <2>1, <1>1, <1>7 DEF ExchangeTypeOK, Closes
<1> QED BY <1>4, <1>5, <1>6, <1>7, <1>8, <1>9 DEF Good, Sound

(* A piece more: the copy is what was drained, as far as the cap. *)
LEMMA DrainGetsKeeps ==
  ASSUME ExchangeTypeOK, NEW e \in Exchange, Good(e), DrainGets(e)
  PROVE  Sound(e)
<1>1. /\ pc[e].handler = "drain" /\ ~tap[e].ended /\ Available(e) /\ pc' = pc
      /\ tap'[e].started = tap[e].started
      /\ tap'[e].ended = (AtEnd(e, truth[e].forwarded + truth[e].drained + 1) /\ ~post[e].eofLate)
      /\ tap'[e].done = tap[e].done
      /\ tap'[e].kept = (IF tap[e].kept < Cap THEN tap[e].kept + 1 ELSE tap[e].kept)
      /\ tap'[e].cut = (tap[e].cut \/ tap[e].kept >= Cap) /\ tap'[e].held = tap[e].held
      /\ tap'[e].seen = tap[e].seen /\ state' = state /\ truth'[e].forwarded = truth[e].forwarded
      /\ truth'[e].drained = truth[e].drained + 1 /\ truth'[e].before = truth[e].before
      /\ truth'[e].died = truth[e].died /\ truth'[e].checked = truth[e].checked /\ post' = post
      /\ reply' = reply /\ out' = out
  BY DEF ExchangeTypeOK, Posts, Taps, States, Places, Replies, Truths, Part, DrainGets, Kept
<1>2. Unwritten(e)
  BY Quiet DEF DrainGets
<1>3. ShownStays(e)
  BY <1>1, <1>2 DEF ShownStays, Good, Unwritten, ShownOf, InCopy, Told, Waiting, Sending, Handling, Message,
     Settling, AnswerFrame, NoFrame, Available, AtEnd
<1>4. Reading(e)'
  <2>0. Read(e) \in Nat /\ Read(e) = truth[e].forwarded + truth[e].drained /\ Read(e)' = Read(e) + 1
    <3>1. truth[e].forwarded \in Nat /\ truth[e].drained \in Nat
      BY EntryTypes
    <3>2. truth'[e].forwarded + truth'[e].drained = truth[e].forwarded + truth[e].drained + 1
      BY <1>1, <3>1
    <3> QED BY <3>1, <3>2 DEF Read
  <2>1. Read(e) + 1 <= post[e].sent
    BY <1>1, <2>0, EntryTypes DEF Available
  <2>2. /\ tap[e].kept = (IF Read(e) < Cap THEN Read(e) ELSE Cap)
        /\ tap[e].cut <=> Read(e) > Cap
    BY DEF Good, Reading
  <2>3. tap[e].kept >= Cap <=> Read(e) >= Cap
    BY <2>0, <2>2, EntryTypes
  <2>4. tap'[e].cut <=> Read(e) + 1 > Cap
    <3>1. tap'[e].cut <=> tap[e].cut \/ tap[e].kept >= Cap
      BY <1>1
    <3> QED BY <2>0, <2>2, <2>3, <3>1, EntryTypes
  <2>5. tap'[e].kept = (IF Read(e) + 1 < Cap THEN Read(e) + 1 ELSE Cap)
    BY <1>1, <2>0, <2>2, EntryTypes
  <2>6. tap'[e].ended => Read(e) + 1 = post[e].size
    BY <1>1, <2>0 DEF AtEnd
  <2> QED BY <1>1, <2>0, <2>1, <2>4, <2>5, <2>6 DEF Good, Reading, Sending, Handling
<1>5. Delivering(e)' /\ Whole(e)' /\ Refusing(e)'
  BY <1>1, <1>2, <1>3, EntryTypes DEF Good, Unwritten, ShownStays, Sending, Handling, Delivering, Writing,
     Closed, Whole, Holds, Refusing, Reading, Read, Message, Available, AtEnd
<1>6. Distinct(e)' /\ Waiting(e)' /\ Single(e)' /\ Ending(e)'
  BY <1>1, <1>2, <1>3, EntryTypes DEF Good, Unwritten, ShownStays, Sending, Handling, Distinct, Waiting,
     Settling, AnswerFrame, BodyFrame, Message, NoFrame, Single, InCopy, Told, Ending, HasSettled, Available,
     AtEnd
<1>7. Others(e)
  BY DEF ExchangeTypeOK, Others, DrainGets, Kept
<1>8. Fills(e)
  BY <1>1 DEF Good, Fills, Waiting, Sending, Handling, Part, NoFrame
<1>9. ExchangeTypeOK'
  <2>1. tap' \in [Exchange -> Taps]
    <3>1. /\ tap \in [Exchange -> Taps]
          /\ tap' = [tap EXCEPT ![e] = Kept(tap[e], e, truth[e].forwarded + truth[e].drained + 1)]
      BY DEF DrainGets, ExchangeTypeOK, Taps
    <3>2. Kept(tap[e], e, truth[e].forwarded + truth[e].drained + 1) \in Taps
      BY KeptType DEF ExchangeTypeOK
    <3> QED BY <3>1, <3>2, TapType, Zenon
  <2>2. truth' \in [Exchange -> Truths]
    <3>1. /\ truth \in [Exchange -> Truths]
          /\ truth' = [truth EXCEPT ![e].drained = truth[e].drained + 1]
      BY DEF DrainGets, ExchangeTypeOK, Truths
    <3>2. truth[e].drained + 1 \in Nat
      BY EntryTypes
    <3> QED BY <3>1, <3>2, TruthType, Zenon
  <2> QED BY <2>1, <2>2, <1>1, <1>7 DEF ExchangeTypeOK, DrainGets
<1> QED BY <1>4, <1>5, <1>6, <1>7, <1>8, <1>9 DEF Good, Sound

(* The drain ends: all of the body that fits the cap was read, unless the client left. *)
LEMMA DrainEndsKeeps ==
  ASSUME ExchangeTypeOK, NEW e \in Exchange, Good(e), DrainEnds(e)
  PROVE  Sound(e)
<1>1. /\ pc[e].handler = "drain"
      /\ tap[e].ended \/ truth[e].drained > Cap \/ AtEnd(e, truth[e].forwarded + truth[e].drained) \/ post[e].gone
      /\ pc'[e].transport = pc[e].transport /\ pc'[e].handler = "finish" /\ tap'[e].started = tap[e].started
      /\ tap'[e].ended = tap[e].ended /\ tap'[e].done = tap[e].done /\ tap'[e].kept = tap[e].kept
      /\ tap'[e].cut = tap[e].cut /\ tap'[e].held = "no" /\ tap'[e].seen = tap[e].seen /\ state' = state
      /\ truth' = truth /\ post' = post /\ reply' = reply /\ out' = out
  BY DEF ExchangeTypeOK, Posts, Taps, States, Places, Replies, Truths, Part, DrainEnds, Goes
<1>2. Unwritten(e)
  BY Quiet DEF DrainEnds
<1>3. ShownStays(e)
  BY <1>1, <1>2 DEF ShownStays, Good, Unwritten, ShownOf, InCopy, Told, Waiting, Sending, Handling, Message,
     Settling, AnswerFrame, NoFrame, AtEnd
<1>4. Reading(e)' /\ Delivering(e)' /\ Whole(e)' /\ Refusing(e)'
  BY <1>1, <1>2, <1>3, EntryTypes DEF Good, Unwritten, ShownStays, Sending, Handling, Reading, Read,
     Delivering, Writing, Closed, Whole, Holds, Refusing, Message, AtEnd
<1>5. Distinct(e)' /\ Waiting(e)' /\ Single(e)' /\ Ending(e)'
  BY <1>1, <1>2, <1>3, EntryTypes DEF Good, Unwritten, ShownStays, Sending, Handling, Distinct, Waiting,
     Settling, AnswerFrame, BodyFrame, Message, NoFrame, Single, InCopy, Told, Ending, HasSettled, AtEnd
<1>6. Others(e)
  BY DEF ExchangeTypeOK, Others, DrainEnds, Goes
<1>7. Fills(e)
  BY <1>1 DEF Good, Fills, Waiting, Sending, Handling, Part, NoFrame
<1>8. ExchangeTypeOK'
  <2>1. pc' \in [Exchange -> Places]
    <3>1. Goes(e, "handler", "finish") /\ "finish" \in AtHandle
      BY DEF DrainEnds, AtSend, AtHandle
    <3> QED BY <3>1, GoesType, Zenon DEF ExchangeTypeOK
  <2>2. tap' \in [Exchange -> Taps]
    <3>1. /\ tap \in [Exchange -> Taps]
          /\ tap' = [tap EXCEPT ![e].held = "no"]
      BY DEF DrainEnds, Goes, ExchangeTypeOK, Taps
    <3>2. "no" \in {"no"} \cup Part
      BY DEF Part
    <3> QED BY <3>1, <3>2, TapType, Zenon
  <2> QED BY <2>1, <2>2, <1>1, <1>6 DEF ExchangeTypeOK, DrainEnds
<1> QED BY <1>4, <1>5, <1>6, <1>7, <1>8 DEF Good, Sound

(* The handler comes first and takes the copy: a refused request that fits is in it. *)
LEMMA HandlerFirstKeeps ==
  ASSUME ExchangeTypeOK, NEW e \in Exchange, Good(e), HandlerFinishes(e), ~tap[e].done
  PROVE  Sound(e)
<1>1. /\ pc[e].handler = "finish" /\ pc'[e].transport = pc[e].transport /\ pc'[e].handler = "deliver"
      /\ tap'[e].started = tap[e].started /\ tap'[e].ended = tap[e].ended /\ tap'[e].done = TRUE
      /\ tap'[e].kept = tap[e].kept /\ tap'[e].cut = tap[e].cut /\ tap'[e].held = tap[e].held
      /\ tap'[e].seen = Observed(e) /\ state' = state /\ truth' = truth /\ post' = post /\ reply' = reply
      /\ out' = out
  BY DEF ExchangeTypeOK, Posts, Taps, States, Places, Replies, Truths, Part, HandlerFinishes, Goes,
     MayFinish, Snapshots
<1>2. Unwritten(e)
  BY Quiet DEF HandlerFinishes
<1>a. /\ Observed(e) \in Seq(BodyFrame)
      /\ \A i, j \in DOMAIN Observed(e) : Observed(e)[i] = Observed(e)[j] => i = j
      /\ ~tap[e].cut /\ tap[e].kept = post[e].size /\ tap[e].kept # 0 => Observed(e) = post[e].holds
  BY ObservedIs DEF Good
<1>b. \A f \in Message : ~Logged(e, f) /\ ~Told(e, f)
  BY DEF Good, Delivering, ShownOf
<1>c. \A f : Told(e, f)' <=> Told(e, f)
  BY <1>1 DEF Told
<1>3. \A f \in Message : ShownOf(e, f)' <=> f \in ToSet(Observed(e))
  BY <1>1, <1>2, <1>b, <1>c DEF Unwritten, ShownOf, InCopy
<1>d. post[e].size \in 1 .. Cap /\ Read(e) = post[e].size => Observed(e) = post[e].holds
  BY <1>a, EntryTypes DEF Good, Reading
<1>e. truth[e].before = post[e].size => Read(e) = post[e].size
  BY EntryTypes DEF Good, Reading, Read
<1>4. Whole(e)'
  BY <1>1, <1>3, <1>d, <1>e DEF Whole, Holds
<1>5. Refusing(e)'
  BY <1>1, <1>2, <1>3, <1>d, EntryTypes DEF Unwritten, Good, Refusing, Holds, Writing, Closed, Message,
     Sending, Handling, Read
<1>6. Single(e)'
  BY <1>1, <1>2, <1>a, <1>b, <1>c DEF Unwritten, Good, Single
<1>7. Reading(e)' /\ Delivering(e)'
  BY <1>1, <1>2, <1>3, EntryTypes DEF Good, Unwritten, ShownStays, Sending, Handling, Reading, Read,
     Delivering, Writing, Closed, Observed, AfterClose
<1>8. Distinct(e)' /\ Waiting(e)' /\ Ending(e)'
  BY <1>1, <1>2, <1>3, EntryTypes DEF Good, Unwritten, ShownStays, Sending, Handling, Distinct, Waiting,
     Settling, AnswerFrame, BodyFrame, Message, NoFrame, Ending, HasSettled, Observed, AfterClose
<1>9. Others(e)
  BY DEF ExchangeTypeOK, Others, HandlerFinishes, Goes, MayFinish, Snapshots
<1>10. Fills(e)
  BY <1>1 DEF Good, Fills, Waiting, Sending, Handling, Part, NoFrame
<1>11. ExchangeTypeOK'
  <2>1. pc' \in [Exchange -> Places]
    <3>1. Goes(e, "handler", "deliver") /\ "deliver" \in AtHandle
      BY DEF HandlerFinishes, MayFinish, Snapshots, AtSend, AtHandle
    <3> QED BY <3>1, GoesType, Zenon DEF ExchangeTypeOK
  <2>2. tap' \in [Exchange -> Taps]
    <3>1. /\ tap \in [Exchange -> Taps]
          /\ tap' = [tap EXCEPT ![e].done = TRUE, ![e].seen = Observed(e)]
      BY DEF HandlerFinishes, Goes, MayFinish, Snapshots, ExchangeTypeOK, Taps
    <3>2. Observed(e) \in Seq(BodyFrame)
      BY ObservedIs DEF Good
    <3> QED BY <3>1, <3>2, TapType, Zenon
  <2> QED BY <2>1, <2>2, <1>1, <1>9 DEF ExchangeTypeOK, HandlerFinishes
<1> QED BY <1>4, <1>5, <1>6, <1>7, <1>8, <1>9, <1>10, <1>11 DEF Good, Sound

(* The handler comes late, which it does not with a refused request. *)
LEMMA HandlerLateKeeps ==
  ASSUME ExchangeTypeOK, NEW e \in Exchange, Good(e), HandlerFinishes(e), tap[e].done
  PROVE  Sound(e)
<1>1. /\ pc[e].handler = "finish" /\ pc'[e].transport = pc[e].transport /\ pc'[e].handler = AfterClose(e)
      /\ tap' = tap /\ state' = state /\ truth' = truth /\ post' = post /\ reply' = reply /\ out' = out
  BY DEF ExchangeTypeOK, Posts, Taps, States, Places, Replies, Truths, Part, HandlerFinishes, Goes,
     MayFinish
<1>2. Unwritten(e)
  BY Quiet DEF HandlerFinishes
<1>3. ShownStays(e)
  BY <1>1, <1>2 DEF ShownStays, Good, Unwritten, ShownOf, InCopy, Told, Waiting, Sending, Handling, Message,
     Settling, AnswerFrame, NoFrame, Observed, AfterClose
<1>4. Reading(e)' /\ Delivering(e)' /\ Whole(e)' /\ Refusing(e)'
  BY <1>1, <1>2, <1>3, EntryTypes DEF Good, Unwritten, ShownStays, Sending, Handling, Reading, Read,
     Delivering, Writing, Closed, Whole, Holds, Refusing, Message, Observed, AfterClose
<1>5. Distinct(e)' /\ Waiting(e)' /\ Single(e)' /\ Ending(e)'
  BY <1>1, <1>2, <1>3, EntryTypes DEF Good, Unwritten, ShownStays, Sending, Handling, Distinct, Waiting,
     Settling, AnswerFrame, BodyFrame, Message, NoFrame, Single, InCopy, Told, Ending, HasSettled, Observed,
     AfterClose
<1>6. Others(e)
  BY DEF ExchangeTypeOK, Others, HandlerFinishes, Goes, MayFinish
<1>7. Fills(e)
  BY <1>1 DEF Good, Fills, Waiting, Sending, Handling, Part, NoFrame
<1>8. ExchangeTypeOK'
  <2>1. pc' \in [Exchange -> Places]
    <3>1. Goes(e, "handler", AfterClose(e)) /\ AfterClose(e) \in AtHandle
      BY DEF HandlerFinishes, MayFinish, AtSend, AtHandle, AfterClose
    <3> QED BY <3>1, GoesType, Zenon DEF ExchangeTypeOK
  <2> QED BY <2>1, <1>1, <1>6 DEF ExchangeTypeOK, HandlerFinishes
<1> QED BY <1>4, <1>5, <1>6, <1>7, <1>8 DEF Good, Sound

(* A message goes from the copy on its way to the emitter. *)
LEMMA HandlerDeliversKeeps ==
  ASSUME ExchangeTypeOK, NEW e \in Exchange, Good(e), HandlerDelivers(e)
  PROVE  Sound(e)
<1>1. /\ pc[e].handler = "deliver" /\ tap[e].seen # <<>>
      /\ pc'[e].transport = pc[e].transport /\ pc'[e].handler = "emit" /\ tap'[e].started = tap[e].started
      /\ tap'[e].ended = tap[e].ended /\ tap'[e].done = tap[e].done /\ tap'[e].kept = tap[e].kept
      /\ tap'[e].cut = tap[e].cut /\ tap'[e].held = tap[e].held /\ tap'[e].seen = Tail(tap[e].seen)
      /\ state'[e].request = (state[e].request \/ Head(tap[e].seen) = "request")
      /\ state'[e].answered = state[e].answered /\ state'[e].cutShort = state[e].cutShort /\ truth' = truth
      /\ post' = post /\ reply' = reply
      /\ out'[e]["transport"] = out[e]["transport"] /\ out'[e]["handler"] = Head(tap[e].seen)
  BY DEF ExchangeTypeOK, Posts, Taps, States, Places, Replies, Truths, Part, HandlerDelivers, Goes, Emits,
     MarksBeforeEmit
<1>2. Unwritten(e)
  BY Quiet DEF HandlerDelivers
<1>a. /\ \A f : InCopy(e, f) <=> f = Head(tap[e].seen) \/ InCopy(e, f)'
      /\ \A i, j \in DOMAIN tap'[e].seen : tap'[e].seen[i] = tap'[e].seen[j] => i = j
      /\ \A f : f = Head(tap[e].seen) => ~InCopy(e, f)'
      /\ Head(tap[e].seen) \in BodyFrame
  <2>1. /\ tap[e].seen \in Seq(BodyFrame) /\ tap[e].seen # <<>>
        /\ \A i, j \in DOMAIN tap[e].seen : tap[e].seen[i] = tap[e].seen[j] => i = j
    BY <1>1, EntryTypes DEF Good, Single
  <2>2. /\ Head(tap[e].seen) \in BodyFrame
        /\ \A f : f \in ToSet(tap[e].seen) <=> f = Head(tap[e].seen) \/ f \in ToSet(Tail(tap[e].seen))
        /\ \A i, j \in DOMAIN Tail(tap[e].seen) : Tail(tap[e].seen)[i] = Tail(tap[e].seen)[j] => i = j
        /\ Head(tap[e].seen) \notin ToSet(Tail(tap[e].seen))
    BY <2>1, HeadAndTail
  <2>3. tap'[e].seen = Tail(tap[e].seen)
    BY <1>1
  <2> QED BY <2>2, <2>3 DEF InCopy
<1>3. ShownStays(e)
  BY <1>1, <1>2, <1>a DEF Unwritten, ShownStays, Good, ShownOf, Told, Waiting, Sending, Handling, Message,
     Settling, AnswerFrame, NoFrame
<1>4. Single(e)'
  BY <1>1, <1>2, <1>a DEF Unwritten, Good, Single, Told, Waiting, Sending, Handling, Message, NoFrame,
     Settling, AnswerFrame
<1>5. Ending(e)'
  BY <1>1, <1>2, <1>a DEF Unwritten, Good, Ending, HasSettled, Settling, AnswerFrame, BodyFrame, Message,
     NoFrame, Waiting, Handling
<1>6. Reading(e)' /\ Delivering(e)' /\ Whole(e)' /\ Refusing(e)'
  BY <1>1, <1>2, <1>3, EntryTypes DEF Good, Unwritten, ShownStays, Sending, Handling, Reading, Read,
     Delivering, Writing, Closed, Whole, Holds, Refusing, Message
<1>7. Distinct(e)' /\ Waiting(e)'
  BY <1>1, <1>2, <1>3, EntryTypes DEF Good, Unwritten, ShownStays, Sending, Handling, Distinct, Waiting,
     Settling, AnswerFrame, BodyFrame, Message, NoFrame
<1>8. Others(e)
  BY DEF ExchangeTypeOK, Others, HandlerDelivers, Goes, Emits, MarksBeforeEmit
<1>9. Fills(e)
  BY <1>1 DEF Good, Fills, Waiting, Sending, Handling, Part, NoFrame
<1>10. ExchangeTypeOK'
  <2>1. pc' \in [Exchange -> Places]
    <3>1. Goes(e, "handler", "emit") /\ "emit" \in AtHandle
      BY DEF HandlerDelivers, Emits, MarksBeforeEmit, AtSend, AtHandle
    <3> QED BY <3>1, GoesType, Zenon DEF ExchangeTypeOK
  <2>2. out' \in [Exchange -> [Part -> AnyFrame \cup {NoFrame}]]
    BY EmitsType, EntryTypes DEF ExchangeTypeOK, HandlerDelivers, Goes, MarksBeforeEmit, Part, AnyFrame,
       AnswerFrame, BodyFrame
  <2>3. tap' \in [Exchange -> Taps]
    <3>1. /\ tap \in [Exchange -> Taps]
          /\ tap' = [tap EXCEPT ![e].seen = Tail(tap[e].seen)]
      BY DEF HandlerDelivers, Goes, Emits, MarksBeforeEmit, ExchangeTypeOK, Taps
    <3>2. Tail(tap[e].seen) \in Seq(BodyFrame)
      BY EntryTypes, HeadAndTail, <1>1 DEF Good, Single
    <3> QED BY <3>1, <3>2, TapType, Zenon
  <2>4. state' \in [Exchange -> States]
    <3>1. /\ state \in [Exchange -> States]
          /\ state' = [state EXCEPT ![e].request = state[e].request \/ Head(tap[e].seen) = "request"]
      BY DEF HandlerDelivers, Goes, Emits, MarksBeforeEmit, ExchangeTypeOK, States
    <3>2. (state[e].request \/ Head(tap[e].seen) = "request") \in BOOLEAN
      OBVIOUS
    <3> QED BY <3>1, <3>2, StateType, Zenon
  <2> QED BY <2>1, <2>2, <2>3, <2>4, <1>1, <1>8 DEF ExchangeTypeOK, HandlerDelivers
<1> QED BY <1>4, <1>5, <1>6, <1>7, <1>8, <1>9, <1>10 DEF Good, Sound

(* The frame was written, the next follows. *)
LEMMA HandlerEmittedKeeps ==
  ASSUME ExchangeTypeOK, NEW e \in Exchange, Good(e), HandlerEmitted(e)
  PROVE  Sound(e)
<1>1. /\ pc[e].handler = "emit" /\ out[e]["handler"] = NoFrame
      /\ pc'[e].transport = pc[e].transport /\ pc'[e].handler = "deliver" /\ tap' = tap /\ state' = state
      /\ truth' = truth /\ post' = post /\ reply' = reply /\ out' = out
  BY DEF ExchangeTypeOK, Posts, Taps, States, Places, Replies, Truths, Part, HandlerEmitted, Goes, Idle
<1>2. Unwritten(e)
  BY Quiet DEF HandlerEmitted
<1>3. ShownStays(e)
  BY <1>1, <1>2 DEF ShownStays, Good, Unwritten, ShownOf, InCopy, Told, Waiting, Sending, Handling, Message,
     Settling, AnswerFrame, NoFrame
<1>4. Reading(e)' /\ Delivering(e)' /\ Whole(e)' /\ Refusing(e)'
  BY <1>1, <1>2, <1>3, EntryTypes DEF Good, Unwritten, ShownStays, Sending, Handling, Reading, Read,
     Delivering, Writing, Closed, Whole, Holds, Refusing, Message
<1>5. Distinct(e)' /\ Waiting(e)' /\ Single(e)' /\ Ending(e)'
  BY <1>1, <1>2, <1>3, EntryTypes DEF Good, Unwritten, ShownStays, Sending, Handling, Distinct, Waiting,
     Settling, AnswerFrame, BodyFrame, Message, NoFrame, Single, InCopy, Told, Ending, HasSettled
<1>6. Others(e)
  BY DEF ExchangeTypeOK, Others, HandlerEmitted, Goes
<1>7. Fills(e)
  BY <1>1 DEF Good, Fills, Waiting, Sending, Handling, Part, NoFrame
<1>8. ExchangeTypeOK'
  <2>1. pc' \in [Exchange -> Places]
    <3>1. Goes(e, "handler", "deliver") /\ "deliver" \in AtHandle
      BY DEF HandlerEmitted, AtSend, AtHandle
    <3> QED BY <3>1, GoesType, Zenon DEF ExchangeTypeOK
  <2> QED BY <2>1, <1>1, <1>6 DEF ExchangeTypeOK, HandlerEmitted
<1> QED BY <1>4, <1>5, <1>6, <1>7, <1>8 DEF Good, Sound

(* The copy is delivered: a refused request shows, and is then told. *)
LEMMA HandlerDeliveredKeeps ==
  ASSUME ExchangeTypeOK, NEW e \in Exchange, Good(e), HandlerDelivered(e)
  PROVE  Sound(e)
<1>1. /\ pc[e].handler = "deliver" /\ tap[e].seen = <<>>
      /\ pc'[e].transport = pc[e].transport /\ pc'[e].handler = AfterClose(e) /\ tap' = tap
      /\ state' = state /\ truth' = truth /\ post' = post /\ reply' = reply /\ out' = out
  BY DEF ExchangeTypeOK, Posts, Taps, States, Places, Replies, Truths, Part, HandlerDelivered, Goes
<1>2. Unwritten(e)
  BY Quiet DEF HandlerDelivered
<1>3. ShownStays(e)
  BY <1>1, <1>2 DEF ShownStays, Good, Unwritten, ShownOf, InCopy, Told, Waiting, Sending, Handling, Message,
     Settling, AnswerFrame, NoFrame, AfterClose
<1>4. Reading(e)' /\ Delivering(e)' /\ Whole(e)' /\ Refusing(e)'
  BY <1>1, <1>2, <1>3, EntryTypes DEF Good, Unwritten, ShownStays, Sending, Handling, Reading, Read,
     Delivering, Writing, Closed, Whole, Holds, Refusing, Message, AfterClose
<1>5. Distinct(e)' /\ Waiting(e)' /\ Single(e)' /\ Ending(e)'
  BY <1>1, <1>2, <1>3, EntryTypes DEF Good, Unwritten, ShownStays, Sending, Handling, Distinct, Waiting,
     Settling, AnswerFrame, BodyFrame, Message, NoFrame, Single, InCopy, Told, Ending, HasSettled, AfterClose
<1>6. Others(e)
  BY DEF ExchangeTypeOK, Others, HandlerDelivered, Goes
<1>7. Fills(e)
  BY <1>1 DEF Good, Fills, Waiting, Sending, Handling, Part, NoFrame
<1>8. ExchangeTypeOK'
  <2>1. pc' \in [Exchange -> Places]
    <3>1. Goes(e, "handler", AfterClose(e)) /\ AfterClose(e) \in AtHandle
      BY DEF HandlerDelivered, AtSend, AtHandle, AfterClose
    <3> QED BY <3>1, GoesType, Zenon DEF ExchangeTypeOK
  <2> QED BY <2>1, <1>1, <1>6 DEF ExchangeTypeOK, HandlerDelivered
<1> QED BY <1>4, <1>5, <1>6, <1>7, <1>8 DEF Good, Sound

(* The mark that the client left is written of an exchange that nobody answered. *)
LEMMA ChecksKeeps ==
  ASSUME ExchangeTypeOK, NEW e \in Exchange, Good(e), Checks(e)
  PROVE  Sound(e)
<1>1. /\ pc[e].handler = "check" /\ pc'[e].transport = pc[e].transport /\ pc'[e].handler = "bye"
      /\ tap' = tap /\ state' = state /\ truth'[e].forwarded = truth[e].forwarded
      /\ truth'[e].drained = truth[e].drained /\ truth'[e].before = truth[e].before
      /\ truth'[e].died = truth[e].died
      /\ truth'[e].checked = (state[e].request /\ (post[e].gone \/ truth[e].died)) /\ post' = post
      /\ reply' = reply
      /\ out'[e]["transport"] = out[e]["transport"]
      /\ out'[e]["handler"] = (IF Abandoned(e) THEN "abandoned" ELSE NoFrame)
  BY DEF ExchangeTypeOK, Posts, Taps, States, Places, Replies, Truths, Part, Checks, Goes, Emits
<1>2. Unwritten(e)
  BY Quiet DEF Checks
<1>3. ShownStays(e)
  BY <1>1, <1>2 DEF ShownStays, Good, Unwritten, ShownOf, InCopy, Told, Waiting, Sending, Handling, Message,
     Settling, AnswerFrame, NoFrame, Abandoned
<1>4. Reading(e)' /\ Delivering(e)' /\ Whole(e)' /\ Refusing(e)'
  BY <1>1, <1>2, <1>3, EntryTypes DEF Good, Unwritten, ShownStays, Sending, Handling, Reading, Read,
     Delivering, Writing, Closed, Whole, Holds, Refusing, Message, Abandoned
<1>5. Distinct(e)' /\ Waiting(e)' /\ Single(e)' /\ Ending(e)'
  BY <1>1, <1>2, <1>3, EntryTypes DEF Good, Unwritten, ShownStays, Sending, Handling, Distinct, Waiting,
     Settling, AnswerFrame, BodyFrame, Message, NoFrame, Single, InCopy, Told, Ending, HasSettled, Abandoned
<1>6. Others(e)
  BY DEF ExchangeTypeOK, Others, Checks, Goes, Emits
<1>7. Fills(e)
  BY <1>1 DEF Good, Fills, Waiting, Sending, Handling, Part, NoFrame
<1>8. ExchangeTypeOK'
  <2>1. pc' \in [Exchange -> Places]
    <3>1. Goes(e, "handler", "bye") /\ "bye" \in AtHandle
      BY DEF Checks, Emits, AtSend, AtHandle
    <3> QED BY <3>1, GoesType, Zenon DEF ExchangeTypeOK
  <2>2. out' \in [Exchange -> [Part -> AnyFrame \cup {NoFrame}]]
    BY EmitsType, EntryTypes DEF ExchangeTypeOK, Checks, Goes, Part, AnyFrame, AnswerFrame, BodyFrame,
       Abandoned
  <2>3. truth' \in [Exchange -> Truths]
    <3>1. /\ truth \in [Exchange -> Truths]
          /\ truth' = [truth EXCEPT ![e].checked = state[e].request /\ (post[e].gone \/ truth[e].died)]
      BY DEF Checks, Goes, Emits, ExchangeTypeOK, Truths
    <3>2. (state[e].request /\ (post[e].gone \/ truth[e].died)) \in BOOLEAN
      OBVIOUS
    <3> QED BY <3>1, <3>2, TruthType, Zenon
  <2> QED BY <2>1, <2>2, <2>3, <1>1, <1>6 DEF ExchangeTypeOK, Checks
<1> QED BY <1>4, <1>5, <1>6, <1>7, <1>8 DEF Good, Sound

(* The mark was written, or was not due. *)
LEMMA ReturnsKeeps ==
  ASSUME ExchangeTypeOK, NEW e \in Exchange, Good(e), Returns(e)
  PROVE  Sound(e)
<1>1. /\ pc[e].handler = "bye" /\ out[e]["handler"] = NoFrame
      /\ pc'[e].transport = pc[e].transport /\ pc'[e].handler = "end" /\ tap' = tap /\ state' = state
      /\ truth' = truth /\ post' = post /\ reply' = reply /\ out' = out
  BY DEF ExchangeTypeOK, Posts, Taps, States, Places, Replies, Truths, Part, Returns, Goes, Idle
<1>2. Unwritten(e)
  BY Quiet DEF Returns
<1>3. ShownStays(e)
  BY <1>1, <1>2 DEF ShownStays, Good, Unwritten, ShownOf, InCopy, Told, Waiting, Sending, Handling, Message,
     Settling, AnswerFrame, NoFrame
<1>4. Reading(e)' /\ Delivering(e)' /\ Whole(e)' /\ Refusing(e)'
  BY <1>1, <1>2, <1>3, EntryTypes DEF Good, Unwritten, ShownStays, Sending, Handling, Reading, Read,
     Delivering, Writing, Closed, Whole, Holds, Refusing, Message
<1>5. Distinct(e)' /\ Waiting(e)' /\ Single(e)' /\ Ending(e)'
  BY <1>1, <1>2, <1>3, EntryTypes DEF Good, Unwritten, ShownStays, Sending, Handling, Distinct, Waiting,
     Settling, AnswerFrame, BodyFrame, Message, NoFrame, Single, InCopy, Told, Ending, HasSettled
<1>6. Others(e)
  BY DEF ExchangeTypeOK, Others, Returns, Goes
<1>7. Fills(e)
  BY <1>1 DEF Good, Fills, Waiting, Sending, Handling, Part, NoFrame
<1>8. ExchangeTypeOK'
  <2>1. pc' \in [Exchange -> Places]
    <3>1. Goes(e, "handler", "end") /\ "end" \in AtHandle
      BY DEF Returns, AtSend, AtHandle
    <3> QED BY <3>1, GoesType, Zenon DEF ExchangeTypeOK
  <2> QED BY <2>1, <1>1, <1>6 DEF ExchangeTypeOK, Returns
<1> QED BY <1>4, <1>5, <1>6, <1>7, <1>8 DEF Good, Sound

-----------------------------------------------------------------------------
(* An exchange whose state is left alone stays good as long as nothing of its own is written. *)
LEMMA RestGood ==
  ASSUME NEW d \in Exchange, Good(d),
         post'[d] = post[d], tap'[d] = tap[d], state'[d] = state[d], pc'[d] = pc[d],
         reply'[d] = reply[d], out'[d] = out[d], truth'[d] = truth[d],
         \A f \in AnyFrame : Logged(d, f)' <=> Logged(d, f),
         \A f \in AnyFrame : Once(d, f) => Once(d, f)'
  PROVE  Good(d)'
<1>1. /\ Message \subseteq AnyFrame /\ Settling \subseteq AnyFrame
      /\ {"abandoned", "undelivered", "answer", "failed"} \subseteq AnyFrame
  BY DEF AnyFrame, BodyFrame, AnswerFrame, Settling
<1>2. \A f \in Message : ShownOf(d, f)' <=> ShownOf(d, f)
  BY <1>1 DEF ShownOf, InCopy, Told
<1>3. Distinct(d)' /\ Reading(d)' /\ Delivering(d)' /\ Waiting(d)'
  BY <1>2 DEF Good, Distinct, Reading, Delivering, Waiting, Read, Sending, Handling
<1>4. Single(d)' /\ Whole(d)'
  BY <1>1, <1>2 DEF Good, Single, Whole, InCopy, Told, Holds
<1>5. Refusing(d)'
  BY <1>1, <1>2 DEF Good, Refusing, Holds, Read, Sending, Handling, Message
<1>6. Ending(d)'
  BY <1>1 DEF Good, Ending, HasSettled, Handling
<1> QED BY <1>3, <1>4, <1>5, <1>6 DEF Good

(* A step of one exchange that writes nothing leaves the sink and the emitter in order. *)
LEMMA StepKeeps ==
  ASSUME HttpInv, NEW e \in Exchange, Good(e)', Others(e), Fills(e), ExchangeTypeOK'
  PROVE  HttpInv'
<1>1. \A d \in Exchange : Good(d)'
  <2>1. SUFFICES ASSUME NEW d \in Exchange, d # e PROVE Good(d)'
    BY DEF Others
  <2>2. Unwritten(d)
    BY Quiet DEF Others
  <2> QED BY <2>1, <2>2, RestGood DEF Unwritten, Others, HttpInv
<1>2. Turns'
  <2>1. \A d \in Exchange, p \in Part : out[d][p] # NoFrame => out'[d][p] = out[d][p]
    BY DEF Others, Fills
  <2>2. log' = log /\ seq' = seq /\ seqMu' = seqMu
    BY DEF Others
  <2> QED BY <2>1, <2>2 DEF Turns, HttpInv, ExchangeInOrder
<1>3. RefusedIsSeen'
  <2>1. \A d \in Exchange : /\ post'[d].size = post[d].size /\ post'[d].holds = post[d].holds
                           /\ (post[d].gone => post'[d].gone)
    BY DEF Others, Fills
  <2>2. log' = log
    BY DEF Others
  <2> QED BY <2>1, <2>2 DEF RefusedIsSeen, HttpInv, Holds
<1> QED BY <1>1, <1>2, <1>3 DEF HttpInv

(* Neither does a step of something else. *)
LEMMA StutterKeeps ==
  ASSUME HttpInv, UNCHANGED exchangeVars
  PROVE  HttpInv'
<1>1. ExchangeTypeOK' /\ Turns' /\ RefusedIsSeen'
  BY DEF exchangeVars, HttpInv, ExchangeTypeOK, Turns, RefusedIsSeen, ExchangeInOrder, Holds
<1>2. \A d \in Exchange : Good(d)'
  <2>1. TAKE d \in Exchange
  <2>2. Unwritten(d)
    BY Quiet DEF exchangeVars
  <2> QED BY <2>2, RestGood DEF Unwritten, exchangeVars, HttpInv
<1> QED BY <1>1, <1>2 DEF HttpInv

(* A goroutine takes the emitter and the next number, or the first two. *)
LEMMA TakesKeeps ==
  ASSUME HttpInv, NEW e \in Exchange, NEW p \in Part, EmitTakes(e, p)
  PROVE  HttpInv'
<1>1. /\ seq \in Nat /\ seqMu.of = <<>> /\ seq = Len(log) /\ (seq = 0 \/ seq >= 2) /\ out[e][p] # NoFrame
  BY DEF HttpInv, Turns, ExchangeTypeOK, EmitTakes, EmitterFree, Free, Idle
<1>2. /\ seq' = (IF seq = 0 THEN 2 ELSE seq + 1) /\ seqMu'.of = <<e, p>> /\ seqMu'.number = seq'
      /\ seqMu' = [of |-> <<e, p>>, number |-> seq'] /\ log' = log /\ out' = out
  BY <1>1 DEF EmitTakes
<1>3. ExchangeTypeOK'
  <2>1. seq' \in Nat
    BY <1>1, <1>2
  <2>2. seqMu' \in [of : {<<>>} \cup (Exchange \X Part), number : Nat]
    BY <1>2, <2>1
  <2> QED BY <2>1, <2>2 DEF HttpInv, ExchangeTypeOK, EmitTakes
<1>4. Turns'
  <2>1. seqMu'.of # <<>> /\ \A d \in Exchange, q \in Part : seqMu'.of = <<d, q>> => d = e /\ q = p
    BY <1>2
  <2>2. IF seq' = 2 THEN log' = <<>> ELSE Len(log') = seq' - 1
    <3>1. CASE seq = 0
      <4>1. Len(log) = 0 /\ log \in Seq(Lines)
        BY <1>1, <3>1 DEF HttpInv, ExchangeTypeOK
      <4> QED BY <1>2, <3>1, <4>1
    <3>2. CASE seq # 0
      BY <1>1, <1>2, <3>2
    <3> QED BY <3>1, <3>2
  <2>3. seq' = 0 \/ seq' >= 2
    BY <1>1, <1>2
  <2>4. ExchangeInOrder'
    BY <1>2 DEF HttpInv, Turns, ExchangeInOrder
  <2> QED BY <1>1, <1>2, <2>1, <2>2, <2>3, <2>4 DEF Turns
<1>5. RefusedIsSeen'
  BY <1>2 DEF HttpInv, RefusedIsSeen, EmitTakes, Holds
<1>6. \A d \in Exchange : Good(d)'
  <2>1. TAKE d \in Exchange
  <2>2. Unwritten(d)
    BY <1>2, Quiet
  <2> QED BY <2>2, RestGood DEF Unwritten, EmitTakes, HttpInv
<1> QED BY <1>3, <1>4, <1>5, <1>6 DEF HttpInv

(* Two lines written to an empty sink are the sink. *)
LEMMA TwoLines ==
  ASSUME NEW S, NEW s \in Seq(S), Len(s) = 0, NEW a \in S, NEW b \in S
  PROVE  LET t == Append(Append(s, a), b) IN t \in Seq(S) /\ Len(t) = 2 /\ t[1] = a /\ t[2] = b
<1>1. Append(s, a) \in Seq(S) /\ Len(Append(s, a)) = 1 /\ Append(s, a)[1] = a
  OBVIOUS
<1> QED BY <1>1

(* The sink after a frame is handed over: the line is its last, and the meta line came before it. *)
LEMMA SinkGrows ==
  ASSUME HttpInv, NEW e \in Exchange, NEW p \in Part, EmitHands(e, p)
  PROVE  /\ out[e][p] \in AnyFrame
         /\ log' \in Seq(Lines) /\ Len(log') = seq /\ DOMAIN log' = 1 .. seq /\ seq \in Nat \ {0}
         /\ DOMAIN log \subseteq 1 .. seq - 1
         /\ log'[seq] = [seq |-> seq, ex |-> e, frame |-> out[e][p]]
         /\ \A i \in 1 .. seq - 1 : IF i \in DOMAIN log THEN log'[i] = log[i]
                                    ELSE log'[i].seq = i /\ log'[i].frame = "meta"
<1>1. /\ seqMu.of = <<e, p>> /\ seqMu.of # <<>>
      /\ log' = Append(MetaFirst(e), [seq |-> seqMu.number, ex |-> e, frame |-> out[e][p]])
  BY DEF EmitHands
<1>2. /\ seqMu.number = seq /\ (IF seq = 2 THEN log = <<>> ELSE Len(log) = seq - 1) /\ (seq = 0 \/ seq >= 2)
      /\ out[e][p] # NoFrame /\ out[e][p] \in AnyFrame /\ seq \in Nat /\ log \in Seq(Lines)
  <2>1. out[e][p] # NoFrame /\ out[e][p] \in AnyFrame \cup {NoFrame}
    BY <1>1 DEF HttpInv, Turns, ExchangeTypeOK
  <2> QED BY <1>1, <2>1 DEF HttpInv, Turns, ExchangeTypeOK
<1>3. seq # 0
  <2>1. Len(log) \in Nat
    BY <1>2
  <2> QED BY <1>2, <2>1
<1> DEFINE line == [seq |-> seq, ex |-> e, frame |-> out[e][p]]
           meta == [seq |-> 1, ex |-> e, frame |-> "meta"]
<1>4. line \in Lines /\ meta \in Lines
  BY <1>2 DEF Lines
<1>5. CASE seq = 2
  <2>1. log' = Append(Append(log, meta), line) /\ Len(log) = 0 /\ log \in Seq(Lines)
    BY <1>1, <1>2, <1>5 DEF MetaFirst
  <2>3. log' \in Seq(Lines) /\ Len(log') = 2 /\ log'[2] = line /\ log'[1] = meta
    <3> HIDE DEF line, meta
    <3> QED BY <2>1, <1>4, TwoLines
  <2>4. DOMAIN log = {} /\ Len(log) = 0
    BY <1>2, <1>5
  <2>5. 1 .. seq - 1 = {1}
    BY <1>5
  <2> QED BY <1>2, <1>5, <2>3, <2>4, <2>5
<1>6. CASE seq # 2
  <2>1. log' = Append(log, line)
    BY <1>1, <1>2, <1>6 DEF MetaFirst
  <2>2. Len(log) = seq - 1 /\ DOMAIN log = 1 .. seq - 1
    BY <1>2, <1>6
  <2>3. log' \in Seq(Lines) /\ Len(log') = seq /\ log'[seq] = line /\ \A i \in 1 .. seq - 1 : log'[i] = log[i]
    BY <1>2, <1>4, <2>1, <2>2
  <2> QED BY <1>2, <1>3, <2>2, <2>3
<1> QED BY <1>5, <1>6

(* The frame is then in the sink, and nothing else is that was not. *)
LEMMA LogGrows ==
  ASSUME HttpInv, NEW e \in Exchange, NEW p \in Part, EmitHands(e, p), NEW d \in Exchange, NEW f \in AnyFrame
  PROVE  /\ Logged(d, f)' <=> Logged(d, f) \/ (d = e /\ f = out[e][p])
         /\ Once(d, f) /\ (d = e /\ f = out[e][p] => ~Logged(d, f)) => Once(d, f)'
<1> DEFINE n == seq
<1>1. /\ DOMAIN log' = 1 .. n /\ n \in Nat \ {0} /\ DOMAIN log \subseteq 1 .. n - 1
      /\ log'[n] = [seq |-> seq, ex |-> e, frame |-> out[e][p]]
      /\ \A i \in 1 .. n - 1 : IF i \in DOMAIN log THEN log'[i] = log[i]
                                 ELSE log'[i].seq = i /\ log'[i].frame = "meta"
  BY SinkGrows
<1>9. /\ log'[n].ex = e /\ log'[n].frame = out[e][p]
      /\ \A i \in 1 .. n - 1 : IF i \in DOMAIN log THEN log'[i] = log[i] ELSE log'[i].frame = "meta"
  BY <1>1
<1>2. f # "meta"
  BY DEF AnyFrame, BodyFrame, AnswerFrame, Message
<1>3. \A i \in 1 .. n : i = n \/ i \in 1 .. n - 1
  BY <1>1
<1>4. n \in 1 .. n /\ 1 .. n - 1 \subseteq 1 .. n /\ n \notin 1 .. n - 1
  BY <1>1
<1> HIDE DEF n
<1>5. \A i \in DOMAIN log' : log'[i].ex = d /\ log'[i].frame = f =>
        (i = n /\ d = e /\ f = out[e][p]) \/ (i \in DOMAIN log /\ log[i].ex = d /\ log[i].frame = f)
  BY <1>1, <1>9, <1>2, <1>3
<1>6. \A i \in DOMAIN log : i \in DOMAIN log' /\ log'[i] = log[i]
  BY <1>1, <1>4
<1>7. Logged(d, f)' <=> Logged(d, f) \/ (d = e /\ f = out[e][p])
  <2>1. ASSUME Logged(d, f)' PROVE Logged(d, f) \/ (d = e /\ f = out[e][p])
    BY <2>1, <1>5 DEF Logged
  <2>2. ASSUME Logged(d, f) PROVE Logged(d, f)'
    BY <2>2, <1>6 DEF Logged
  <2>3. ASSUME d = e, f = out[e][p] PROVE Logged(d, f)'
    BY <2>3, <1>1, <1>9, <1>4 DEF Logged
  <2> QED BY <2>1, <2>2, <2>3
<1>8. ASSUME Once(d, f), d = e /\ f = out[e][p] => ~Logged(d, f)
      PROVE  Once(d, f)'
  <2>1. ASSUME NEW i \in DOMAIN log', NEW j \in DOMAIN log',
               log'[i].ex = d, log'[j].ex = d, log'[i].frame = f, log'[j].frame = f
        PROVE  i = j
    <3>1. CASE Logged(d, f)
      BY <1>8, <2>1, <3>1, <1>5 DEF Once
    <3>2. CASE ~Logged(d, f)
      BY <2>1, <3>2, <1>5 DEF Logged
    <3> QED BY <3>1, <3>2
  <2> QED BY <2>1 DEF Once
<1> QED BY <1>7, <1>8

(* The frame moves from its goroutine to the sink: a message that was on its way is logged, and a
   refusal finds its request logged before it. *)
LEMMA HandsKeeps ==
  ASSUME HttpInv, NEW e \in Exchange, NEW p \in Part, EmitHands(e, p)
  PROVE  HttpInv'
<1> DEFINE f == out[e][p]
<1>1. /\ f # NoFrame /\ f \in AnyFrame /\ Good(e)
  BY SinkGrows DEF HttpInv, AnyFrame, BodyFrame, AnswerFrame, Message, NoFrame
<1>2. /\ post' = post /\ tap' = tap /\ state' = state /\ pc' = pc /\ reply' = reply /\ truth' = truth /\ seq' = seq
      /\ seqMu' = Free /\ Emits(e, p, NoFrame)
  BY DEF EmitHands
<1>3. /\ out'[e][p] = NoFrame /\ \A q \in Part \ {p} : out'[e][q] = out[e][q]
      /\ \A d \in Exchange \ {e} : out'[d] = out[d]
  BY <1>2 DEF HttpInv, ExchangeTypeOK, Emits
<1>4. /\ \A d \in Exchange, g \in AnyFrame : Logged(d, g)' <=> Logged(d, g) \/ (d = e /\ g = f)
      /\ \A d \in Exchange, g \in AnyFrame : Once(d, g) /\ (d = e /\ g = f => ~Logged(d, g)) => Once(d, g)'
  BY LogGrows
<1>5. /\ Message \subseteq AnyFrame /\ Settling \subseteq AnyFrame
      /\ {"abandoned", "undelivered", "answer", "failed"} \subseteq AnyFrame
  BY DEF AnyFrame, BodyFrame, AnswerFrame, Settling
<1>s. /\ log' \in Seq(Lines) /\ Len(log') = seq /\ DOMAIN log' = 1 .. seq
      /\ seq \in Nat \ {0} /\ DOMAIN log \subseteq 1 .. seq - 1
      /\ log'[seq] = [seq |-> seq, ex |-> e, frame |-> f]
      /\ \A i \in 1 .. seq - 1 : IF i \in DOMAIN log THEN log'[i] = log[i]
                                 ELSE log'[i].seq = i /\ log'[i].frame = "meta"
  BY SinkGrows
<1> HIDE DEF f
<1>6. ExchangeTypeOK'
  <2>1. out' \in [Exchange -> [Part -> AnyFrame \cup {NoFrame}]]
    BY <1>2, EmitsType DEF HttpInv, ExchangeTypeOK
  <2>2. seqMu' \in [of : {<<>>} \cup (Exchange \X Part), number : Nat]
    BY <1>2 DEF Free
  <2> QED BY <1>2, <2>1, <2>2, <1>s DEF HttpInv, ExchangeTypeOK
<1>7. Turns'
  <2>1. seqMu'.of = <<>> /\ \A d \in Exchange, q \in Part : seqMu'.of # <<d, q>>
    BY <1>2 DEF Free
  <2>2. ExchangeInOrder'
    <3>1. SUFFICES ASSUME NEW i \in 1 .. seq PROVE log'[i].seq = i
      BY <1>s DEF ExchangeInOrder
    <3>2. CASE i = seq
      BY <3>2, <1>s
    <3>3. CASE i # seq
      <4>1. i \in 1 .. seq - 1
        BY <3>3, <1>s
      <4>2. IF i \in DOMAIN log THEN log'[i] = log[i] ELSE log'[i].seq = i
        BY <4>1, <1>s
      <4> QED BY <4>2 DEF HttpInv, Turns, ExchangeInOrder
    <3> QED BY <3>2, <3>3
  <2> QED BY <1>2, <2>1, <2>2, <1>s DEF Turns, HttpInv
<1>8. \A d \in Exchange : d # e => Good(d)'
  <2>1. SUFFICES ASSUME NEW d \in Exchange, d # e PROVE Good(d)'
    OBVIOUS
  <2>2. Good(d) /\ out'[d] = out[d]
    BY <1>3, <2>1 DEF HttpInv
  <2>3. \A g \in AnyFrame : Logged(d, g)' <=> Logged(d, g)
    BY <1>4, <2>1
  <2>4. \A g \in AnyFrame : Once(d, g) => Once(d, g)'
    BY <1>4, <2>1
  <2> QED BY <1>2, <2>2, <2>3, <2>4, RestGood
<1>9. Good(e)'
  <2>1. p = "transport" => /\ Sending(e) = "emit" /\ f \in BodyFrame
                           /\ out'[e]["transport"] = NoFrame /\ out'[e]["handler"] = out[e]["handler"]
    BY <1>1, <1>3 DEF Good, Waiting, Part, f
  <2>2. p = "handler" => /\ out'[e]["handler"] = NoFrame
                         /\ out'[e]["transport"] = out[e]["transport"] /\ out[e]["handler"] = f
    BY <1>3 DEF Part, f
  <2>3. p \in {"transport", "handler"} /\ (p = "transport" => out[e]["transport"] = f)
    BY DEF Part, f
  <2>4. \A g \in Message : /\ g = f => ~Told(e, g)' /\ ~InCopy(e, g) /\ ~Logged(e, g)
                           /\ Told(e, g) <=> Told(e, g)' \/ g = f
    BY <1>1, <2>1, <2>2, <2>3 DEF Good, Single, Told, Waiting, Delivering, Sending, Handling, Writing,
       Message, NoFrame, Settling, AnswerFrame
  <2>5. \A g \in Message : ShownOf(e, g)' <=> ShownOf(e, g)
    BY <1>2, <1>4, <1>5, <2>4 DEF ShownOf, InCopy
  <2>6. f = "abandoned" => p = "handler" /\ ~Logged(e, "abandoned")
    BY <1>1, <2>1, <2>2, <2>3 DEF Good, Ending, BodyFrame, Message
  <2>7. f = "undelivered" => p = "handler" /\ Handling(e) = "reported"
    BY <1>1, <2>1, <2>2, <2>3 DEF Good, Waiting, Settling, BodyFrame, Message
  <2>8. f \in {"answer", "failed", "undelivered"} => p = "handler"
    BY <2>1, <2>3 DEF BodyFrame, Message
  <2>9. Distinct(e)' /\ Reading(e)' /\ Delivering(e)' /\ Waiting(e)'
    BY <1>1, <1>2, <2>1, <2>2, <2>3, <2>5 DEF Good, Distinct, Reading, Delivering, Waiting, Read, Sending, Handling
  <2>10. Single(e)'
    BY <1>1, <1>2, <1>4, <1>5, <2>4 DEF Good, Single, InCopy
  <2>11. Whole(e)'
    BY <1>1, <1>2, <2>5 DEF Good, Whole, Holds
  <2>12. Refusing(e)'
    BY <1>1, <1>2, <1>4, <1>5, <2>5, <2>7 DEF Good, Refusing, Holds, Read, Sending, Handling, Message, Closed
  <2>13. Ending(e)'
    <3>1. HasSettled(e) => HasSettled(e)'
      BY <1>4, <1>5, <2>1, <2>2, <2>3 DEF HasSettled
    <3>2. Once(e, "abandoned")'
      BY <1>1, <1>4, <1>5, <2>6 DEF Good, Ending
    <3>3. \A g \in {"answer", "failed", "undelivered", "abandoned"} :
            Logged(e, g)' \/ out'[e]["handler"] = g => Logged(e, g) \/ out[e]["handler"] = g
      BY <1>4, <1>5, <2>1, <2>2, <2>3, <2>6, <2>8 DEF NoFrame
    <3>4. out'[e]["handler"] = "abandoned" => ~Logged(e, "abandoned")'
      BY <1>1, <1>4, <1>5, <2>1, <2>2, <2>3, <2>6 DEF Good, Ending, NoFrame
    <3>5. Logged(e, "abandoned") \/ out[e]["handler"] = "abandoned"
            => Logged(e, "abandoned")' \/ out'[e]["handler"] = "abandoned"
      BY <1>4, <1>5, <2>1, <2>2, <2>3
    <3> QED BY <1>1, <1>2, <3>1, <3>2, <3>3, <3>4, <3>5 DEF Good, Ending, Handling
  <2> QED BY <2>9, <2>10, <2>11, <2>12, <2>13 DEF Good
<1>10. RefusedIsSeen'
  <2>1. SUFFICES ASSUME NEW d \in Exchange, NEW i \in 1 .. seq, log'[i].ex = d, log'[i].frame = "undelivered",
                        post[d].size \in 1 .. Cap, ~post[d].gone, Holds(d, "request")
                 PROVE  \E j \in 1 .. i : log'[j].ex = d /\ log'[j].frame = "request"
    BY <1>2, <1>s DEF RefusedIsSeen, Holds
  <2>2. CASE i # seq
    <3>1. i \in 1 .. seq - 1
      BY <2>2, <1>s
    <3>2. i \in DOMAIN log /\ log'[i] = log[i]
      BY <2>1, <3>1, <1>s
    <3>3. PICK j \in 1 .. i : log[j].ex = d /\ log[j].frame = "request"
      BY <2>1, <3>2 DEF HttpInv, RefusedIsSeen
    <3>4. j \in DOMAIN log /\ j \in 1 .. seq - 1
      <4>1. DOMAIN log = 1 .. Len(log) /\ Len(log) \in Nat
        BY DEF HttpInv, ExchangeTypeOK
      <4>2. j \in DOMAIN log
        BY <3>1, <3>2, <4>1
      <4> QED BY <4>2, <1>s
    <3>5. log'[j] = log[j]
      BY <3>4, <1>s
    <3> QED BY <3>3, <3>5
  <2>3. CASE i = seq
    <3>1. d = e /\ f = "undelivered"
      BY <2>1, <2>3, <1>s
    <3>2. reply[e].kind = "refused" /\ Handling(e) = "reported" /\ out[e]["handler"] = "undelivered"
      BY <1>1, <3>1 DEF Good, Waiting, Refusing, Part, Settling, BodyFrame, Message, f
    <3>3. Sending(e) = "off" /\ ShownOf(e, "request")
      BY <1>1, <2>1, <3>1, <3>2 DEF Good, Refusing, Closed
    <3>4. tap[e].seen = <<>> /\ out[e]["transport"] = NoFrame
      BY <1>1, <3>2, <3>3 DEF Good, Delivering, Waiting, Writing
    <3>5. Logged(e, "request")
      BY <3>2, <3>3, <3>4 DEF ShownOf, InCopy, Told, NoFrame, ToSet
    <3>6. PICK j \in DOMAIN log : log[j].ex = e /\ log[j].frame = "request"
      BY <3>5 DEF Logged
    <3>7. j \in 1 .. seq - 1 /\ log'[j] = log[j]
      BY <1>s
    <3>8. j \in 1 .. i
      BY <2>3, <3>7, <1>s
    <3> QED BY <3>1, <3>6, <3>7, <3>8
  <2> QED BY <2>2, <2>3
<1> QED BY <1>6, <1>7, <1>8, <1>9, <1>10 DEF HttpInv

(* A run begins with nothing read, taken, written or marked. *)
LEMMA StartsWell == ExchangeInit => HttpInv
<1> SUFFICES ASSUME ExchangeInit PROVE HttpInv
  OBVIOUS
<1>1. ASSUME NEW e \in Exchange
      PROVE  \E b \in Body : post[e] = [size |-> b.size, holds |-> b.holds, eofLate |-> b.eofLate,
                                            sent |-> 0, gone |-> FALSE]
  BY <1>1 DEF ExchangeInit
<1>2. \A e \in Exchange : post[e] \in Posts /\ post[e].sent = 0 /\ post[e].sent <= post[e].size /\ Distinct(e)
  <2>1. TAKE e \in Exchange
  <2>2. PICK b \in Body : post[e] = [size |-> b.size, holds |-> b.holds, eofLate |-> b.eofLate,
                                            sent |-> 0, gone |-> FALSE]
    BY <1>1
  <2>3. /\ b.size \in Nat /\ b.holds \in Seq(Message) /\ b.eofLate \in BOOLEAN
        /\ \A i, j \in DOMAIN b.holds : b.holds[i] = b.holds[j] => i = j
    BY <2>2, HttpExchangeAssumption
  <2> QED BY <2>2, <2>3 DEF Posts, Distinct
<1>3. Cap \in Nat /\ MaxLines \in Nat
  BY HttpExchangeAssumption
<1>4. ExchangeTypeOK
  <2>1. post \in [Exchange -> Posts]
    BY <1>2 DEF ExchangeInit
  <2>2. tap \in [Exchange -> Taps] /\ state \in [Exchange -> States]
    BY <1>3 DEF ExchangeInit, Taps, States
  <2>3. pc \in [Exchange -> Places] /\ truth \in [Exchange -> Truths]
    BY DEF ExchangeInit, Places, Truths, AtSend, AtHandle
  <2>4. reply \in [Exchange -> Replies]
    BY <1>3 DEF ExchangeInit, Replies, ReplyKind, Event, NoEvent
  <2>5. out \in [Exchange -> [Part -> AnyFrame \cup {NoFrame}]]
    BY DEF ExchangeInit, Part
  <2>6. seqMu \in [of : {<<>>} \cup (Exchange \X Part), number : Nat] /\ seq \in Nat /\ log \in Seq(Lines)
    BY DEF ExchangeInit, Free
  <2> QED BY <1>2, <2>1, <2>2, <2>3, <2>4, <2>5, <2>6 DEF ExchangeTypeOK
<1>5. Turns /\ RefusedIsSeen
  BY DEF ExchangeInit, Turns, RefusedIsSeen, ExchangeInOrder, Free
<1>6. \A e \in Exchange : Good(e)
  <2>1. TAKE e \in Exchange
  <2>2. /\ \A f : ~Logged(e, f) /\ Once(e, f)
        /\ out[e]["transport"] = NoFrame /\ out[e]["handler"] = NoFrame /\ tap[e].seen = <<>>
    BY DEF ExchangeInit, Logged, Once
  <2>3. \A f \in Message : ~InCopy(e, f) /\ ~Told(e, f) /\ ~ShownOf(e, f)
    BY <2>2 DEF InCopy, Told, ShownOf, ToSet, Message, NoFrame
  <2>4. Distinct(e) /\ Reading(e)
    BY <1>2, <1>3 DEF Reading, Read, ExchangeInit, Sending, Handling
  <2>5. Delivering(e) /\ Waiting(e) /\ Single(e) /\ Whole(e)
    BY <2>2, <2>3 DEF ExchangeInit, Delivering, Waiting, Single, Whole, Sending, Handling, Writing, Closed
  <2>6. Refusing(e) /\ Ending(e)
    BY <2>2 DEF ExchangeInit, Refusing, Ending, Handling, NoFrame
  <2> QED BY <2>4, <2>5, <2>6 DEF Good
<1> QED BY <1>4, <1>5, <1>6 DEF HttpInv

(* When an exchange is over, nothing of its body is on its way: what shows is in the sink. *)
LEMMA SaysTheCapture == HttpInv => CapturedInOrder
<1> SUFFICES ASSUME HttpInv PROVE ObservedOnce
  BY DEF HttpInv, Turns, CapturedInOrder
<1>1. SUFFICES ASSUME NEW e \in Exchange
               PROVE  /\ \A f \in Message : Once(e, f)
                      /\ ~(pc[e].transport = "read" /\ pc[e].handler = "drain")
                      /\ Over(e) /\ truth[e].before = post[e].size /\ post[e].size \in 1 .. Cap
                           => \A f \in Message : Holds(e, f) => Logged(e, f)
  BY DEF ObservedOnce
<1>2. Good(e)
  BY DEF HttpInv
<1>3. ~(pc[e].transport = "read" /\ pc[e].handler = "drain")
  BY <1>2 DEF Good, Reading, Sending, Handling
<1>4. ASSUME Over(e), truth[e].before = post[e].size, post[e].size \in 1 .. Cap, NEW f \in Message, Holds(e, f)
      PROVE  Logged(e, f)
  <2>1. tap[e].done /\ tap[e].seen = <<>> /\ out[e]["transport"] = NoFrame /\ out[e]["handler"] = NoFrame
    BY <1>2, <1>4 DEF Good, Delivering, Waiting, Over, Sending, Handling, Writing, Closed
  <2>2. ShownOf(e, f)
    BY <1>2, <1>4, <2>1 DEF Good, Whole
  <2> QED BY <2>1, <2>2 DEF ShownOf, InCopy, Told, ToSet, Message, NoFrame
<1> QED BY <1>2, <1>3, <1>4 DEF Good, Single

(* When an exchange is over, what settled it is in the sink. *)
LEMMA SaysTheEnd == HttpInv => EndsOneWay
<1> SUFFICES ASSUME HttpInv, NEW e \in Exchange
             PROVE  /\ ~(Logged(e, "answer") /\ Logged(e, "abandoned"))
                    /\ Once(e, "abandoned")
                    /\ Logged(e, "abandoned") => ~Logged(e, "failed") /\ ~Logged(e, "undelivered")
                    /\ Over(e) /\ truth[e].checked /\ reply[e].kind # "opaque"
                         => \E f \in AnswerFrame \cup {"abandoned", "fragment", "truncated"} : Logged(e, f)
  BY DEF EndsOneWay
<1>1. Good(e)
  BY DEF HttpInv
<1>2. ASSUME Over(e), truth[e].checked, reply[e].kind # "opaque"
      PROVE  \E f \in AnswerFrame \cup {"abandoned", "fragment", "truncated"} : Logged(e, f)
  <2>1. out[e]["handler"] = NoFrame /\ Handling(e) = "end"
    BY <1>1, <1>2 DEF Good, Waiting, Over, Handling
  <2>2. HasSettled(e) \/ Logged(e, "abandoned")
    BY <1>1, <1>2, <2>1 DEF Good, Ending, NoFrame
  <2> QED BY <2>1, <2>2 DEF HasSettled, Settling, AnswerFrame, NoFrame
<1> QED BY <1>1, <1>2 DEF Good, Ending

-----------------------------------------------------------------------------
(* What the client and the target do keeps the exchange good. *)
LEMMA PeersKeep ==
  ASSUME ExchangeTypeOK, NEW e \in Exchange, Good(e), Peers(e)
  PROVE  Sound(e)
<1>1. CASE ClientSends(e) \/ ClientLeaves(e) \/ Connects(e) \/ Fails(e) \/ Refused(e)
  BY <1>1, ClientSendsKeeps, ClientLeavesKeeps, ConnectsKeeps, FailsKeeps, RefusedKeeps
<1>2. CASE TransportStops(e) \/ StreamBlank(e) \/ \E kind \in {"plain", "opaque", "stream"} : TargetAnswers(e, kind)
  BY <1>2, TransportStopsKeeps, StreamBlankKeeps, TargetAnswersKeeps
<1>3. CASE \/ \E answers \in BOOLEAN : StreamLine(e, answers)
           \/ \E how \in {"server", "client", "target"} : StreamEnds(e, how)
  BY <1>3, StreamLineKeeps, StreamEndsKeeps
<1> QED BY <1>1, <1>2, <1>3 DEF Peers

(* So is every action of the transport's goroutine. *)
LEMMA TransportKeeps ==
  ASSUME ExchangeTypeOK, NEW e \in Exchange, Good(e), Transport(e)
  PROVE  Sound(e)
<1>1. CASE TransportReads(e) \/ TransportEnds(e) \/ TransportDelivers(e) \/ TransportEmitted(e) \/ TransportReturns(e)
  BY <1>1, TransportReadsKeeps, TransportEndsKeeps, TransportDeliversKeeps, TransportEmittedKeeps,
     TransportReturnsKeeps
<1>2. CASE TransportGets(e)
  BY <1>2, GetsLastKeeps, GetsMoreKeeps
<1>3. CASE TransportFinishes(e)
  BY <1>3, TransportFirstKeeps, TransportLateKeeps
<1> QED BY <1>1, <1>2, <1>3 DEF Transport

(* And every action of the handler's. *)
LEMMA HandlerKeeps ==
  ASSUME ExchangeTypeOK, NEW e \in Exchange, Good(e), Handler(e)
  PROVE  Sound(e)
<1>1. CASE Cancelled(e) \/ ReportsRefusal(e) \/ RefusalReported(e) \/ \E whole \in BOOLEAN : CopiesPlain(e, whole)
  BY <1>1, CancelledKeeps, ReportsRefusalKeeps, RefusalReportedKeeps, CopiesPlainKeeps
<1>2. CASE ClosesStream(e) \/ CopyOver(e) \/ DrainGets(e) \/ DrainEnds(e)
  BY <1>2, ClosesStreamKeeps, CopyOverKeeps, DrainGetsKeeps, DrainEndsKeeps
<1>3. CASE Closes(e)
  BY <1>3, ClosesUnreadKeeps, ClosesReadKeeps
<1>4. CASE HandlerFinishes(e)
  BY <1>4, HandlerFirstKeeps, HandlerLateKeeps
<1>5. CASE HandlerDelivers(e) \/ HandlerEmitted(e) \/ HandlerDelivered(e) \/ Checks(e) \/ Returns(e)
  BY <1>5, HandlerDeliversKeeps, HandlerEmittedKeeps, HandlerDeliveredKeeps, ChecksKeeps, ReturnsKeeps
<1> QED BY <1>1, <1>2, <1>3, <1>4, <1>5 DEF Handler

(* Every step keeps the invariant. *)
LEMMA StepsKeep ==
  ASSUME HttpInv, [ExchangeNext]_exchangeVars
  PROVE  HttpInv'
<1>1. CASE UNCHANGED exchangeVars
  BY <1>1, StutterKeeps
<1>2. ASSUME NEW e \in Exchange, Peers(e) \/ Transport(e) \/ Handler(e)
      PROVE  HttpInv'
  <2>1. ExchangeTypeOK /\ Good(e)
    BY DEF HttpInv
  <2>2. Sound(e)
    BY <1>2, <2>1, PeersKeep, TransportKeeps, HandlerKeeps
  <2> QED BY <2>2, StepKeeps DEF Sound
<1>3. ASSUME NEW e \in Exchange, Emitter(e)
      PROVE  HttpInv'
  BY <1>3, TakesKeeps, HandsKeeps DEF Emitter
<1> QED BY <1>1, <1>2, <1>3 DEF ExchangeNext

(* The invariant holds of every run. *)
THEOREM ExchangeIsSound == ExchangeSpec => []HttpInv
<1>1. ExchangeInit => HttpInv
  BY StartsWell
<1>2. HttpInv /\ [ExchangeNext]_exchangeVars => HttpInv'
  BY StepsKeep
<1> QED BY <1>1, <1>2, PTL DEF ExchangeSpec

(* A request's body shows in the capture once, whoever of the two goroutines ends it, with every message
   when the target got it whole; frames of concurrent exchanges are numbered as they are written; and a
   request that nobody took is there before its failure (bodyTap, emitter). *)
THEOREM BodiesInOrder == ExchangeSpec => []CapturedInOrder
<1>1. HttpInv => CapturedInOrder
  BY SaysTheCapture
<1> QED BY <1>1, ExchangeIsSound, PTL

(* An exchange that was answered is never recorded as given up, and none that the handler checked stays
   open: the mark that the client left is written once, and only where nothing else settled it. *)
THEOREM ExchangesEndOneWay == ExchangeSpec => []EndsOneWay
<1>1. HttpInv => EndsOneWay
  BY SaysTheEnd
<1> QED BY <1>1, ExchangeIsSound, PTL

-----------------------------------------------------------------------------
Entries  == [at : Nat, ttl : Nat, announced : Nat]
Listings == [run : Nat, cursor : 1 .. Pages, waits : BOOLEAN, scope : {Public, Private},
             tools : SUBSET (Nat \X Nat), first : Nat]

ListTypes ==
  /\ advertised \subseteq Nat \X Nat /\ listComplete \in BOOLEAN /\ mixed \in BOOLEAN
  /\ cacheFresh \in [1 .. Pages -> Entries] /\ got \in [1 .. Pages -> Entries]
  /\ listClock \in Nat /\ version \in Nat \ {0} /\ announced \in Nat /\ runs \in Nat
  /\ listing \in [Lister -> Listings]

(* The store holds the first k pages of one listing, one tool of each, and whoever is past its first
   page asks for the next of them. *)
HoldsFirst(k) ==
  /\ {t[2] : t \in advertised} = 1 .. k
  /\ \A t, u \in advertised : t[2] = u[2] => t = u
  /\ listComplete <=> k = Pages
  /\ \A c \in Lister : listing[c].cursor > 1 => listing[c].cursor = k + 1
PagesInOrder == ~mixed => \E k \in 0 .. Pages : HoldsFirst(k)

(* A client that waits is in a listing, and one in none is at the first page. *)
Listed(c) ==
  /\ listing[c].run = 0 => ~listing[c].waits /\ listing[c].cursor = 1
  /\ listing[c].run <= runs

(* No two clients are in one listing, and a cursor has the scope of the listing that issued it. *)
ScopesKept ==
  /\ \A c, d \in Lister : listing[c].run = listing[d].run /\ listing[c].run # 0 => c = d
  /\ \A k \in DOMAIN cacheListScope : k[1] \in 1 .. runs
  /\ \A c \in Lister, n \in Nat : <<listing[c].run, n>> \in DOMAIN cacheListScope =>
       cacheListScope[<<listing[c].run, n>>] = listing[c].scope

(* What is held fresh is the last result of that page, and nothing was announced since. *)
FreshKept == \A p \in 1 .. Pages :
  cacheFresh[p] = NoEntry \/ (cacheFresh[p] = got[p] /\ got[p].announced = announced)

ListInv == ListTypes /\ PagesInOrder /\ (\A c \in Lister : Listed(c)) /\ ScopesKept /\ FreshKept

(* A client in no listing is at its first page and waits for nothing. *)
LEMMA AtRest ==
  /\ NotListing \in Listings /\ NoEntry \in Entries
  /\ NotListing.run = 0 /\ NotListing.cursor = 1 /\ ~NotListing.waits
BY ListingAssumption DEF NotListing, NoEntry, Listings, Entries, Public

(* What a client that begins, or goes on with, a listing then is. *)
LEMMA Begun ==
  ASSUME NEW run \in Nat, NEW scope \in {Public, Private}
  PROVE  LET n == [NotListing EXCEPT !.run = run, !.waits = TRUE, !.scope = scope]
         IN  n \in Listings /\ n.run = run /\ n.cursor = 1 /\ n.waits /\ n.scope = scope
BY AtRest DEF Listings

(* And what one that asks for the next page is. *)
LEMMA GoneOn ==
  ASSUME NEW l \in Listings
  PROVE  LET n == [l EXCEPT !.waits = TRUE]
         IN  n \in Listings /\ n.run = l.run /\ n.cursor = l.cursor /\ n.waits /\ n.scope = l.scope
BY DEF Listings

(* What one that was given its last page is. *)
LEMMA Rested ==
  ASSUME NEW tools \in SUBSET (Nat \X Nat)
  PROVE  LET n == [NotListing EXCEPT !.tools = tools]
         IN  n \in Listings /\ n.run = 0 /\ n.cursor = 1 /\ ~n.waits
BY AtRest DEF Listings

(* What one that was given another page is. *)
LEMMA TurnedOver ==
  ASSUME NEW l \in Listings, NEW tools \in SUBSET (Nat \X Nat), NEW v \in Nat
  PROVE  LET n == [l EXCEPT !.waits = FALSE, !.cursor = @ + 1, !.tools = @ \cup tools,
                     !.first = IF l.cursor = 1 THEN v ELSE @]
         IN  /\ l.cursor # Pages => n \in Listings
             /\ n.run = l.run /\ n.cursor = l.cursor + 1 /\ ~n.waits /\ n.scope = l.scope
             /\ n.tools \in SUBSET (Nat \X Nat)
<1> DEFINE n == [l EXCEPT !.waits = FALSE, !.cursor = @ + 1, !.tools = @ \cup tools,
                     !.first = IF l.cursor = 1 THEN v ELSE @]
<1>1. /\ n.run = l.run /\ n.cursor = l.cursor + 1 /\ n.waits = FALSE /\ n.scope = l.scope
      /\ n.tools = l.tools \cup tools /\ n.first \in Nat
  BY DEF Listings
<1>3. n.tools \in SUBSET (Nat \X Nat)
  BY <1>1 DEF Listings
<1>4. ASSUME l.cursor # Pages PROVE n \in Listings
  <2>1. ASSUME NEW k \in 1 .. Pages, NEW ts \in SUBSET (Nat \X Nat), NEW f \in Nat
        PROVE  [l EXCEPT !.waits = FALSE, !.cursor = k, !.tools = ts, !.first = f] \in Listings
    BY DEF Listings
  <2>2. /\ l.cursor + 1 \in 1 .. Pages /\ l.tools \cup tools \in SUBSET (Nat \X Nat)
        /\ (IF l.cursor = 1 THEN v ELSE l.first) \in Nat
    BY <1>4, ListingAssumption DEF Listings
  <2> QED  BY <2>1, <2>2
<1>5. QED  BY <1>1, <1>3, <1>4 DEF n

(* A session that listed nothing yet. *)
LEMMA ListingStarts == ListingInit => ListInv
<1> SUFFICES ASSUME ListingInit PROVE ListInv
  OBVIOUS
<1> USE ListingAssumption
<1>1. ListTypes
  <2>1. /\ cacheFresh \in [1 .. Pages -> Entries] /\ got \in [1 .. Pages -> Entries]
        /\ listing \in [Lister -> Listings]
    BY AtRest DEF ListingInit
  <2>2. advertised \subseteq Nat \X Nat
    BY DEF ListingInit
  <2>3. listComplete \in BOOLEAN /\ mixed \in BOOLEAN
    BY DEF ListingInit
  <2>4. listClock \in Nat /\ version \in Nat \ {0} /\ announced \in Nat /\ runs \in Nat
    BY DEF ListingInit
  <2> QED  BY <2>1, <2>2, <2>3, <2>4 DEF ListTypes
<1>2. HoldsFirst(0)
  BY DEF ListingInit, HoldsFirst, NotListing
<1>3. PagesInOrder
  BY <1>2 DEF PagesInOrder
<1>4. \A c \in Lister : Listed(c)
  BY DEF ListingInit, Listed, NotListing
<1>5. ScopesKept
  BY DEF ListingInit, ScopesKept, NotListing
<1>6. FreshKept
  BY DEF ListingInit, FreshKept
<1> QED  BY <1>1, <1>3, <1>4, <1>5, <1>6 DEF ListInv

(* A new listing has a number of its own, and no cursor of it is known. *)
LEMMA AskingKeeps ==
  ASSUME ListInv, NEW c \in Lister, AsksListing(c)
  PROVE  ListInv'
<1> USE ListingAssumption
<1> DEFINE l == listing[c]
<1>0. ListTypes /\ PagesInOrder /\ (\A d \in Lister : Listed(d)) /\ ScopesKept /\ FreshKept
  BY DEF ListInv
<1>1. PICK scope \in {Public, Private} :
        listing' = [listing EXCEPT ![c] =
          IF l.run = 0 THEN [NotListing EXCEPT !.run = runs + 1, !.waits = TRUE, !.scope = scope]
          ELSE [l EXCEPT !.waits = TRUE]]
  BY DEF AsksListing
<1>2. /\ runs' = IF l.run = 0 THEN runs + 1 ELSE runs
      /\ UNCHANGED <<advertised, listComplete, cacheFresh, cacheListScope, listClock, version, announced, got, mixed>>
  BY DEF AsksListing, listStore
<1>3. /\ \A d \in Lister : d # c => listing'[d] = listing[d]
      /\ listing'[c].cursor = l.cursor /\ listing'[c].waits
      /\ l.run # 0 => listing'[c].run = l.run /\ listing'[c].scope = l.scope
      /\ l.run = 0 => listing'[c].run = runs + 1
  <2>1. l \in Listings /\ runs + 1 \in Nat
    BY <1>0 DEF ListTypes
  <2>2. CASE l.run = 0
    <3> DEFINE n == [NotListing EXCEPT !.run = runs + 1, !.waits = TRUE, !.scope = scope]
    <3>1. n.run = runs + 1 /\ n.cursor = 1 /\ n.waits
      <4>1. runs + 1 \in Nat
        BY <2>1
      <4> QED  BY ONLY <4>1, scope \in {Public, Private}, Begun
    <3>2. listing' = [listing EXCEPT ![c] = n] /\ DOMAIN listing = Lister
      BY <2>2, <1>0, <1>1 DEF ListTypes
    <3>3. l.cursor = 1
      BY <2>2, <1>0 DEF Listed
    <3> HIDE DEF n
    <3> QED  BY <2>2, <3>1, <3>2, <3>3
  <2>3. CASE l.run # 0
    BY <2>1, <2>3, <1>0, <1>1, GoneOn DEF ListTypes
  <2> QED  BY <2>2, <2>3
<1>4. ListTypes'
  <2>1. l \in Listings /\ runs + 1 \in Nat /\ DOMAIN listing = Lister
    BY <1>0 DEF ListTypes
  <2>2. listing' \in [Lister -> Listings]
    BY <2>1, <1>0, <1>1, Begun, GoneOn DEF ListTypes
  <2> QED  BY <1>0, <1>2, <2>1, <2>2 DEF ListTypes
<1>5. PagesInOrder'
  <2>1. ASSUME NEW k \in 0 .. Pages, HoldsFirst(k) PROVE HoldsFirst(k)'
    BY <2>1, <1>2, <1>3 DEF HoldsFirst
  <2> QED  BY <2>1, <1>0, <1>2 DEF PagesInOrder
<1>6. \A d \in Lister : Listed(d)'
  <2> SUFFICES ASSUME NEW d \in Lister PROVE Listed(d)'
    OBVIOUS
  <2>1. CASE d = c
    BY <2>1, <1>0, <1>2, <1>3 DEF Listed, ListTypes, Listings
  <2>2. CASE d # c
    BY <2>2, <1>0, <1>2, <1>3 DEF Listed, ListTypes, Listings
  <2> QED  BY <2>1, <2>2
<1>7. ScopesKept'
  <2>1. runs \in Nat /\ \A d \in Lister : listing[d].run \in Nat /\ listing[d].run <= runs
    BY <1>0 DEF ListTypes, Listed, Listings
  <2>2. \A d, e \in Lister : listing'[d].run = listing'[e].run /\ listing'[d].run # 0 => d = e
    BY <1>0, <1>3, <2>1 DEF ScopesKept
  <2>3. \A k \in DOMAIN cacheListScope : k[1] \in 1 .. runs'
    BY <1>0, <1>2, <2>1 DEF ScopesKept
  <2>4. ASSUME NEW d \in Lister, NEW n \in Nat, <<listing'[d].run, n>> \in DOMAIN cacheListScope
        PROVE  cacheListScope[<<listing'[d].run, n>>] = listing'[d].scope
    <3>1. listing'[d].run \in 1 .. runs
      BY <1>0, <2>4 DEF ScopesKept
    <3>2. listing'[d].run = listing[d].run /\ listing'[d].scope = listing[d].scope
      BY <3>1, <1>3, <2>1
    <3> QED  BY <2>4, <3>2, <1>0 DEF ScopesKept
  <2> QED  BY <2>2, <2>3, <2>4, <1>2 DEF ScopesKept
<1>8. FreshKept'
  BY <1>0, <1>2 DEF FreshKept
<1> QED  BY <1>4, <1>5, <1>6, <1>7, <1>8 DEF ListInv

(* What an answer does to the listing of the client that waited for it. *)
LEMMA AnswerMoves ==
  ASSUME ListInv, NEW c \in Lister, AnswersListing(c)
  PROVE  /\ listing[c].waits /\ listing[c].run \in 1 .. runs
         /\ \A d \in Lister : d # c => listing'[d] = listing[d]
         /\ ~LastPage(listing[c]) => /\ listing'[c].cursor = listing[c].cursor + 1
                                     /\ listing'[c].run = listing[c].run
                                     /\ listing'[c].scope = listing[c].scope
         /\ LastPage(listing[c]) => listing'[c].cursor = 1 /\ listing'[c].run = 0
         /\ ~listing'[c].waits
         /\ listing' \in [Lister -> Listings]
         /\ listing[c].run # 0
<1> USE ListingAssumption
<1> DEFINE l == listing[c]
           tools == PageOf(version, l.cursor)
           next == [l EXCEPT !.waits = FALSE, !.cursor = @ + 1, !.tools = @ \cup (tools \ {Nameless}),
                  !.first = IF l.cursor = 1 THEN version ELSE @]
<1>0. ListTypes /\ \A d \in Lister : Listed(d)
  BY DEF ListInv
<1>1. /\ l.waits
      /\ listing' = [listing EXCEPT ![c] = IF LastPage(l) THEN [NotListing EXCEPT !.tools = next.tools] ELSE next]
  BY DEF AnswersListing
<1>2. l.run \in 1 .. runs /\ l.run # 0
  BY <1>0, <1>1 DEF Listed, ListTypes, Listings
<1>3. tools \subseteq Nat \X Nat
  BY <1>0 DEF ListTypes, Listings, PageOf, Nameless
<1>4. /\ ~LastPage(l) => next \in Listings
      /\ next.run = l.run /\ next.cursor = l.cursor + 1 /\ ~next.waits /\ next.scope = l.scope
      /\ next.tools \in SUBSET (Nat \X Nat)
  <2>1. l \in Listings /\ tools \ {Nameless} \in SUBSET (Nat \X Nat) /\ version \in Nat
    BY <1>0, <1>3 DEF ListTypes
  <2> HIDE DEF tools
  <2> QED  BY <2>1, TurnedOver DEF LastPage
<1> HIDE DEF next
<1>5. LET n == [NotListing EXCEPT !.tools = next.tools] IN n \in Listings /\ n.cursor = 1 /\ n.run = 0 /\ ~n.waits
  BY <1>4, Rested
<1>6. DOMAIN listing = Lister /\ \A d \in Lister : listing[d] \in Listings
  BY <1>0 DEF ListTypes
<1>7. /\ \A d \in Lister : d # c => listing'[d] = listing[d]
      /\ listing'[c] = IF LastPage(l) THEN [NotListing EXCEPT !.tools = next.tools] ELSE next
      /\ listing' \in [Lister -> Listings]
  BY <1>1, <1>4, <1>5, <1>6
<1> QED  BY <1>1, <1>2, <1>4, <1>5, <1>7

(* What the store makes of a page it sees. *)
LEMMA AnswerKeeps ==
  ASSUME ListInv, NEW c \in Lister, AnswersListing(c)
  PROVE  ListInv'
<1> USE ListingAssumption
<1> DEFINE l == listing[c]
           tools == PageOf(version, l.cursor)
           Seen(ttl) ==
             /\ advertised' = ApplyToolsList(l, tools) /\ listComplete' = LastToolsPage(l)
             /\ cacheListScope' = IF LastPage(l) THEN cacheListScope
                                  ELSE [k \in DOMAIN cacheListScope \cup {CacheScopeKey(NextPage(l))} |->
                                          IF k = CacheScopeKey(NextPage(l)) THEN l.scope ELSE cacheListScope[k]]
             /\ cacheFresh' = IF ttl > 0 THEN [cacheFresh EXCEPT ![l.cursor] =
                                                [at |-> listClock, ttl |-> ttl, announced |-> announced]]
                              ELSE cacheFresh
             /\ got' = IF ttl > 0 THEN [got EXCEPT ![l.cursor] =
                                         [at |-> listClock, ttl |-> ttl, announced |-> announced]] ELSE got
             /\ mixed' = IF l.cursor = 1 THEN \E d \in Lister \ {c} : listing[d].run # 0 /\ listing[d].cursor > 1
                         ELSE mixed \/ (\E d \in Lister \ {c} : listing[d].run # 0)
           Missed == mixed' = TRUE /\ UNCHANGED <<advertised, listComplete, cacheFresh, cacheListScope, got>>
<1>0. ListTypes /\ PagesInOrder /\ (\A d \in Lister : Listed(d)) /\ ScopesKept /\ FreshKept
  BY DEF ListInv
<1>1. (\E ttl \in Ttls : Seen(ttl)) \/ Missed
  BY DEF AnswersListing, listStore
<1>2. UNCHANGED <<listClock, version, announced, runs>>
  BY DEF AnswersListing
<1> HIDE DEF Seen, Missed
<1>3. /\ l.waits /\ l.run \in 1 .. runs /\ l.run # 0
      /\ \A d \in Lister : d # c => listing'[d] = listing[d]
      /\ ~LastPage(l) => listing'[c].cursor = l.cursor + 1 /\ listing'[c].run = l.run /\ listing'[c].scope = l.scope
      /\ LastPage(l) => listing'[c].cursor = 1 /\ listing'[c].run = 0
      /\ ~listing'[c].waits
      /\ listing' \in [Lister -> Listings]
  BY AnswerMoves
<1>4. /\ l \in Listings /\ l.cursor \in 1 .. Pages /\ version \in Nat /\ version # 0
      /\ listing \in [Lister -> Listings] /\ runs \in Nat
  BY <1>0 DEF ListTypes, Listings
<1>5. tools \ {Nameless} = {<<version, l.cursor>>}
  BY <1>4 DEF PageOf, Nameless
<1>a. ListTypes'
  <2>1. listing' \in [Lister -> Listings] /\ listClock' \in Nat /\ version' \in Nat \ {0} /\ announced' \in Nat /\ runs' \in Nat
    BY <1>0, <1>2, <1>3 DEF ListTypes
  <2>2. CASE Missed
    BY <2>1, <2>2, <1>0 DEF Missed, ListTypes
  <2>3. ASSUME NEW ttl \in Ttls, Seen(ttl) PROVE ListTypes'
    <3>1. advertised' \subseteq Nat \X Nat
      BY <2>3, <1>0, <1>4, <1>5 DEF Seen, ApplyToolsList, ListTypes
    <3>2. listComplete' \in BOOLEAN /\ mixed' \in BOOLEAN
      <4>1. listComplete' \in BOOLEAN
        BY <2>3 DEF Seen, LastToolsPage, LastPage
      <4>2. mixed' \in BOOLEAN
        BY <2>3, <1>0 DEF Seen, ListTypes
      <4> QED  BY <4>1, <4>2
    <3>3. ttl > 0 => [at |-> listClock, ttl |-> ttl, announced |-> announced] \in Entries
      BY <1>0 DEF ListTypes, Entries
    <3>4. cacheFresh' \in [1 .. Pages -> Entries] /\ got' \in [1 .. Pages -> Entries]
      BY <2>3, <3>3, <1>0 DEF Seen, ListTypes
    <3> QED  BY <2>1, <3>1, <3>2, <3>4 DEF ListTypes
  <2> QED  BY <1>1, <2>2, <2>3
<1>b. PagesInOrder'
  <2> SUFFICES ASSUME ~mixed' PROVE \E k \in 0 .. Pages : HoldsFirst(k)'
    BY DEF PagesInOrder
  <2>1. PICK ttl \in Ttls : Seen(ttl)
    BY <1>1 DEF Missed
  <2>2. l.cursor \in 0 .. Pages /\ listComplete' = (l.cursor = Pages)
    BY <2>1, <1>4 DEF Seen, LastToolsPage, LastPage
  <2>3. CASE l.cursor = 1
    <3>1. advertised' = {<<version, l.cursor>>}
      BY <2>1, <2>3, <1>5 DEF Seen, ApplyToolsList
    <3>2. \A d \in Lister \ {c} : ~(listing[d].run # 0 /\ listing[d].cursor > 1)
      BY <2>1, <2>3 DEF Seen
    <3>3. \A d \in Lister : d # c => listing'[d].cursor = 1
      BY <3>2, <1>0, <1>3, <1>4 DEF Listed, Listings
    <3>4. \A d \in Lister : listing'[d].cursor > 1 => listing'[d].cursor = l.cursor + 1
      BY <3>3, <1>3
    <3>5. {t[2] : t \in advertised'} = 1 .. l.cursor
      BY <3>1, <2>3
    <3>6. \A t, u \in advertised' : t[2] = u[2] => t = u
      BY <3>1
    <3> QED  BY <2>2, <3>4, <3>5, <3>6 DEF HoldsFirst
  <2>4. CASE l.cursor # 1
    <3>1. advertised' = advertised \cup {<<version, l.cursor>>}
      BY <2>1, <2>4, <1>4, <1>5 DEF Seen, ApplyToolsList
    <3>2. ~mixed /\ \A d \in Lister \ {c} : listing[d].run = 0
      BY <2>1, <2>4 DEF Seen
    <3>3. PICK k \in 0 .. Pages : HoldsFirst(k)
      BY <3>2, <1>0 DEF PagesInOrder
    <3>4. l.cursor = k + 1
      BY <3>3, <2>4, <1>4 DEF HoldsFirst
    <3>5. \A d \in Lister : listing'[d].cursor > 1 => listing'[d].cursor = l.cursor + 1
      BY <3>2, <1>0, <1>3 DEF Listed
    <3>6. {t[2] : t \in advertised'} = 1 .. l.cursor
      <4>1. {t[2] : t \in advertised'} = {t[2] : t \in advertised} \cup {l.cursor}
        <5>1. \A t \in advertised' : t \in advertised \/ t = <<version, l.cursor>>
          BY <3>1
        <5>2. advertised \subseteq advertised' /\ <<version, l.cursor>> \in advertised'
          BY <3>1
        <5>3. <<version, l.cursor>>[2] = l.cursor
          OBVIOUS
        <5> QED  BY <5>1, <5>2, <5>3
      <4>2. {t[2] : t \in advertised} = 1 .. k
        BY <3>3 DEF HoldsFirst
      <4> QED  BY <4>1, <4>2, <3>4
    <3>7. \A t, u \in advertised' : t[2] = u[2] => t = u
      <4>1. \A t \in advertised : t[2] \in 1 .. k
        BY <3>3 DEF HoldsFirst
      <4>2. \A t \in advertised : t[2] # l.cursor
        BY <3>4, <4>1
      <4> QED  BY <3>1, <3>3, <4>2 DEF HoldsFirst
    <3> QED  BY <2>2, <3>5, <3>6, <3>7 DEF HoldsFirst
  <2> QED  BY <2>3, <2>4
<1>c. \A d \in Lister : Listed(d)'
  BY <1>0, <1>2, <1>3, <1>4 DEF Listed, Listings
<1>d. ScopesKept'
  <2>1. \A d \in Lister : listing[d].run \in Nat
    BY <1>4 DEF Listings
  <2>2. \A d, e \in Lister : listing'[d].run = listing'[e].run /\ listing'[d].run # 0 => d = e
    BY <1>0, <1>3 DEF ScopesKept
  <2>3. \A d \in Lister : listing'[d].run # 0 => listing'[d].run = listing[d].run /\ listing'[d].scope = listing[d].scope
    BY <1>3
  <2>4. CASE cacheListScope' = cacheListScope
    <3>1. \A k \in DOMAIN cacheListScope : k[1] \in 1 .. runs'
      BY <1>0, <1>2 DEF ScopesKept
    <3>2. ASSUME NEW d \in Lister, NEW n \in Nat, <<listing'[d].run, n>> \in DOMAIN cacheListScope
          PROVE  cacheListScope[<<listing'[d].run, n>>] = listing'[d].scope
      <4>1. listing'[d].run # 0
        BY <3>1, <3>2
      <4> QED  BY <2>3, <3>2, <4>1, <1>0 DEF ScopesKept
    <3> QED  BY <2>2, <2>4, <3>1, <3>2 DEF ScopesKept
  <2>5. CASE cacheListScope' # cacheListScope
    <3> DEFINE key == <<l.run, l.cursor + 1>>
    <3>1. CacheScopeKey(NextPage(l)) = key
      BY <1>4 DEF CacheScopeKey, NextPage, Listings
    <3>2. cacheListScope' = [k \in DOMAIN cacheListScope \cup {key} |-> IF k = key THEN l.scope ELSE cacheListScope[k]]
      BY <1>1, <2>5, <3>1 DEF Seen, Missed
    <3>3. \A k \in DOMAIN cacheListScope' : k[1] \in 1 .. runs'
      BY <3>2, <1>0, <1>2, <1>3 DEF ScopesKept
    <3>4. ASSUME NEW d \in Lister, NEW n \in Nat, <<listing'[d].run, n>> \in DOMAIN cacheListScope'
          PROVE  cacheListScope'[<<listing'[d].run, n>>] = listing'[d].scope
      <4>1. listing'[d].run # 0
        BY <3>3, <3>4
      <4>2. listing'[d].run = listing[d].run /\ listing'[d].scope = listing[d].scope
        BY <2>3, <4>1
      <4>3. CASE <<listing'[d].run, n>> = key
        <5>1. listing[d].run = listing[c].run
          BY <4>2, <4>3
        <5>2. d = c
          BY <5>1, <1>0, <1>3 DEF ScopesKept
        <5> QED  BY <3>2, <4>2, <4>3, <5>2
      <4>4. CASE <<listing'[d].run, n>> # key
        BY <3>2, <3>4, <4>2, <4>4, <1>0 DEF ScopesKept
      <4> QED  BY <4>3, <4>4
    <3> QED  BY <2>2, <3>3, <3>4 DEF ScopesKept
  <2> QED  BY <2>4, <2>5
<1>e. FreshKept'
  <2>1. CASE Missed
    BY <2>1, <1>0, <1>2 DEF Missed, FreshKept
  <2>2. ASSUME NEW ttl \in Ttls, Seen(ttl) PROVE FreshKept'
    BY <2>2, <1>0, <1>2, <1>4 DEF Seen, FreshKept, ListTypes
  <2> QED  BY <1>1, <2>1, <2>2
<1> QED  BY <1>a, <1>b, <1>c, <1>d, <1>e DEF ListInv

(* Every step of the listing keeps what is said of it; an announcement empties what is held fresh. *)
LEMMA ListingsKeep ==
  ASSUME ListInv, ListingNext PROVE ListInv'
<1> USE ListingAssumption
<1>0. ListTypes /\ PagesInOrder /\ (\A d \in Lister : Listed(d)) /\ ScopesKept /\ FreshKept
  BY DEF ListInv
<1>1. ASSUME UNCHANGED <<listStore, runs, listing, got, mixed, announced>>,
             listClock' \in Nat, version' \in Nat \ {0}
      PROVE  ListInv'
  BY <1>0, <1>1 DEF ListInv, listStore, ListTypes, PagesInOrder, HoldsFirst, Listed, ScopesKept, FreshKept
<1>2. CASE ToolsChange
  BY <1>0, <1>1, <1>2 DEF ToolsChange, ListTypes
<1>3. CASE TimePasses
  BY <1>0, <1>1, <1>3 DEF TimePasses, ListTypes
<1>4. CASE ListChanged
  <2>1. /\ UNCHANGED <<advertised, listComplete, cacheListScope, listClock, version, runs, listing, got, mixed>>
        /\ announced' = version
        /\ cacheFresh' = [p \in 1 .. Pages |-> NoEntry]
    BY <1>0, <1>4 DEF ListChanged, InvalidateCache, ListTypes
  <2>2. ListTypes'
    <3>1. cacheFresh' \in [1 .. Pages -> Entries]
      BY <2>1, AtRest
    <3> QED  BY <2>1, <3>1, <1>0 DEF ListTypes
  <2>3. PagesInOrder' /\ (\A d \in Lister : Listed(d)')
    BY <2>1, <1>0 DEF PagesInOrder, HoldsFirst, Listed
  <2>4. ScopesKept'
    BY <2>1, <1>0 DEF ScopesKept
  <2>5. FreshKept'
    BY <2>1 DEF FreshKept
  <2> QED  BY <2>2, <2>3, <2>4, <2>5 DEF ListInv
<1>5. CASE \E c \in Lister : AsksListing(c) \/ AnswersListing(c)
  BY <1>5, AskingKeeps, AnswerKeeps
<1> QED  BY <1>2, <1>3, <1>4, <1>5 DEF ListingNext

(* The listing's invariant: what the store holds are the first pages of one listing, scopes are kept by the
   listing that issued the cursor, and what is fresh is the last result (applyToolsList, cache.go). *)
THEOREM ListingIsSound == ListingSpec => []ListInv
<1>1. ListInv /\ [ListingNext]_listVars => ListInv'
  <2>1. CASE ListingNext
    BY <2>1, ListingsKeep
  <2>2. CASE UNCHANGED listVars
    BY <2>2 DEF listVars, listStore, ListInv, ListTypes, PagesInOrder, HoldsFirst, Listed, ScopesKept, FreshKept
  <2> QED  BY <2>1, <2>2
<1> QED  BY <1>1, ListingStarts, PTL DEF ListingSpec

(* What is handed out as complete is one listing, every page of it, one tool of each (ToolDefinitions). *)
THEOREM CompleteListsAreWhole == ListingSpec => []CompleteIsWhole
<1>1. ListInv => CompleteIsWhole
  <2> SUFFICES ASSUME ListInv, ~mixed, NEW tools \in ToolDefinitions
               PROVE  /\ {t[2] : t \in tools} = 1 .. Pages
                      /\ \A page \in 1 .. Pages : Cardinality({t \in tools : t[2] = page}) = 1
    BY DEF CompleteIsWhole
  <2>1. listComplete /\ tools = advertised
    BY DEF ToolDefinitions
  <2>2. PICK k \in 0 .. Pages : HoldsFirst(k)
    BY DEF ListInv, PagesInOrder
  <2>3. k = Pages
    BY <2>1, <2>2 DEF HoldsFirst
  <2>4. {t[2] : t \in tools} = 1 .. Pages
    BY <2>1, <2>2, <2>3 DEF HoldsFirst
  <2>5. ASSUME NEW page \in 1 .. Pages PROVE Cardinality({t \in tools : t[2] = page}) = 1
    <3>1. PICK u \in tools : u[2] = page
      BY <2>4
    <3>2. {t \in tools : t[2] = page} = {u}
      BY <2>1, <2>2, <3>1 DEF HoldsFirst
    <3> QED  BY <3>2, FS_Singleton
  <2> QED  BY <2>4, <2>5
<1> QED  BY <1>1, ListingIsSound, PTL

(* No conforming server is reported for its scopes, and no client for a re-fetch it had reason for
   (checkCacheScopeAcrossPages, checkCacheStale). *)
THEOREM NobodyIsAccused == ListingSpec => CachingJudgedFairly
<1> DEFINE Fair == /\ note' # "scope"
                   /\ note' = "re-fetched" => \E c \in Lister : AsksListing(c) /\
                        LET g == got[listing[c].cursor] IN g.announced = announced /\ listClock - g.at < g.ttl
<1>1. ListInv /\ [ListingNext]_listVars => [Fair]_listVars
  <2> SUFFICES ASSUME ListInv, ListingNext PROVE Fair
    OBVIOUS
  <2>0. ListTypes /\ (\A d \in Lister : Listed(d)) /\ ScopesKept /\ FreshKept
    BY DEF ListInv
  <2>1. CASE ToolsChange \/ ListChanged \/ TimePasses
    BY <2>1 DEF ToolsChange, ListChanged, TimePasses, NoNote
  <2>2. ASSUME NEW c \in Lister, AsksListing(c) PROVE Fair
    <3> DEFINE l == listing[c]
               p == l.cursor
    <3>1. note' = IF Fresh(cacheFresh[p]) THEN "re-fetched" ELSE "none"
      BY <2>2 DEF AsksListing, CheckCacheStale, NoNote
    <3>2. ASSUME Fresh(cacheFresh[p]) PROVE got[p].announced = announced /\ listClock - got[p].at < got[p].ttl
      <4>1. p \in 1 .. Pages /\ listClock \in Nat
        BY <2>0 DEF ListTypes, Listings
      <4>2. cacheFresh[p] # NoEntry
        BY <3>2 DEF Fresh, NoEntry
      <4>3. cacheFresh[p] = got[p] /\ got[p].announced = announced
        BY <2>0, <4>1, <4>2 DEF FreshKept
      <4>4. got[p].at \in Nat /\ got[p].ttl \in Nat
        BY <2>0, <4>1 DEF ListTypes, Entries
      <4> QED  BY <3>2, <4>1, <4>3, <4>4 DEF Fresh
    <3> QED  BY <2>2, <3>1, <3>2
  <2>3. ASSUME NEW c \in Lister, AnswersListing(c) PROVE Fair
    <3> DEFINE l == listing[c]
    <3>1. note' \in {CheckCacheScope(l), NoNote}
      BY <2>3 DEF AnswersListing
    <3>2. l.cursor \in Nat
      BY <2>0 DEF ListTypes, Listings
    <3>3. CheckCacheScope(l) = NoNote
      BY <2>0, <3>2 DEF CheckCacheScope, CacheScopeKey, ScopesKept
    <3> QED  BY <3>1, <3>3 DEF NoNote
  <2> QED  BY <2>1, <2>2, <2>3 DEF ListingNext
<1> QED  BY <1>1, ListingIsSound, PTL DEF ListingSpec, CachingJudgedFairly

-----------------------------------------------------------------------------
(* An operation that takes several requests. *)

Actions   == {Unanswered, "accept"}
Questions == [key : Key, asked : Nat, action : Actions, answered : Nat]
Rounds    == [keys : SUBSET Key, at : Nat, said : [Key -> Actions], when : Nat]
Ops == [state : {"pending", "completed", "cancelled"}, task : BOOLEAN, late : BOOLEAN, serverTime : Nat,
        clientTime : Nat, hopMark : Nat, hops : Nat, elicitations : Seq(Questions), elicitRound : Nat]

ChainTypes ==
  /\ op \in Ops /\ op.elicitRound <= Len(op.elicitations)
  /\ op.hopMark <= hopClock /\ since <= hopClock
  /\ hopClock \in Nat /\ since \in Nat /\ spent \in [server : Nat, client : Nat]
  /\ turn \in {"server", "client", "nobody"} /\ odd \in BOOLEAN
  /\ rounds \in Seq(Rounds)

(* Whose turn it can be. *)
WhoseTurn ==
  /\ op.state = "pending" => turn # "nobody"
  /\ op.state = "cancelled" /\ ~op.late => turn = "server"
  /\ op.task => turn # "client"
  /\ turn = "client" => rounds # <<>>

(* What a side was charged is what it took, up to the frame the turn began with. *)
Charges == ~odd => op.hopMark = since /\ op.serverTime = spent.server /\ op.clientTime = spent.client

(* The last questions recorded are those of the newest round, and while the client has it nothing of
   it is answered. *)
Newest ==
  ~odd =>
    /\ rounds = <<>> => op.elicitations = <<>> /\ op.elicitRound = 0
    /\ rounds # <<>> =>
         LET asks == rounds[Len(rounds)].keys IN
         /\ Len(op.elicitations) = op.elicitRound + Cardinality(asks)
         /\ \A i \in 1 .. Cardinality(asks) : op.elicitations[op.elicitRound + i].key = SetToSeq(asks)[i]
    /\ turn = "client" => \A k \in Key : rounds[Len(rounds)].said[k] = Unanswered

(* Every question recorded is one of a round, the newest for the last ones and an earlier one else. *)
RoundOf(i, j) ==
  /\ op.elicitations[i].key \in rounds[j].keys
  /\ op.elicitations[i] = RowOf(rounds[j], op.elicitations[i].key)
  /\ i > op.elicitRound <=> j = Len(rounds)
Rows == ~odd => \A i \in 1 .. Len(op.elicitations) : \E j \in 1 .. Len(rounds) : RoundOf(i, j)

ChainInv == ChainTypes /\ WhoseTurn /\ Charges /\ Newest /\ Rows

-----------------------------------------------------------------------------
(* SetToSeq orders a finite set, so equal orders are of equal sets. *)
LEMMA InOrder ==
  ASSUME NEW S, IsFiniteSet(S)
  PROVE  /\ Cardinality(S) \in Nat /\ SetToSeq(S) \in [1 .. Cardinality(S) -> S]
         /\ \A x \in S : \E i \in 1 .. Cardinality(S) : SetToSeq(S)[i] = x
         /\ S # {} => Cardinality(S) > 0
<1>1. Cardinality(S) \in Nat /\ ExistsBijection(1 .. Cardinality(S), S)
  BY FS_CardinalityType
<1>2. \E f \in [1 .. Cardinality(S) -> S] : IsInjective(f)
  BY <1>1 DEF ExistsBijection, Bijection, Injection
<1>3. SetToSeq(S) \in [1 .. Cardinality(S) -> S] /\ IsInjective(SetToSeq(S))
  BY <1>2 DEF SetToSeq
<1>4. SetToSeq(S) \in Injection(1 .. Cardinality(S), S)
  BY <1>3 DEF Injection
<1>5. Cardinality(1 .. Cardinality(S)) = Cardinality(S)
  BY <1>1, FS_Interval
<1>6. SetToSeq(S) \in Surjection(1 .. Cardinality(S), S)
  BY <1>4, <1>5, FS_Injection
<1>7. \A x \in S : \E i \in 1 .. Cardinality(S) : SetToSeq(S)[i] = x
  BY <1>6 DEF Surjection
<1>8. S # {} => Cardinality(S) > 0
  BY <1>1, FS_EmptySet
<1> QED  BY <1>1, <1>3, <1>7, <1>8

(* Sets of one size that are ordered alike are one set. *)
LEMMA SameOrder ==
  ASSUME NEW S, NEW T, IsFiniteSet(S), IsFiniteSet(T), Cardinality(S) = Cardinality(T),
         \A i \in 1 .. Cardinality(S) : SetToSeq(S)[i] = SetToSeq(T)[i]
  PROVE  S = T
<1>1. \A x \in S : x \in T
  BY InOrder
<1>2. \A x \in T : x \in S
  BY InOrder
<1> QED  BY <1>1, <1>2

(* A question is its four fields. *)
LEMMA SameQuestion ==
  ASSUME NEW p \in Questions, NEW q \in Questions, p.key = q.key, p.asked = q.asked,
         p.action = q.action, p.answered = q.answered
  PROVE  p = q
BY DEF Questions

(* The questions of one round are finitely many. *)
LEMMA KeysFinite == ASSUME NEW S \in SUBSET Key PROVE IsFiniteSet(S)
BY ChainsAssumption, FS_Subset

(* markHop, charged into either account. *)
LEMMA Marked ==
  ASSUME NEW c \in Ops, c.hopMark <= hopClock, hopClock \in Nat
  PROVE  /\ MarkHop(c, "serverTime") =
              [c EXCEPT !.serverTime = @ + (hopClock - c.hopMark), !.hopMark = hopClock]
         /\ MarkHop(c, "clientTime") =
              [c EXCEPT !.clientTime = @ + (hopClock - c.hopMark), !.hopMark = hopClock]
<1>1. CASE hopClock <= c.hopMark
  <2>1. hopClock = c.hopMark /\ hopClock - c.hopMark = 0
    BY <1>1 DEF Ops
  <2>2. c.serverTime + 0 = c.serverTime /\ c.clientTime + 0 = c.clientTime
    BY DEF Ops
  <2>3. MarkHop(c, "serverTime") = c /\ MarkHop(c, "clientTime") = c
    BY <1>1 DEF MarkHop
  <2>4. c = [c EXCEPT !.serverTime = c.serverTime, !.hopMark = c.hopMark]
    BY DEF Ops
  <2>5. c = [c EXCEPT !.clientTime = c.clientTime, !.hopMark = c.hopMark]
    BY DEF Ops
  <2> QED  BY <2>1, <2>2, <2>3, <2>4, <2>5
<1>2. CASE ~(hopClock <= c.hopMark)
  BY <1>2 DEF MarkHop
<1> QED  BY <1>1, <1>2

(* What a call is once the server was charged. *)
LEMMA MarkedServer ==
  ASSUME NEW c \in Ops, c.hopMark <= hopClock, hopClock \in Nat
  PROVE  LET m == MarkHop(c, "serverTime")
         IN  /\ m \in Ops /\ m.serverTime = c.serverTime + (hopClock - c.hopMark) /\ m.hopMark = hopClock
             /\ m.clientTime = c.clientTime /\ m.elicitations = c.elicitations /\ m.elicitRound = c.elicitRound
             /\ m.state = c.state /\ m.task = c.task /\ m.late = c.late /\ m.hops = c.hops
<1> DEFINE t == c.serverTime + (hopClock - c.hopMark)
           m == MarkHop(c, "serverTime")
<1>1. t \in Nat
  BY DEF Ops
<1>2. m = [c EXCEPT !.serverTime = t, !.hopMark = hopClock]
  BY Marked
<1> HIDE DEF t, m
<1>3. /\ m \in Ops /\ m.serverTime = t /\ m.hopMark = hopClock /\ m.clientTime = c.clientTime
      /\ m.elicitations = c.elicitations /\ m.elicitRound = c.elicitRound
      /\ m.state = c.state /\ m.task = c.task /\ m.late = c.late /\ m.hops = c.hops
  BY <1>1, <1>2 DEF Ops
<1> QED  BY <1>3 DEF t, m

(* And once the client was. *)
LEMMA MarkedClient ==
  ASSUME NEW c \in Ops, c.hopMark <= hopClock, hopClock \in Nat
  PROVE  LET m == MarkHop(c, "clientTime")
         IN  /\ m \in Ops /\ m.clientTime = c.clientTime + (hopClock - c.hopMark) /\ m.hopMark = hopClock
             /\ m.serverTime = c.serverTime /\ m.elicitations = c.elicitations /\ m.elicitRound = c.elicitRound
             /\ m.state = c.state /\ m.task = c.task /\ m.late = c.late /\ m.hops = c.hops
<1> DEFINE t == c.clientTime + (hopClock - c.hopMark)
           m == MarkHop(c, "clientTime")
<1>1. t \in Nat
  BY DEF Ops
<1>2. m = [c EXCEPT !.clientTime = t, !.hopMark = hopClock]
  BY Marked
<1> HIDE DEF t, m
<1>3. /\ m \in Ops /\ m.clientTime = t /\ m.hopMark = hopClock /\ m.serverTime = c.serverTime
      /\ m.elicitations = c.elicitations /\ m.elicitRound = c.elicitRound
      /\ m.state = c.state /\ m.task = c.task /\ m.late = c.late /\ m.hops = c.hops
  BY <1>1, <1>2 DEF Ops
<1> QED  BY <1>3 DEF t, m

(* A turn that ends is on the account of whoever had it. *)
LEMMA HandedOver ==
  ASSUME ChainTypes, turn # "nobody", NEW to, HandsOver(to)
  PROVE  /\ spent' \in [server : Nat, client : Nat] /\ since' = hopClock /\ turn' = to
         /\ turn = "server" => spent'.server = spent.server + (hopClock - since) /\ spent'.client = spent.client
         /\ turn = "client" => spent'.client = spent.client + (hopClock - since) /\ spent'.server = spent.server
<1>1. hopClock - since \in Nat
  BY DEF ChainTypes
<1>2. CASE turn = "server"
  BY <1>1, <1>2 DEF ChainTypes, HandsOver
<1>3. CASE turn = "client"
  BY <1>1, <1>3 DEF ChainTypes, HandsOver
<1> QED  BY <1>2, <1>3 DEF ChainTypes

(* The questions a round asks. *)
LEMMA Parsed ==
  ASSUME NEW asks \in SUBSET Key, hopClock \in Nat
  PROVE  /\ ParseElicitations(asks) \in Seq(Questions) /\ Len(ParseElicitations(asks)) = Cardinality(asks)
         /\ Cardinality(asks) \in Nat
         /\ \A i \in 1 .. Cardinality(asks) :
              ParseElicitations(asks)[i] = Question(SetToSeq(asks)[i]) /\ SetToSeq(asks)[i] \in asks
<1> DEFINE n == Cardinality(asks)
<1>1. n \in Nat /\ \A i \in 1 .. n : SetToSeq(asks)[i] \in asks
  BY KeysFinite, InOrder
<1>2. \A i \in 1 .. n : Question(SetToSeq(asks)[i]) \in Questions
  BY <1>1 DEF Question, Questions, Actions
<1>3. ParseElicitations(asks) \in [1 .. n -> Questions]
  BY <1>2 DEF ParseElicitations
<1>4. ParseElicitations(asks) \in Seq(Questions) /\ Len(ParseElicitations(asks)) = n
  BY <1>1, <1>3
<1> QED  BY <1>1, <1>4 DEF ParseElicitations

(* What LastRound cuts out of the questions recorded. *)
LEMMA LastOnes ==
  ASSUME ChainTypes
  PROVE  /\ Len(LastRound(op)) = Len(op.elicitations) - op.elicitRound
         /\ \A i \in 1 .. Len(op.elicitations) - op.elicitRound :
              LastRound(op)[i] = op.elicitations[op.elicitRound + i]
         /\ LastRound(op) = <<>> <=> Len(op.elicitations) = op.elicitRound
<1> DEFINE es == op.elicitations
           m  == op.elicitRound + 1
<1>1. es \in Seq(Questions) /\ m \in Int /\ m <= Len(es) + 1 /\ op.elicitRound \in Nat /\ Len(es) \in Nat
  BY DEF ChainTypes, Ops
<1>2. \A i \in m .. Len(es) : es[i] \in Questions
  BY <1>1 DEF ChainTypes, Ops
<1>3. LastRound(op) = SubSeq(es, m, Len(es))
  BY DEF LastRound
<1> HIDE DEF es, m
<1>4. /\ SubSeq(es, m, Len(es)) \in Seq(Questions)
      /\ Len(SubSeq(es, m, Len(es))) = IF m <= Len(es) THEN Len(es) - m + 1 ELSE 0
      /\ \A i \in 1 .. Len(es) - m + 1 : SubSeq(es, m, Len(es))[i] = es[m + i - 1]
  BY <1>1, <1>2, SubSeqProperties
<1>5. Len(LastRound(op)) = Len(es) - op.elicitRound
  BY <1>1, <1>3, <1>4 DEF m
<1>6. LastRound(op) = <<>> <=> Len(LastRound(op)) = 0
  BY <1>3, <1>4, EmptySeq
<1>7. ASSUME NEW i \in 1 .. Len(es) - op.elicitRound
      PROVE  LastRound(op)[i] = es[op.elicitRound + i]
  <2>1. i \in 1 .. Len(es) - m + 1 /\ m + i - 1 = op.elicitRound + i
    BY <1>1 DEF m
  <2> QED  BY <1>3, <1>4, <2>1
<1>8. LastRound(op) = <<>> <=> Len(es) = op.elicitRound
  BY <1>1, <1>5, <1>6
<1> QED  BY <1>5, <1>7, <1>8 DEF es

(* A round is taken for the one before exactly when it asks the same. *)
LEMMA SameRound ==
  ASSUME ChainInv, ~odd, NEW asks \in SUBSET Key, asks # {}
  PROVE  SameElicitRound(LastRound(op), ParseElicitations(asks)) <=>
           rounds # <<>> /\ rounds[Len(rounds)].keys = asks
<1> DEFINE last == rounds[Len(rounds)].keys
           n    == Cardinality(asks)
<1>0. ChainTypes /\ Newest /\ hopClock \in Nat /\ rounds \in Seq(Rounds)
  BY DEF ChainInv, ChainTypes
<1>1. /\ Len(ParseElicitations(asks)) = n /\ n \in Nat /\ n > 0
      /\ \A i \in 1 .. n : ParseElicitations(asks)[i].key = SetToSeq(asks)[i]
      /\ DOMAIN LastRound(op) = 1 .. Len(LastRound(op))
  <2>1. DOMAIN LastRound(op) = 1 .. Len(LastRound(op))
    <3>1. op.elicitations \in Seq(Questions) /\ op.elicitRound \in Nat
      BY <1>0 DEF ChainTypes, Ops
    <3>2. LastRound(op) \in Seq(Questions)
      BY <3>1 DEF LastRound
    <3> QED  BY <3>2
  <2>2. n > 0
    BY KeysFinite, InOrder
  <2>3. \A x \in Key : Question(x).key = x
    BY DEF Question
  <2> QED  BY <1>0, <2>1, <2>2, <2>3, Parsed
<1>2. CASE rounds = <<>>
  <2>1. LastRound(op) = <<>>
    BY <1>0, <1>2, LastOnes DEF Newest
  <2> QED  BY <1>2, <2>1 DEF SameElicitRound
<1>3. CASE rounds # <<>>
  <2>1. last \in SUBSET Key
    <3>1. rounds[Len(rounds)] \in Rounds
      BY <1>0, <1>3
    <3> QED  BY <3>1 DEF Rounds
  <2>2. /\ Len(op.elicitations) = op.elicitRound + Cardinality(last)
        /\ \A i \in 1 .. Cardinality(last) : op.elicitations[op.elicitRound + i].key = SetToSeq(last)[i]
    BY <1>0, <1>3 DEF Newest
  <2>3. IsFiniteSet(last) /\ IsFiniteSet(asks) /\ Cardinality(last) \in Nat
    BY <2>1, KeysFinite, InOrder
  <2>4. op.elicitRound \in Nat /\ Len(op.elicitations) \in Nat
    BY <1>0 DEF ChainTypes, Ops
  <2>5. /\ Len(LastRound(op)) = Cardinality(last)
        /\ \A i \in 1 .. Cardinality(last) : LastRound(op)[i].key = SetToSeq(last)[i]
        /\ LastRound(op) = <<>> <=> Cardinality(last) = 0
    <3> DEFINE es == op.elicitations
               c  == Cardinality(last)
    <3> HIDE DEF es, c
    <3>1. Len(es) - op.elicitRound = c /\ (Len(es) = op.elicitRound <=> c = 0)
      BY <2>2, <2>3, <2>4 DEF es, c
    <3>2. /\ Len(LastRound(op)) = c /\ (LastRound(op) = <<>> <=> c = 0)
          /\ \A i \in 1 .. c : LastRound(op)[i] = es[op.elicitRound + i]
      BY <1>0, <3>1, LastOnes DEF es
    <3>3. \A i \in 1 .. c : es[op.elicitRound + i].key = SetToSeq(last)[i]
      BY <2>2 DEF es, c
    <3> QED  BY <3>2, <3>3 DEF c
  <2>6. ASSUME SameElicitRound(LastRound(op), ParseElicitations(asks)) PROVE last = asks
    <3>1. Cardinality(last) = Cardinality(asks)
      BY <1>1, <2>5, <2>6 DEF SameElicitRound
    <3>2. \A i \in 1 .. Cardinality(last) : SetToSeq(last)[i] = SetToSeq(asks)[i]
      BY <1>1, <2>5, <2>6, <3>1 DEF SameElicitRound
    <3> HIDE DEF last
    <3> QED  BY <2>3, <3>1, <3>2, SameOrder
  <2>7. ASSUME last = asks PROVE SameElicitRound(LastRound(op), ParseElicitations(asks))
    BY <1>1, <2>5, <2>7 DEF SameElicitRound
  <2> QED  BY <1>3, <2>6, <2>7
<1> QED  BY <1>2, <1>3

-----------------------------------------------------------------------------
(* An operation at its first request. *)
LEMMA ChainsStart == ChainsInit => ChainInv
<1> SUFFICES ASSUME ChainsInit PROVE ChainInv
  OBVIOUS
<1>1. op \in Ops /\ op.elicitations = <<>> /\ op.elicitRound = 0 /\ op.hopMark = 0 /\ op.serverTime = 0
      /\ op.clientTime = 0 /\ op.state = "pending" /\ op.task = FALSE
  BY DEF ChainsInit, Ops
<1>2. rounds = <<>> /\ hopClock = 0 /\ since = 0 /\ turn = "server" /\ odd = FALSE
      /\ spent = [server |-> 0, client |-> 0]
  BY DEF ChainsInit
<1>3. ChainTypes
  <2>1. op.elicitRound <= Len(op.elicitations) /\ op.hopMark <= hopClock /\ since <= hopClock
    BY <1>1, <1>2
  <2>2. spent \in [server : Nat, client : Nat]
    BY <1>2
  <2>3. rounds \in Seq(Rounds)
    BY <1>2
  <2>4. odd \in BOOLEAN
    BY <1>2
  <2> QED  BY <1>1, <1>2, <2>1, <2>2, <2>3, <2>4 DEF ChainTypes
<1>4. WhoseTurn /\ Charges
  BY <1>1, <1>2 DEF WhoseTurn, Charges
<1>5. Newest /\ Rows
  BY <1>1, <1>2 DEF Newest, Rows
<1> QED  BY <1>3, <1>4, <1>5 DEF ChainInv

(* What leaves the questions and the rounds alone leaves what is said of them alone. *)
LEMMA QuestionsStay ==
  ASSUME ChainInv, odd => odd', UNCHANGED rounds, op'.elicitations = op.elicitations,
         op'.elicitRound = op.elicitRound, turn' = "client" => turn = "client"
  PROVE  Newest' /\ Rows'
<1>1. Newest'
  BY DEF ChainInv, Newest
<1>2. Rows'
  BY DEF ChainInv, Rows, RoundOf, RowOf
<1> QED  BY <1>1, <1>2

(* A frame by which the server's turn ends, or one that finds the client's, which is odd. *)
LEMMA ServerIsCharged ==
  ASSUME ChainInv, NEW to \in {"server", "nobody"}, HandsOver(to), turn # "nobody",
         UNCHANGED <<rounds, hopClock>>, odd' = (odd \/ turn = "client"),
         LET m == MarkHop(op, "serverTime")
         IN  /\ op' \in Ops /\ op'.serverTime = m.serverTime /\ op'.clientTime = m.clientTime
             /\ op'.hopMark = m.hopMark /\ op'.elicitations = m.elicitations /\ op'.elicitRound = m.elicitRound,
         WhoseTurn'
  PROVE  ChainInv'
<1>0. ChainTypes /\ Charges
  BY DEF ChainInv
<1>1. op \in Ops /\ op.hopMark <= hopClock /\ hopClock \in Nat
  BY <1>0 DEF ChainTypes
<1>2. /\ op'.serverTime = op.serverTime + (hopClock - op.hopMark) /\ op'.clientTime = op.clientTime
      /\ op'.hopMark = hopClock /\ op'.elicitations = op.elicitations /\ op'.elicitRound = op.elicitRound
  BY <1>1, MarkedServer
<1>3. /\ spent' \in [server : Nat, client : Nat] /\ since' = hopClock /\ turn' = to
      /\ turn = "server" => spent'.server = spent.server + (hopClock - since) /\ spent'.client = spent.client
  BY <1>0, HandedOver
<1>4. ChainTypes'
  BY <1>0, <1>1, <1>2, <1>3 DEF ChainTypes
<1>5. Charges'
  BY <1>0, <1>2, <1>3 DEF Charges, ChainTypes
<1>6. Newest' /\ Rows'
  BY <1>2, <1>3, QuestionsStay
<1> QED  BY <1>4, <1>5, <1>6 DEF ChainInv

(* An operation ends in the server's turn, or in the client's, which is odd. *)
LEMMA EndingCharges ==
  ASSUME ChainInv, CompletesOp \/ TaskEnds \/ CancelsOp \/ LateResult
  PROVE  ChainInv'
<1> DEFINE m == MarkHop(op, "serverTime")
<1>0. ChainTypes /\ WhoseTurn /\ op \in Ops /\ op.hopMark <= hopClock /\ hopClock \in Nat
  BY DEF ChainInv, ChainTypes
<1>1. m \in Ops /\ m.state = op.state /\ m.task = op.task /\ m.late = op.late
  BY <1>0, MarkedServer
<1> HIDE DEF m
<1>2. CASE CompletesOp
  <2>1. /\ op.state = "pending" /\ ~op.task /\ turn = "server" /\ op' = [m EXCEPT !.state = "completed"]
        /\ HandsOver("nobody") /\ UNCHANGED <<hopClock, rounds, odd>>
    BY <1>2 DEF CompletesOp, m
  <2>2. /\ op' \in Ops /\ op'.serverTime = m.serverTime /\ op'.clientTime = m.clientTime
        /\ op'.hopMark = m.hopMark /\ op'.elicitations = m.elicitations /\ op'.elicitRound = m.elicitRound
        /\ op'.state = "completed" /\ op'.task = m.task
    BY <1>1, <2>1 DEF Ops
  <2>3. WhoseTurn'
    BY <1>1, <2>1, <2>2 DEF WhoseTurn, HandsOver
  <2>4. odd' = (odd \/ turn = "client")
    BY <1>0, <2>1 DEF ChainTypes
  <2> QED  BY <2>1, <2>2, <2>3, <2>4, ServerIsCharged DEF m
<1>3. CASE TaskEnds
  <2>1. /\ op.state = "pending" /\ op.task /\ op' = [m EXCEPT !.state = "completed"]
        /\ HandsOver("nobody") /\ UNCHANGED <<hopClock, rounds, odd>>
    BY <1>3 DEF TaskEnds, m
  <2>2. /\ op' \in Ops /\ op'.serverTime = m.serverTime /\ op'.clientTime = m.clientTime
        /\ op'.hopMark = m.hopMark /\ op'.elicitations = m.elicitations /\ op'.elicitRound = m.elicitRound
        /\ op'.state = "completed" /\ op'.task = m.task
    BY <1>1, <2>1 DEF Ops
  <2>3. turn = "server"
    BY <1>0, <2>1 DEF WhoseTurn, ChainTypes
  <2>4. WhoseTurn'
    BY <1>1, <2>1, <2>2 DEF WhoseTurn, HandsOver
  <2>5. odd' = (odd \/ turn = "client")
    BY <1>0, <2>1, <2>3 DEF ChainTypes
  <2> QED  BY <2>1, <2>2, <2>3, <2>4, <2>5, ServerIsCharged DEF m
<1>4. CASE CancelsOp
  <2>1. /\ op.state = "pending" /\ ~op.task /\ op' = [m EXCEPT !.state = "cancelled"]
        /\ HandsOver("server") /\ UNCHANGED <<hopClock, rounds>> /\ odd' = (odd \/ turn = "client")
    BY <1>4 DEF CancelsOp, m
  <2>2. /\ op' \in Ops /\ op'.serverTime = m.serverTime /\ op'.clientTime = m.clientTime
        /\ op'.hopMark = m.hopMark /\ op'.elicitations = m.elicitations /\ op'.elicitRound = m.elicitRound
        /\ op'.state = "cancelled" /\ op'.task = m.task
    BY <1>1, <2>1 DEF Ops
  <2>3. turn # "nobody"
    BY <1>0, <2>1 DEF WhoseTurn
  <2>4. WhoseTurn'
    BY <1>1, <2>1, <2>2 DEF WhoseTurn, HandsOver
  <2> QED  BY <2>1, <2>2, <2>3, <2>4, ServerIsCharged DEF m
<1>5. CASE LateResult
  <2>1. /\ op.state = "cancelled" /\ ~op.late /\ op' = [m EXCEPT !.late = TRUE]
        /\ HandsOver("nobody") /\ UNCHANGED <<hopClock, rounds, odd>>
    BY <1>5 DEF LateResult, m
  <2>2. /\ op' \in Ops /\ op'.serverTime = m.serverTime /\ op'.clientTime = m.clientTime
        /\ op'.hopMark = m.hopMark /\ op'.elicitations = m.elicitations /\ op'.elicitRound = m.elicitRound
        /\ op'.state = "cancelled" /\ op'.task = m.task /\ op'.late
    BY <1>1, <2>1 DEF Ops
  <2>3. turn = "server"
    BY <1>0, <2>1 DEF WhoseTurn
  <2>4. WhoseTurn'
    BY <1>1, <2>1, <2>2 DEF WhoseTurn, HandsOver
  <2>5. odd' = (odd \/ turn = "client")
    BY <1>0, <2>1, <2>3 DEF ChainTypes
  <2> QED  BY <2>1, <2>2, <2>3, <2>4, <2>5, ServerIsCharged DEF m
<1> QED  BY <1>2, <1>3, <1>4, <1>5

(* Time passes, the store lets go of frames, or the operation becomes a task. *)
LEMMA WaitingKeeps ==
  ASSUME ChainInv, HandsOpTask \/ Drops \/ HopTimePasses
  PROVE  ChainInv'
<1>0. ChainTypes /\ WhoseTurn /\ Charges /\ op \in Ops
  BY DEF ChainInv, ChainTypes
<1>1. CASE HandsOpTask
  <2>1. /\ op.state = "pending" /\ turn = "server" /\ op' = [op EXCEPT !.task = TRUE]
        /\ UNCHANGED <<hopClock, turn, since, spent, rounds, odd>>
    BY <1>1 DEF HandsOpTask, Truth
  <2>2. /\ op' \in Ops /\ op'.serverTime = op.serverTime /\ op'.clientTime = op.clientTime /\ op'.late = op.late
        /\ op'.hopMark = op.hopMark /\ op'.elicitations = op.elicitations /\ op'.elicitRound = op.elicitRound
        /\ op'.state = "pending"
    BY <1>0, <2>1 DEF Ops
  <2>3. ChainTypes' /\ WhoseTurn' /\ Charges'
    BY <1>0, <2>1, <2>2 DEF ChainTypes, WhoseTurn, Charges
  <2> QED  BY <2>1, <2>2, <2>3, QuestionsStay DEF ChainInv
<1>2. CASE Drops \/ HopTimePasses
  <2>1. UNCHANGED <<op, turn, since, spent, rounds, odd>> /\ hopClock' \in {hopClock, hopClock + 1}
    BY <1>2 DEF Drops, HopTimePasses, Truth
  <2>2. hopClock' \in Nat /\ op.hopMark <= hopClock' /\ since <= hopClock'
    <3>1. op.hopMark \in Nat
      BY <1>0 DEF Ops
    <3> QED  BY <1>0, <2>1, <3>1 DEF ChainTypes
  <2>3. ChainTypes' /\ WhoseTurn' /\ Charges'
    BY <1>0, <2>1, <2>2 DEF ChainTypes, WhoseTurn, Charges
  <2> QED  BY <2>1, <2>3, QuestionsStay DEF ChainInv
<1> QED  BY <1>1, <1>2

-----------------------------------------------------------------------------
(* A round is put with the others, but for one that repeats the last. *)
LEMMA Parking ==
  ASSUME ChainTypes, NEW asks \in SUBSET Key, Parks(asks)
  PROVE  LET parsed == ParseElicitations(asks)
             same   == SameElicitRound(LastRound(op), parsed)
         IN  /\ op' \in Ops /\ op'.state = op.state /\ op'.task = op.task /\ op'.late = op.late
             /\ op'.elicitRound <= Len(op'.elicitations) /\ op'.hopMark <= hopClock
             /\ same => op' = op
             /\ ~same => /\ op'.serverTime = op.serverTime + (hopClock - op.hopMark) /\ op'.hopMark = hopClock
                         /\ op'.clientTime = op.clientTime
                         /\ op'.elicitRound = Len(op.elicitations)
                         /\ op'.elicitations = op.elicitations \o parsed
<1> DEFINE parsed == ParseElicitations(asks)
           same   == SameElicitRound(LastRound(op), parsed)
           m      == MarkHop(op, "serverTime")
<1>0. op \in Ops /\ op.hopMark <= hopClock /\ hopClock \in Nat /\ op.elicitations \in Seq(Questions)
      /\ op.elicitRound <= Len(op.elicitations)
  BY DEF ChainTypes, Ops
<1>1. op' = IF same THEN op ELSE [m EXCEPT !.elicitRound = Len(op.elicitations), !.elicitations = @ \o parsed]
  BY DEF Parks
<1>2. /\ m \in Ops /\ m.serverTime = op.serverTime + (hopClock - op.hopMark) /\ m.hopMark = hopClock
      /\ m.clientTime = op.clientTime /\ m.elicitations = op.elicitations
      /\ m.state = op.state /\ m.task = op.task /\ m.late = op.late
  BY <1>0, MarkedServer
<1>3. parsed \in Seq(Questions)
  BY <1>0, Parsed
<1> HIDE DEF same, m, parsed
<1>4. CASE same
  BY <1>0, <1>1, <1>4 DEF same, parsed
<1>5. CASE ~same
  <2> DEFINE es == op.elicitations \o parsed
             k  == Len(op.elicitations)
  <2>1. es \in Seq(Questions) /\ k \in Nat /\ k <= Len(es)
    BY <1>0, <1>3
  <2>2. op' = [m EXCEPT !.elicitRound = k, !.elicitations = es]
    BY <1>1, <1>2, <1>5
  <2> HIDE DEF es, k
  <2>3. /\ op' \in Ops /\ op'.state = m.state /\ op'.task = m.task /\ op'.late = m.late
        /\ op'.elicitRound = k /\ op'.elicitations = es
        /\ op'.serverTime = m.serverTime /\ op'.clientTime = m.clientTime /\ op'.hopMark = m.hopMark
    BY <1>2, <2>1, <2>2 DEF Ops
  <2> QED  BY <1>0, <1>2, <1>5, <2>1, <2>3 DEF same, parsed, es, k
<1> QED  BY <1>4, <1>5

(* A result that asks puts its questions behind the others, each of the new round. *)
LEMMA AskingRecords ==
  ASSUME ChainInv, AsksInput
  PROVE  ChainInv'
<1>0. ChainTypes /\ WhoseTurn /\ Charges /\ Newest /\ Rows
  BY DEF ChainInv
<1> DEFINE n == Len(rounds)
           Put(asks) == [keys |-> asks, at |-> hopClock, said |-> [k \in Key |-> Unanswered], when |-> 0]
<1>1. PICK asks \in SUBSET Key :
        /\ Parks(asks) /\ rounds' = Append(rounds, Put(asks))
        /\ odd' = (odd \/ (rounds # <<>> /\ asks # {} /\ rounds[n].keys = asks))
  BY DEF AsksInput
<1>2. op.state = "pending" /\ ~op.task /\ turn = "server" /\ HandsOver("client") /\ UNCHANGED hopClock
  BY DEF AsksInput
<1> DEFINE parsed == ParseElicitations(asks)
           same   == SameElicitRound(LastRound(op), parsed)
           r      == Put(asks)
           es     == op.elicitations
<1>3. /\ op' \in Ops /\ op'.state = op.state /\ op'.task = op.task /\ op'.late = op.late
      /\ op'.elicitRound <= Len(op'.elicitations) /\ op'.hopMark <= hopClock
      /\ same => op' = op
      /\ ~same => /\ op'.serverTime = op.serverTime + (hopClock - op.hopMark) /\ op'.hopMark = hopClock
                  /\ op'.clientTime = op.clientTime
                  /\ op'.elicitRound = Len(op.elicitations)
                  /\ op'.elicitations = op.elicitations \o parsed
  BY <1>0, <1>1, Parking
<1>4. /\ spent' \in [server : Nat, client : Nat] /\ since' = hopClock /\ turn' = "client"
      /\ spent'.server = spent.server + (hopClock - since) /\ spent'.client = spent.client
  BY <1>0, <1>2, HandedOver
<1>5. hopClock \in Nat /\ op \in Ops /\ es \in Seq(Questions) /\ rounds \in Seq(Rounds) /\ n \in Nat
  BY <1>0 DEF ChainTypes, Ops
<1>6. r \in Rounds /\ r.keys = asks /\ r.at = hopClock /\ \A k \in Key : r.said[k] = Unanswered
  BY <1>5 DEF Rounds, Actions
<1> HIDE DEF Put
<1>7. /\ rounds' \in Seq(Rounds) /\ Len(rounds') = n + 1 /\ rounds' # <<>> /\ rounds'[n + 1] = r
      /\ \A j \in 1 .. n : rounds'[j] = rounds[j]
  BY <1>1, <1>5, <1>6
<1>8. /\ parsed \in Seq(Questions) /\ Len(parsed) = Cardinality(asks) /\ Cardinality(asks) \in Nat
      /\ \A i \in 1 .. Cardinality(asks) :
           parsed[i] = Question(SetToSeq(asks)[i]) /\ SetToSeq(asks)[i] \in asks
  BY <1>5, Parsed
<1>9. ~odd' => ~odd /\ ~same
  <2> SUFFICES ASSUME ~odd', same PROVE FALSE
    BY <1>1
  <2>1. ~odd /\ (rounds # <<>> /\ asks # {} => rounds[n].keys # asks)
    BY <1>1
  <2>2. CASE asks # {}
    BY <2>1, <2>2, SameRound
  <2>3. CASE asks = {}
    <3>1. Len(parsed) = 0
      BY <1>8, <2>3, FS_EmptySet
    <3>2. Len(LastRound(op)) = 0 /\ LastRound(op) # <<>>
      BY <3>1 DEF SameElicitRound
    <3>3. op.elicitRound \in Nat /\ Len(es) \in Nat
      BY <1>5 DEF Ops
    <3> QED  BY <1>0, <3>2, <3>3, LastOnes
  <2> QED  BY <2>2, <2>3
<1> HIDE DEF same, parsed, r
<1>a. ChainTypes'
  <2>1. odd' \in BOOLEAN
    BY <1>0, <1>1 DEF ChainTypes
  <2> QED  BY <1>2, <1>3, <1>4, <1>5, <1>7, <2>1 DEF ChainTypes
<1>b. WhoseTurn'
  BY <1>2, <1>3, <1>4, <1>7 DEF WhoseTurn
<1>c. Charges'
  BY <1>0, <1>3, <1>4, <1>9 DEF Charges
<1>d. ASSUME ~odd' PROVE /\ Len(op'.elicitations) = op'.elicitRound + Cardinality(asks)
                         /\ op'.elicitRound = Len(es) /\ Len(es) \in Nat
                         /\ \A i \in 1 .. Len(es) : op'.elicitations[i] = es[i]
                         /\ \A i \in 1 .. Cardinality(asks) : op'.elicitations[Len(es) + i] = Question(SetToSeq(asks)[i])
  <2>1. op'.elicitRound = Len(es) /\ op'.elicitations = es \o parsed
    BY <1>3, <1>9, <1>d
  <2>2. /\ Len(es \o parsed) = Len(es) + Len(parsed) /\ Len(es) \in Nat
        /\ \A i \in 1 .. Len(es) + Len(parsed) : (es \o parsed)[i] = IF i <= Len(es) THEN es[i] ELSE parsed[i - Len(es)]
    <3>1. es \in Seq(Questions) /\ parsed \in Seq(Questions)
      BY <1>5, <1>8
    <3> HIDE DEF es
    <3> QED  BY <3>1, ConcatProperties
  <2>3. ASSUME NEW i \in 1 .. Cardinality(asks) PROVE op'.elicitations[Len(es) + i] = Question(SetToSeq(asks)[i])
    <3>1. Len(es) + i \in 1 .. Len(es) + Len(parsed) /\ ~(Len(es) + i <= Len(es)) /\ Len(es) + i - Len(es) = i
      BY <1>8, <2>2
    <3> QED  BY <1>8, <2>1, <2>2, <3>1
  <2> QED  BY <1>8, <2>1, <2>2, <2>3
<1>e. Newest'
  <2> SUFFICES ASSUME ~odd'
               PROVE  LET ks == rounds'[Len(rounds')].keys IN
                      /\ Len(op'.elicitations) = op'.elicitRound + Cardinality(ks)
                      /\ \A i \in 1 .. Cardinality(ks) : op'.elicitations[op'.elicitRound + i].key = SetToSeq(ks)[i]
                      /\ \A k \in Key : rounds'[Len(rounds')].said[k] = Unanswered
    BY <1>7 DEF Newest
  <2>1. rounds'[Len(rounds')] = r /\ r.keys = asks
    BY <1>6, <1>7 DEF r
  <2>2. \A i \in 1 .. Cardinality(asks) : op'.elicitations[op'.elicitRound + i].key = SetToSeq(asks)[i]
    <3> SUFFICES ASSUME NEW i \in 1 .. Cardinality(asks)
                 PROVE  op'.elicitations[op'.elicitRound + i].key = SetToSeq(asks)[i]
      OBVIOUS
    <3>1. op'.elicitations[op'.elicitRound + i] = Question(SetToSeq(asks)[i])
      BY <1>d
    <3> QED  BY <3>1 DEF Question
  <2>3. \A k \in Key : r.said[k] = Unanswered
    BY <1>6 DEF r
  <2> QED  BY <1>d, <2>1, <2>2, <2>3
<1>f. Rows'
  <2> SUFFICES ASSUME ~odd', NEW i \in 1 .. Len(op'.elicitations)
               PROVE  \E j \in 1 .. Len(rounds') : RoundOf(i, j)'
    BY DEF Rows
  <2>1. CASE i <= Len(es)
    <3>a. ~odd /\ i \in 1 .. Len(es)
      BY <1>9, <1>d, <2>1
    <3>1. PICK j \in 1 .. n : RoundOf(i, j)
      BY <1>0, <3>a DEF Rows
    <3>2. op'.elicitations[i] = es[i] /\ rounds'[j] = rounds[j] /\ ~(i > op'.elicitRound) /\ j # Len(rounds')
      <4>1. op'.elicitations[i] = es[i] /\ op'.elicitRound = Len(es) /\ Len(es) \in Nat
        BY <1>d, <2>1
      <4>2. rounds'[j] = rounds[j] /\ j # Len(rounds')
        BY <1>5, <1>7, <3>1
      <4> QED  BY <2>1, <4>1, <4>2
    <3>3. RoundOf(i, j)'
      BY <3>1, <3>2 DEF RoundOf, RowOf
    <3> QED  BY <1>5, <1>7, <3>1, <3>3
  <2>2. CASE ~(i <= Len(es))
    <3>1. i - Len(es) \in 1 .. Cardinality(asks) /\ i = Len(es) + (i - Len(es))
      BY <1>8, <1>d, <2>2
    <3> DEFINE x == SetToSeq(asks)[i - Len(es)]
    <3>2. op'.elicitations[i] = Question(x) /\ x \in asks /\ x \in Key
      BY <1>8, <1>d, <3>1
    <3> HIDE DEF x
    <3>3. RowOf(r, x) = Question(x)
      BY <1>6, <3>2 DEF RowOf, Question, r
    <3>4. Question(x).key = x
      BY DEF Question
    <3>5. rounds'[Len(rounds')] = r /\ r.keys = asks /\ i > op'.elicitRound
      BY <1>6, <1>7, <1>d, <2>2 DEF r
    <3>6. PICK j \in 1 .. Len(rounds') : j = Len(rounds')
      BY <1>5, <1>7
    <3>7. op'.elicitations[i].key = x /\ rounds'[j].keys = asks /\ op'.elicitations[i] = RowOf(rounds'[j], x)
      BY <3>2, <3>3, <3>4, <3>5, <3>6
    <3>8. RoundOf(i, j)'
      BY <3>2, <3>5, <3>6, <3>7 DEF RoundOf, RowOf
    <3> QED  BY <3>8
  <2> QED  BY <2>1, <2>2
<1> QED  BY <1>a, <1>b, <1>c, <1>e, <1>f DEF ChainInv

(* A result sent again is taken for the round it repeats, and changes nothing. *)
LEMMA ResendingKeeps ==
  ASSUME ChainInv, Resends
  PROVE  ChainInv'
<1> DEFINE asks == rounds[Len(rounds)].keys
<1>0. ChainTypes /\ WhoseTurn /\ Charges
  BY DEF ChainInv
<1>1. /\ op.state = "pending" /\ turn = "client" /\ Parks(asks) /\ odd' = (odd \/ asks = {})
      /\ UNCHANGED <<hopClock, turn, since, spent, rounds>>
  BY DEF Resends
<1>2. rounds # <<>>
  BY <1>0, <1>1 DEF WhoseTurn
<1>3. asks \in SUBSET Key
  <2>1. rounds[Len(rounds)] \in Rounds
    BY <1>0, <1>2 DEF ChainTypes
  <2> QED  BY <2>1 DEF Rounds
<1> HIDE DEF asks
<1>4. /\ op' \in Ops /\ op'.state = op.state /\ op'.task = op.task /\ op'.late = op.late
      /\ op'.elicitRound <= Len(op'.elicitations) /\ op'.hopMark <= hopClock
      /\ SameElicitRound(LastRound(op), ParseElicitations(asks)) => op' = op
  BY <1>0, <1>1, <1>3, Parking
<1>5. ~odd' => ~odd /\ op' = op
  BY <1>1, <1>2, <1>3, <1>4, SameRound DEF asks
<1>6. odd' \in BOOLEAN
  BY <1>0, <1>1 DEF ChainTypes
<1>7. ChainTypes' /\ WhoseTurn' /\ Charges'
  BY <1>0, <1>1, <1>4, <1>5, <1>6 DEF ChainTypes, WhoseTurn, Charges
<1>8. Newest' /\ Rows'
  <2>1. CASE odd'
    BY <2>1 DEF Newest, Rows
  <2>2. CASE ~odd'
    BY <1>1, <1>5, <2>2, QuestionsStay
  <2> QED  BY <2>1, <2>2
<1> QED  BY <1>7, <1>8 DEF ChainInv

(* A retry answers questions of the newest round, and no others. *)
LEMMA RetryingAnswers ==
  ASSUME ChainInv, RetriesOp
  PROVE  ChainInv'
<1> DEFINE n  == Len(rounds)
           es == op.elicitations
<1>0. ChainTypes /\ WhoseTurn /\ Charges /\ Newest /\ Rows
  BY DEF ChainInv
<1>1. PICK said \in [Key -> Actions] :
        /\ op' = [MarkHop([op EXCEPT !.elicitations = AnswersRound(op, said)], "clientTime") EXCEPT !.hops = @ + 1]
        /\ rounds' = [rounds EXCEPT ![n].said = said, ![n].when = hopClock]
  BY DEF RetriesOp, Actions
<1>2. op.state = "pending" /\ turn = "client" /\ HandsOver("server") /\ UNCHANGED <<hopClock, odd>>
  BY DEF RetriesOp
<1>3. /\ hopClock \in Nat /\ op \in Ops /\ es \in Seq(Questions) /\ rounds \in Seq(Rounds) /\ rounds # <<>>
      /\ op.hopMark <= hopClock /\ op.elicitRound \in Nat /\ op.elicitRound <= Len(es)
      /\ n \in Nat /\ n >= 1
  BY <1>0, <1>2 DEF ChainTypes, WhoseTurn, Ops
<1> DEFINE fs == AnswersRound(op, said)
           Answered(e) == [e EXCEPT !.action = said[e.key], !.answered = hopClock]
<1>4. /\ fs \in Seq(Questions) /\ Len(fs) = Len(es)
      /\ \A i \in 1 .. Len(es) :
           /\ fs[i].key = es[i].key
           /\ fs[i] = es[i] \/ (i > op.elicitRound /\ fs[i] = Answered(es[i]))
           /\ i > op.elicitRound /\ es[i].action = Unanswered /\ said[es[i].key] # Unanswered => fs[i] = Answered(es[i])
           /\ i <= op.elicitRound \/ said[es[i].key] = Unanswered => fs[i] = es[i]
  <2>1. \A i \in 1 .. Len(es) : es[i] \in Questions
    BY <1>3
  <2>2. \A e \in Questions : Answered(e) \in Questions /\ Answered(e).key = e.key
    BY <1>3 DEF Questions
  <2>3. fs = [i \in 1 .. Len(es) |->
                IF i <= op.elicitRound \/ es[i].action # Unanswered \/ said[es[i].key] = Unanswered THEN es[i]
                ELSE Answered(es[i])]
    BY <1>3 DEF AnswersRound
  <2> HIDE DEF fs, Answered
  <2>4. fs \in [1 .. Len(es) -> Questions]
    BY <2>1, <2>2, <2>3
  <2>5. fs \in Seq(Questions) /\ Len(fs) = Len(es)
    BY <1>3, <2>4
  <2>6. op.elicitRound \in Nat
    BY <1>3
  <2> QED  BY <2>1, <2>2, <2>3, <2>5, <2>6
<1> HIDE DEF fs
<1> DEFINE c == [op EXCEPT !.elicitations = fs]
           m == MarkHop(c, "clientTime")
<1>5. /\ c \in Ops /\ c.elicitations = fs /\ c.elicitRound = op.elicitRound /\ c.hopMark = op.hopMark
      /\ c.serverTime = op.serverTime /\ c.clientTime = op.clientTime
      /\ c.state = op.state /\ c.task = op.task /\ c.late = op.late
  BY <1>3, <1>4 DEF Ops
<1> HIDE DEF c
<1>6. /\ m \in Ops /\ m.clientTime = op.clientTime + (hopClock - op.hopMark) /\ m.hopMark = hopClock
      /\ m.serverTime = op.serverTime /\ m.elicitations = fs /\ m.elicitRound = op.elicitRound
      /\ m.state = op.state /\ m.task = op.task /\ m.late = op.late
  BY <1>3, <1>5, MarkedClient
<1> HIDE DEF m
<1>7. op' = [m EXCEPT !.hops = @ + 1]
  BY <1>1 DEF m, c, fs
<1>8. /\ op' \in Ops /\ op'.clientTime = op.clientTime + (hopClock - op.hopMark) /\ op'.hopMark = hopClock
      /\ op'.serverTime = op.serverTime /\ op'.elicitations = fs /\ op'.elicitRound = op.elicitRound
      /\ op'.state = op.state /\ op'.task = op.task /\ op'.late = op.late
  BY <1>6, <1>7 DEF Ops
<1>9. /\ spent' \in [server : Nat, client : Nat] /\ since' = hopClock /\ turn' = "server"
      /\ spent'.client = spent.client + (hopClock - since) /\ spent'.server = spent.server
  BY <1>0, <1>2, HandedOver
<1>a. /\ rounds' \in Seq(Rounds) /\ Len(rounds') = n /\ rounds' # <<>>
      /\ \A j \in 1 .. n : j # n => rounds'[j] = rounds[j]
      /\ rounds'[n].keys = rounds[n].keys /\ rounds'[n].at = rounds[n].at
      /\ rounds'[n].said = said /\ rounds'[n].when = hopClock
  <2> DEFINE r == [rounds[n] EXCEPT !.said = said, !.when = hopClock]
  <2>1. rounds[n] \in Rounds /\ n \in 1 .. n
    BY <1>3
  <2>2. r \in Rounds /\ r.keys = rounds[n].keys /\ r.at = rounds[n].at /\ r.said = said /\ r.when = hopClock
    BY <1>3, <2>1 DEF Rounds
  <2>3. rounds' = [rounds EXCEPT ![n] = r]
    BY <1>1, <1>3
  <2> HIDE DEF r
  <2> QED  BY <1>3, <2>1, <2>2, <2>3
<1>b. ChainTypes'
  <2>1. op'.elicitRound <= Len(op'.elicitations)
    BY <1>3, <1>4, <1>8
  <2>2. hopClock' \in Nat /\ op'.hopMark <= hopClock' /\ since' \in Nat /\ since' <= hopClock'
    BY <1>2, <1>3, <1>8, <1>9
  <2>3. odd' \in BOOLEAN
    BY <1>0, <1>2 DEF ChainTypes
  <2> QED  BY <1>8, <1>9, <1>a, <2>1, <2>2, <2>3 DEF ChainTypes
<1>c. WhoseTurn' /\ Charges'
  BY <1>0, <1>2, <1>8, <1>9 DEF WhoseTurn, Charges
<1>d. Newest'
  <2> SUFFICES ASSUME ~odd
               PROVE  LET ks == rounds'[Len(rounds')].keys IN
                      /\ Len(op'.elicitations) = op'.elicitRound + Cardinality(ks)
                      /\ \A i \in 1 .. Cardinality(ks) : op'.elicitations[op'.elicitRound + i].key = SetToSeq(ks)[i]
    BY <1>2, <1>9, <1>a DEF Newest
  <2> DEFINE ks == rounds[n].keys
  <2>1. /\ Len(es) = op.elicitRound + Cardinality(ks)
        /\ \A i \in 1 .. Cardinality(ks) : es[op.elicitRound + i].key = SetToSeq(ks)[i]
    BY <1>0, <1>3 DEF Newest
  <2>2. ks \in SUBSET Key
    <3>1. rounds[n] \in Rounds
      BY <1>3
    <3> QED  BY <3>1 DEF Rounds
  <2>3. Cardinality(ks) \in Nat
    BY <2>2, KeysFinite, InOrder
  <2> HIDE DEF ks
  <2>4. ASSUME NEW i \in 1 .. Cardinality(ks) PROVE fs[op.elicitRound + i].key = SetToSeq(ks)[i]
    <3>1. op.elicitRound + i \in 1 .. Len(es)
      BY <1>3, <2>1, <2>3
    <3> QED  BY <1>4, <2>1, <3>1
  <2>5. Len(fs) = op.elicitRound + Cardinality(ks) /\ rounds'[Len(rounds')].keys = ks
    BY <1>4, <1>a, <2>1 DEF ks
  <2>6. op'.elicitations = fs /\ op'.elicitRound = op.elicitRound
    BY <1>8
  <2> QED  BY <2>4, <2>5, <2>6
<1>e. Rows'
  <2> SUFFICES ASSUME ~odd, NEW i \in 1 .. Len(es)
               PROVE  \E j \in 1 .. n : RoundOf(i, j)'
    BY <1>2, <1>4, <1>8, <1>a DEF Rows
  <2>1. PICK j \in 1 .. n : RoundOf(i, j)
    BY <1>0 DEF Rows
  <2>2. es[i] \in Questions /\ op'.elicitations = fs /\ fs[i].key = es[i].key
    <3>1. es[i] \in Questions
      BY <1>3
    <3>2. fs[i].key = es[i].key
      BY <1>4
    <3> QED  BY <1>8, <3>1, <3>2
  <2> HIDE DEF Answered
  <2>3. CASE i <= op.elicitRound
    <3>1. fs[i] = es[i] /\ j # n /\ rounds'[j] = rounds[j]
      <4>1. fs[i] = es[i]
        BY <1>4, <2>3
      <4>2. j # n
        BY <1>3, <2>1, <2>3 DEF RoundOf
      <4> QED  BY <1>a, <4>1, <4>2
    <3>2. RoundOf(i, j)'
      BY <1>8, <1>a, <2>1, <2>2, <3>1 DEF RoundOf, RowOf
    <3> QED  BY <3>2
  <2>4. CASE ~(i <= op.elicitRound)
    <3>1. j = n
      BY <1>3, <2>1, <2>4 DEF RoundOf
    <3> DEFINE x == es[i].key
    <3>2. x \in Key /\ x \in rounds[n].keys /\ es[i] = RowOf(rounds[n], x) /\ rounds[n].said[x] = Unanswered
      BY <1>0, <1>2, <2>1, <2>2, <3>1 DEF RoundOf, Questions, Newest
    <3>3. es[i] = [key |-> x, asked |-> rounds[n].at, action |-> Unanswered, answered |-> 0]
      BY <3>2 DEF RowOf
    <3>4. fs[i] = RowOf(rounds'[n], x)
      <4>1. CASE said[x] = Unanswered
        BY <1>4, <1>a, <3>3, <4>1 DEF RowOf
      <4>2. CASE said[x] # Unanswered
        <5>1. es[i].action = Unanswered /\ i > op.elicitRound
          BY <1>3, <2>4, <3>3
        <5>2. fs[i] = Answered(es[i])
          BY <1>4, <4>2, <5>1
        <5>3. fs[i].key = x /\ fs[i].asked = rounds[n].at /\ fs[i].action = said[x] /\ fs[i].answered = hopClock
          <6>1. es[i].key = x /\ es[i].asked = rounds[n].at
            BY <3>3
          <6> QED  BY <2>2, <5>2, <6>1 DEF Answered, Questions
        <5>4. RowOf(rounds'[n], x) = [key |-> x, asked |-> rounds[n].at, action |-> said[x], answered |-> hopClock]
          BY <1>a, <4>2 DEF RowOf
        <5>5. fs[i] \in Questions
          BY <1>4
        <5>6. RowOf(rounds'[n], x) \in Questions
          <6>1. rounds[n].at \in Nat /\ said[x] \in Actions
            <7>1. rounds[n] \in Rounds
              BY <1>3
            <7> QED  BY <3>2, <7>1 DEF Rounds
          <6> QED  BY <1>3, <3>2, <5>4, <6>1 DEF Questions
        <5> QED  BY <5>3, <5>4, <5>5, <5>6, SameQuestion
      <4> QED  BY <4>1, <4>2
    <3> HIDE DEF x
    <3>5. RoundOf(i, j)'
      BY <1>3, <1>8, <1>a, <2>2, <2>4, <3>1, <3>2, <3>4 DEF RoundOf, RowOf, x
    <3> QED  BY <3>5
  <2> QED  BY <2>3, <2>4
<1> QED  BY <1>b, <1>c, <1>d, <1>e DEF ChainInv

-----------------------------------------------------------------------------
(* The operation's invariant: charges up to the mark, the newest round recognised, every question of a round
   (markHop, sameElicitRound, answerCall). *)
THEOREM OperationIsSound == ChainsSpec => []ChainInv
<1>1. ChainInv /\ [ChainsNext]_chainVars => ChainInv'
  <2>1. ASSUME ChainInv, ChainsNext PROVE ChainInv'
    BY <2>1, AskingRecords, ResendingKeeps, RetryingAnswers, EndingCharges, WaitingKeeps DEF ChainsNext
  <2>2. ASSUME ChainInv, UNCHANGED chainVars PROVE ChainInv'
    <3>1. ChainTypes' /\ WhoseTurn' /\ Charges'
      BY <2>2 DEF chainVars, ChainInv, ChainTypes, WhoseTurn, Charges
    <3> QED  BY <2>2, <3>1, QuestionsStay DEF chainVars, ChainInv
  <2> QED  BY <2>1, <2>2
<1> QED  BY <1>1, ChainsStart, PTL DEF ChainsSpec

(* Each side is charged what it took, for any number of rounds (markHop). *)
THEOREM SidesAreCharged == ChainsSpec => []ChargedRightly
<1>1. ChainInv => ChargedRightly
  BY DEF ChainInv, Charges, ChargedRightly
<1> QED  BY <1>1, OperationIsSound, PTL

(* A row of the ledger is a question of one round with the answer to that round, for any number of rounds
   (answerCall, el.answer). *)
THEOREM LedgerIsTrue == ChainsSpec => []RowsAreTheirs
<1>1. ChainInv => RowsAreTheirs
  <2> SUFFICES ASSUME ChainInv, ~odd, NEW row \in Ledger
               PROVE  row \in UNION {{RowOf(r, k) : k \in r.keys} : r \in ToSet(rounds)}
    BY DEF RowsAreTheirs
  <2>1. op.elicitations \in Seq(Questions) /\ rounds \in Seq(Rounds)
    BY DEF ChainInv, ChainTypes, Ops
  <2>2. PICK i \in 1 .. Len(op.elicitations) : row = op.elicitations[i]
    BY <2>1 DEF Ledger, ToSet
  <2>3. PICK j \in 1 .. Len(rounds) : RoundOf(i, j)
    BY DEF ChainInv, Rows
  <2>4. rounds[j] \in ToSet(rounds)
    BY <2>1 DEF ToSet
  <2> QED  BY <2>2, <2>3, <2>4 DEF RoundOf
<1> QED  BY <1>1, OperationIsSound, PTL

-----------------------------------------------------------------------------
(* Memory. *)

(* Every set of numbers has a least one: the well-founded order of Nat, with no induction. *)
LEMMA LeastExists == ASSUME NEW T, T \subseteq Nat, T # {} PROVE \E x \in T : \A y \in T : x <= y
<1> DEFINE below == {p \in Nat \X Nat : p[1] < p[2]}
<1>1. IsWellFoundedOn(below, Nat)
  BY NatLessThanWellFounded DEF OpToRel
<1>2. PICK x \in T : \A y \in T : ~ (<<y, x>> \in below)
  <2> HIDE DEF below
  <2> QED BY <1>1, WFMin
<1>3. \A y \in T : y \in Nat /\ x \in Nat /\ ~(y < x)
  BY <1>2
<1> QED BY <1>3

(* What holds of a set when it holds of the set without any one of its elements holds of every finite
   set: a smallest counterexample is none. *)
LEMMA SubsetInduction ==
  ASSUME NEW D, IsFiniteSet(D), NEW P,
         \A s \in SUBSET D : (\A x \in s : s \ {x} \in P) => s \in P
  PROVE  \A s \in SUBSET D : s \in P
<1> DEFINE bad == {s \in SUBSET D : s \notin P}
           T   == {Cardinality(s) : s \in bad}
<1> SUFFICES ASSUME bad # {} PROVE FALSE
  OBVIOUS
<1>1. \A s \in SUBSET D : IsFiniteSet(s) /\ Cardinality(s) \in Nat
  BY FS_Subset, FS_CardinalityType
<1>2. T \subseteq Nat /\ T # {}
  BY <1>1
<1>3. PICK n \in T : \A m \in T : n <= m
  <2> HIDE DEF T
  <2> QED BY <1>2, LeastExists
<1>4. PICK s \in bad : n = Cardinality(s)
  BY <1>3
<1>5. ASSUME NEW x \in s PROVE s \ {x} \in P
  <2>1. Cardinality(s \ {x}) = Cardinality(s) - 1 /\ Cardinality(s) \in Nat
    BY <1>1, <1>4, <1>5, FS_RemoveElement
  <2>2. s \ {x} \notin bad
    <3> SUFFICES ASSUME s \ {x} \in bad PROVE FALSE
      OBVIOUS
    <3>1. Cardinality(s \ {x}) \in T
      OBVIOUS
    <3> HIDE DEF T
    <3> QED BY <1>3, <1>4, <2>1, <3>1
  <2> QED BY <2>2
<1> QED BY <1>4, <1>5

-----------------------------------------------------------------------------
(* Sums.  What FoldFunctionOnSet computes with + does not depend on the order it takes: both the
   fold and the sum of its definition are the number of units above zero less the number below. *)
SumOn(f, S) == FoldFunctionOnSet(+, 0, f, S)
Parts(f, S) == UNION {{x} \X (1 .. f[x]) : x \in S}
Negated(f) == [x \in DOMAIN f |-> -f[x]]
Balance(f, S) == Cardinality(Parts(f, S)) - Cardinality(Parts(Negated(f), S))
Numbers(f) == \A x \in DOMAIN f : f[x] \in Int
NoLess(n) == IF n > 0 THEN n ELSE 0

(* A unit belongs to the row of one element. *)
LEMMA PartsAre ==
  ASSUME NEW f, NEW S, NEW u
  PROVE  u \in Parts(f, S) <=> \E x \in S : \E k \in 1 .. f[x] : u = <<x, k>>
<1>1. ASSUME NEW x PROVE u \in {x} \X (1 .. f[x]) <=> \E k \in 1 .. f[x] : u = <<x, k>>
  OBVIOUS
<1> QED BY <1>1 DEF Parts

(* A row has as many units as its number says, none for a number below zero. *)
LEMMA RowIsFinite ==
  ASSUME NEW x, NEW n \in Int
  PROVE  IsFiniteSet({x} \X (1 .. n)) /\ Cardinality({x} \X (1 .. n)) = NoLess(n)
<1>1. /\ IsFiniteSet(1 .. n) /\ Cardinality(1 .. n) = NoLess(n)
  BY FS_Interval DEF NoLess
<1>2. IsFiniteSet({x}) /\ Cardinality({x}) = 1
  BY FS_Singleton
<1>3. NoLess(n) \in Nat
  BY DEF NoLess
<1> QED BY <1>1, <1>2, <1>3, FS_Product

(* Finitely many numbers have finitely many units. *)
LEMMA PartsFinite ==
  ASSUME NEW f, Numbers(f), NEW S \in SUBSET DOMAIN f, IsFiniteSet(S)
  PROVE  IsFiniteSet(Parts(f, S)) /\ Cardinality(Parts(f, S)) \in Nat
<1> DEFINE P == {s \in SUBSET S : IsFiniteSet(Parts(f, s))}
<1>1. ASSUME NEW s \in SUBSET S, \A x \in s : s \ {x} \in P PROVE IsFiniteSet(Parts(f, s))
  <2>1. CASE s = {}
    <3>1. Parts(f, s) = {}
      BY <2>1 DEF Parts
    <3> QED BY <3>1, FS_EmptySet
  <2>2. CASE s # {}
    <3>1. PICK x \in s : TRUE
      BY <2>2
    <3>2. Parts(f, s) = Parts(f, s \ {x}) \cup ({x} \X (1 .. f[x]))
      BY <3>1 DEF Parts
    <3>3. IsFiniteSet({x} \X (1 .. f[x]))
      BY <3>1, RowIsFinite DEF Numbers
    <3>4. IsFiniteSet(Parts(f, s \ {x}))
      BY <1>1, <3>1
    <3>5. IsFiniteSet(Parts(f, s \ {x}) \cup ({x} \X (1 .. f[x])))
      BY <3>3, <3>4, FS_Union
    <3> QED BY <3>2, <3>5
  <2> QED BY <2>1, <2>2
<1>2. \A s \in SUBSET S : s \in P
  <2>1. \A s \in SUBSET S : (\A x \in s : s \ {x} \in P) => s \in P
    BY <1>1
  <2> HIDE DEF P
  <2> QED BY <2>1, SubsetInduction
<1>3. IsFiniteSet(Parts(f, S))
  BY <1>2
<1> QED BY <1>3, FS_CardinalityType

(* Units of disjoint sets add up. *)
LEMMA PartsJoin ==
  ASSUME NEW f, Numbers(f), NEW S \in SUBSET DOMAIN f, IsFiniteSet(S), NEW T \in SUBSET DOMAIN f, IsFiniteSet(T),
         S \cap T = {}
  PROVE  Cardinality(Parts(f, S \cup T)) = Cardinality(Parts(f, S)) + Cardinality(Parts(f, T))
<1>1. Parts(f, S \cup T) = Parts(f, S) \cup Parts(f, T)
  BY DEF Parts
<1>2. Parts(f, S) \cap Parts(f, T) = {}
  <2> SUFFICES ASSUME NEW u \in Parts(f, S), u \in Parts(f, T) PROVE FALSE
    OBVIOUS
  <2>1. PICK x \in S : \E k \in 1 .. f[x] : u = <<x, k>>
    BY PartsAre
  <2>2. PICK y \in T : \E k \in 1 .. f[y] : u = <<y, k>>
    BY PartsAre
  <2> QED BY <2>1, <2>2
<1>3. /\ IsFiniteSet(Parts(f, S)) /\ Cardinality(Parts(f, S)) \in Nat
      /\ IsFiniteSet(Parts(f, T)) /\ Cardinality(Parts(f, T)) \in Nat
  BY PartsFinite
<1>4. Cardinality(Parts(f, S) \cap Parts(f, T)) = 0
  BY <1>2, FS_EmptySet
<1>5. Cardinality(Parts(f, S) \cup Parts(f, T))
      = Cardinality(Parts(f, S)) + Cardinality(Parts(f, T)) - Cardinality(Parts(f, S) \cap Parts(f, T))
  BY <1>3, FS_Union
<1> DEFINE a == Cardinality(Parts(f, S))
           b == Cardinality(Parts(f, T))
<1>6. Cardinality(Parts(f, S \cup T)) = a + b - 0 /\ a \in Nat /\ b \in Nat
  BY <1>1, <1>3, <1>4, <1>5
<1> HIDE DEF a, b
<1>7. Cardinality(Parts(f, S \cup T)) = a + b
  BY <1>6
<1> QED BY <1>7 DEF a, b

(* So do balances. *)
LEMMA BalanceJoins ==
  ASSUME NEW f, Numbers(f), NEW S \in SUBSET DOMAIN f, IsFiniteSet(S), NEW T \in SUBSET DOMAIN f, IsFiniteSet(T),
         S \cap T = {}
  PROVE  /\ Balance(f, S \cup T) = Balance(f, S) + Balance(f, T)
         /\ Balance(f, S) \in Int /\ Balance(f, T) \in Int
<1>1. Numbers(Negated(f)) /\ DOMAIN Negated(f) = DOMAIN f
  BY DEF Numbers, Negated
<1>2. /\ Cardinality(Parts(f, S)) \in Nat /\ Cardinality(Parts(f, T)) \in Nat
      /\ Cardinality(Parts(Negated(f), S)) \in Nat /\ Cardinality(Parts(Negated(f), T)) \in Nat
  BY <1>1, PartsFinite
<1>3. /\ Cardinality(Parts(f, S \cup T)) = Cardinality(Parts(f, S)) + Cardinality(Parts(f, T))
      /\ Cardinality(Parts(Negated(f), S \cup T)) = Cardinality(Parts(Negated(f), S)) + Cardinality(Parts(Negated(f), T))
  BY <1>1, PartsJoin
<1> QED BY <1>2, <1>3 DEF Balance

(* The balance of one element is its number. *)
LEMMA BalanceOfOne ==
  ASSUME NEW f, Numbers(f), NEW x \in DOMAIN f
  PROVE  Balance(f, {x}) = f[x]
<1>1. Parts(f, {x}) = {x} \X (1 .. f[x]) /\ Parts(Negated(f), {x}) = {x} \X (1 .. -f[x])
  BY DEF Parts, Negated
<1>2. f[x] \in Int /\ -f[x] \in Int
  BY DEF Numbers
<1>3. Cardinality(Parts(f, {x})) = NoLess(f[x]) /\ Cardinality(Parts(Negated(f), {x})) = NoLess(-f[x])
  BY <1>1, <1>2, RowIsFinite
<1> QED BY <1>2, <1>3 DEF Balance, NoLess

(* Of none it is zero. *)
LEMMA BalanceOfNone == ASSUME NEW f PROVE Balance(f, {}) = 0
<1>1. Parts(f, {}) = {} /\ Parts(Negated(f), {}) = {}
  BY DEF Parts
<1> QED BY <1>1, FS_EmptySet DEF Balance

(* Any element can be taken out of a balance. *)
LEMMA BalanceSplits ==
  ASSUME NEW f, Numbers(f), NEW S \in SUBSET DOMAIN f, IsFiniteSet(S), NEW x \in S
  PROVE  Balance(f, S) = f[x] + Balance(f, S \ {x}) /\ Balance(f, S \ {x}) \in Int
<1>1. /\ S = {x} \cup (S \ {x}) /\ {x} \cap (S \ {x}) = {} /\ IsFiniteSet({x}) /\ IsFiniteSet(S \ {x})
      /\ {x} \in SUBSET DOMAIN f /\ S \ {x} \in SUBSET DOMAIN f
  BY FS_Subset, FS_Singleton
<1>2. Balance(f, {x} \cup (S \ {x})) = Balance(f, {x}) + Balance(f, S \ {x}) /\ Balance(f, S \ {x}) \in Int
  BY <1>1, BalanceJoins
<1> QED BY <1>1, <1>2, BalanceOfOne

(* The fold is that balance. *)
Adds(f, S, iter) ==
  iter = [s \in SUBSET S |-> IF s = {} THEN 0 ELSE LET x == CHOOSE y \in s : TRUE IN f[x] + iter[s \ {x}]]

(* What the community module's fold is: the function it chooses, at the whole set. *)
LEMMA SumIsFold == ASSUME NEW f, NEW S PROVE SumOn(f, S) = (CHOOSE iter : Adds(f, S, iter))[S]
BY DEF SumOn, FoldFunctionOnSet, MapThenFoldSet, Adds

(* A sum is the balance of its numbers: the fold's equation has one solution. *)
LEMMA SumIs ==
  ASSUME NEW f, Numbers(f), NEW S \in SUBSET DOMAIN f, IsFiniteSet(S)
  PROVE  SumOn(f, S) = Balance(f, S)
<1> DEFINE by == [s \in SUBSET S |-> Balance(f, s)]
<1>1. Adds(f, S, by)
  <2>1. ASSUME NEW s \in SUBSET S
        PROVE  by[s] = IF s = {} THEN 0 ELSE LET x == CHOOSE y \in s : TRUE IN f[x] + by[s \ {x}]
    <3>1. CASE s = {}
      BY <3>1, BalanceOfNone
    <3>2. CASE s # {}
      <4> DEFINE x == CHOOSE y \in s : TRUE
      <4>1. x \in s
        BY <3>2
      <4> HIDE DEF x
      <4>2. Balance(f, s) = f[x] + Balance(f, s \ {x})
        BY <4>1, FS_Subset, BalanceSplits
      <4>3. s \ {x} \in SUBSET S
        OBVIOUS
      <4> QED BY <3>2, <4>2, <4>3 DEF x
    <3> QED BY <3>1, <3>2
  <2> HIDE DEF by
  <2>2. by = [s \in SUBSET S |-> by[s]]
    BY DEF by
  <2> QED BY <2>1, <2>2 DEF Adds
<1>2. PICK iter : iter = (CHOOSE it : Adds(f, S, it)) /\ Adds(f, S, iter)
  BY <1>1
<1> DEFINE P == {s \in SUBSET S : iter[s] = Balance(f, s)}
<1>3. ASSUME NEW s \in SUBSET S, \A x \in s : s \ {x} \in P PROVE s \in P
  <2>0. iter[s] = IF s = {} THEN 0 ELSE LET x == CHOOSE y \in s : TRUE IN f[x] + iter[s \ {x}]
    BY <1>2 DEF Adds
  <2>1. CASE s = {}
    BY <2>0, <2>1, BalanceOfNone
  <2>2. CASE s # {}
    <3> DEFINE x == CHOOSE y \in s : TRUE
    <3>1. x \in s
      BY <2>2
    <3>2. iter[s] = f[x] + iter[s \ {x}]
      BY <2>0, <2>2
    <3> HIDE DEF x
    <3>3. Balance(f, s) = f[x] + Balance(f, s \ {x})
      BY <3>1, FS_Subset, BalanceSplits
    <3> QED BY <1>3, <3>1, <3>2, <3>3
  <2> QED BY <2>1, <2>2
<1>4. \A s \in SUBSET S : s \in P
  <2> HIDE DEF P
  <2> QED BY <1>3, SubsetInduction
<1>5. iter[S] = Balance(f, S)
  BY <1>4
<1> QED BY <1>2, <1>5, SumIsFold

(* What is needed of sums from here on. *)
LEMMA SumOfNone == ASSUME NEW f, Numbers(f) PROVE SumOn(f, {}) = 0
<1>1. {} \in SUBSET DOMAIN f /\ IsFiniteSet({})
  BY FS_EmptySet
<1> QED BY <1>1, SumIs, BalanceOfNone

(* Sums over disjoint sets add up. *)
LEMMA SumsJoin ==
  ASSUME NEW f, Numbers(f), NEW S \in SUBSET DOMAIN f, IsFiniteSet(S), NEW T \in SUBSET DOMAIN f, IsFiniteSet(T),
         S \cap T = {}
  PROVE  SumOn(f, S \cup T) = SumOn(f, S) + SumOn(f, T) /\ SumOn(f, S) \in Int /\ SumOn(f, T) \in Int
<1>1. IsFiniteSet(S \cup T) /\ S \cup T \in SUBSET DOMAIN f
  BY FS_Union
<1> QED BY <1>1, SumIs, BalanceJoins

(* Any term can be taken out of a sum. *)
LEMMA SumSplits ==
  ASSUME NEW f, Numbers(f), NEW S \in SUBSET DOMAIN f, IsFiniteSet(S), NEW x \in S
  PROVE  SumOn(f, S) = f[x] + SumOn(f, S \ {x}) /\ SumOn(f, S \ {x}) \in Int
<1>1. IsFiniteSet(S \ {x}) /\ S \ {x} \in SUBSET DOMAIN f
  BY FS_Subset
<1> QED BY <1>1, SumIs, BalanceSplits

(* Sums of the same numbers are the same. *)
LEMMA SameSum ==
  ASSUME NEW f, Numbers(f), NEW g, Numbers(g), NEW S, IsFiniteSet(S), S \subseteq DOMAIN f, S \subseteq DOMAIN g,
         \A x \in S : f[x] = g[x]
  PROVE  SumOn(f, S) = SumOn(g, S)
<1>1. Parts(f, S) = Parts(g, S) /\ Parts(Negated(f), S) = Parts(Negated(g), S)
  BY DEF Parts, Negated
<1>2. SumOn(f, S) = Balance(f, S) /\ SumOn(g, S) = Balance(g, S)
  BY SumIs
<1> QED BY <1>1, <1>2 DEF Balance

(* A sum of integers is an integer. *)
LEMMA SumIsNumber ==
  ASSUME NEW f, Numbers(f), NEW S \in SUBSET DOMAIN f, IsFiniteSet(S)
  PROVE  SumOn(f, S) \in Int
BY SumsJoin, SumIs, FS_EmptySet

(* A sum of zeros is zero. *)
LEMMA SumOfZeros ==
  ASSUME NEW f, Numbers(f), IsFiniteSet(DOMAIN f), \A x \in DOMAIN f : f[x] = 0
  PROVE  SumOn(f, DOMAIN f) = 0
<1> DEFINE P == {S \in SUBSET DOMAIN f : SumOn(f, S) = 0}
<1>1. ASSUME NEW S \in SUBSET DOMAIN f, \A x \in S : S \ {x} \in P PROVE SumOn(f, S) = 0
  <2>1. CASE S = {}
    BY <2>1, SumOfNone
  <2>2. CASE S # {}
    <3>1. PICK x \in S : TRUE
      BY <2>2
    <3>2. SumOn(f, S) = f[x] + SumOn(f, S \ {x})
      BY <3>1, FS_Subset, SumSplits
    <3>3. f[x] = 0 /\ SumOn(f, S \ {x}) = 0
      BY <1>1, <3>1
    <3> QED BY <3>2, <3>3
  <2> QED BY <2>1, <2>2
<1>2. \A S \in SUBSET DOMAIN f : (\A x \in S : S \ {x} \in P) => S \in P
  BY <1>1
<1>3. \A S \in SUBSET DOMAIN f : S \in P
  <2> HIDE DEF P
  <2> QED BY <1>2, SubsetInduction
<1> QED BY <1>3

(* A sum after one of its terms changed. *)
LEMMA OneTermChanges ==
  ASSUME NEW f, Numbers(f), NEW g, Numbers(g), DOMAIN g = DOMAIN f, IsFiniteSet(DOMAIN f), NEW x \in DOMAIN f,
         \A y \in DOMAIN f \ {x} : g[y] = f[y]
  PROVE  SumOn(g, DOMAIN f) = SumOn(f, DOMAIN f) - f[x] + g[x]
<1> DEFINE D == DOMAIN f
<1>1. IsFiniteSet(D \ {x}) /\ D \ {x} \subseteq DOMAIN f /\ D \ {x} \subseteq DOMAIN g
  BY FS_Subset
<1>2. SumOn(f, D \ {x}) = SumOn(g, D \ {x})
  BY <1>1, SameSum
<1>3. SumOn(f, D) = f[x] + SumOn(f, D \ {x}) /\ SumOn(f, D \ {x}) \in Int /\ SumOn(g, D) = g[x] + SumOn(g, D \ {x})
  BY SumSplits
<1>4. f[x] \in Int /\ g[x] \in Int
  BY DEF Numbers
<1> QED BY <1>2, <1>3, <1>4

(* What a frame and a call are made of. *)
FrameKind == {"request", "response", "notification", "transport"}
FrameRec == [kind : FrameKind, call : Nat, continues : BOOLEAN, raw : Nat, released : BOOLEAN, ts : Nat]
CallState == {"pending", "completed", "cancelled", "failed"}
CallRec == [state : CallState, parked : BOOLEAN, retired : BOOLEAN, kept : BOOLEAN, params : Nat,
            result : Nat, releasedResultBytes : Nat, unseen : BOOLEAN, late : BOOLEAN, missed : BOOLEAN]
StatsRec == [calls : Nat, pending : Nat, bytes : Int]
SessionRec ==
  [events : Seq(FrameRec), calls : Seq(CallRec), evictCursor : Nat, bodyBytes : Int, dropped : Nat,
   toolStats : StatsRec, last : Nat, at : Seq(Seq(Nat))]

Shaped(sess) ==
  /\ sess \in SessionRec
  /\ Len(sess.at) = Len(sess.calls) /\ sess.evictCursor <= Len(sess.events)
  /\ \A i \in DOMAIN sess.events : sess.events[i].call <= Len(sess.calls)

(* A call's request opens it once, before any other frame about it. *)
Opens(ev) == ev.kind = "request" /\ ev.call # 0 /\ ~ev.continues
OpensOnce(sess) ==
  \A i, j \in DOMAIN sess.events :
    Opens(sess.events[i]) /\ sess.events[j].call = sess.events[i].call => i <= j

(* Of a call answered at most once a frame still held gives the answer, or the cursor has passed it. *)
Response(sess, i, c) == sess.events[i].kind = "response" /\ sess.events[i].call = c
Weighed(sess, c) ==
  \/ sess.calls[c].result = sess.at[c][1] /\ sess.calls[c].releasedResultBytes = 0
  \/ /\ sess.calls[c].result = 0 /\ sess.calls[c].releasedResultBytes = sess.at[c][1]
     /\ \A i \in DOMAIN sess.events : Response(sess, i, c) => i <= sess.evictCursor
NoAnswerYet(sess, c) ==
  /\ sess.calls[c].state \in {"pending", "cancelled"} /\ ~sess.calls[c].late /\ sess.calls[c].releasedResultBytes = 0
  /\ \A i \in DOMAIN sess.events : ~Response(sess, i, c)
(* A call is forgotten, so that a late answer misses it, only once its request has left. *)
AnsweredOnce(sess, c) ==
  /\ Len(sess.at[c]) = 0 => NoAnswerYet(sess, c)
  /\ Len(sess.at[c]) = 1 => \A i, j \in DOMAIN sess.events : Response(sess, i, c) /\ Response(sess, j, c) => i = j
  /\ sess.calls[c].state = "pending" => ~sess.calls[c].unseen
  /\ sess.calls[c].state = "failed" => sess.calls[c].unseen
  /\ sess.calls[c].late => sess.calls[c].state = "cancelled"
  /\ Len(sess.at[c]) = 1 /\ Landed(sess.calls[c]) /\ ~sess.calls[c].unseen => Weighed(sess, c)
  /\ sess.calls[c].kept /\ sess.calls[c].state # "pending" /\ ~sess.calls[c].unseen => Shown(sess, c)
  /\ ~sess.calls[c].kept \/ sess.calls[c].missed => ~Shown(sess, c)

(* What the summary remembers is about the calls whose first frame has left. *)
Hidden(sess) == {c \in DOMAIN sess.calls : ~Shown(sess, c)}
StillOpen(sess, C) == {c \in C : sess.calls[c].state = "pending"}
Gave(sess) == [c \in DOMAIN sess.calls |-> IF Landed(sess.calls[c]) THEN sess.at[c][1] ELSE 0]
StatsKept(sess) ==
  /\ sess.toolStats.calls = Cardinality(Hidden(sess))
  /\ Plain(sess) =>
       /\ sess.toolStats.pending = Cardinality(StillOpen(sess, Hidden(sess)))
       /\ sess.toolStats.bytes = SumOn(Gave(sess), Hidden(sess))

SessionInv(sess) ==
  Shaped(sess) /\ OpensOnce(sess) /\ (\A c \in DOMAIN sess.calls : AnsweredOnce(sess, c)) /\ StatsKept(sess)

-----------------------------------------------------------------------------
(* A function of 1 .. n is a sequence. *)
LEMMA SeqOfFunction ==
  ASSUME NEW S, NEW n \in Nat, NEW f \in [1 .. n -> S]
  PROVE  f \in Seq(S) /\ Len(f) = n
OBVIOUS

(* What a frame weighs is a number (BodyWeight). *)
LEMMA WeightIsNat ==
  ASSUME NEW u, Shaped(u), NEW i \in DOMAIN u.events
  PROVE  BodyWeight(u, u.events[i]) \in Nat
<1>1. u.events[i] \in FrameRec /\ u.calls \in Seq(CallRec) /\ u.events[i].call <= Len(u.calls)
  BY DEF Shaped, SessionRec
<1>2. u.events[i].raw \in Nat /\ u.events[i].call \in 0 .. Len(u.calls)
  BY <1>1 DEF FrameRec
<1>3. CASE u.events[i].call = 0
  BY <1>2, <1>3 DEF BodyWeight
<1>4. CASE u.events[i].call # 0
  <2>1. u.calls[u.events[i].call] \in CallRec
    BY <1>1, <1>2, <1>4
  <2>2. u.calls[u.events[i].call].params \in Nat /\ u.calls[u.events[i].call].result \in Nat
    BY <2>1 DEF CallRec
  <2> DEFINE w == CASE u.events[i].kind = "request"  -> u.calls[u.events[i].call].params
                    [] u.events[i].kind = "response" -> u.calls[u.events[i].call].result
                    [] OTHER                         -> 0
  <2>3. BodyWeight(u, u.events[i]) = u.events[i].raw + w
    BY <1>4 DEF BodyWeight
  <2>4. w \in Nat
    BY <2>2
  <2> QED BY <1>2, <2>3, <2>4
<1> QED BY <1>3, <1>4

(* What the calls were given is a number each. *)
LEMMA GaveNumbers ==
  ASSUME NEW u, Shaped(u), \A c \in DOMAIN u.calls : AnsweredOnce(u, c)
  PROVE  Numbers(Gave(u)) /\ DOMAIN Gave(u) = DOMAIN u.calls /\ IsFiniteSet(DOMAIN u.calls)
         /\ \A c \in DOMAIN u.calls : Gave(u)[c] \in Nat
<1>1. u.calls \in Seq(CallRec) /\ u.at \in Seq(Seq(Nat)) /\ Len(u.at) = Len(u.calls)
  BY DEF Shaped, SessionRec
<1>2. ASSUME NEW c \in DOMAIN u.calls PROVE Gave(u)[c] \in Nat
  <2>1. u.at[c] \in Seq(Nat)
    BY <1>1
  <2>2. CASE Landed(u.calls[c])
    <3>1. Len(u.at[c]) # 0
      BY <2>2 DEF AnsweredOnce, NoAnswerYet, Landed
    <3> QED BY <2>1, <2>2, <3>1 DEF Gave
  <2>3. CASE ~Landed(u.calls[c])
    BY <2>3 DEF Gave
  <2> QED BY <2>2, <2>3
<1>3. IsFiniteSet(1 .. Len(u.calls)) /\ DOMAIN u.calls = 1 .. Len(u.calls)
  <2>1. DOMAIN u.calls = 1 .. Len(u.calls) /\ Len(u.calls) \in Nat
    BY <1>1
  <2>2. IsFiniteSet(1 .. Len(u.calls))
    BY <2>1, FS_Interval
  <2> QED BY <2>1, <2>2
<1>4. DOMAIN Gave(u) = DOMAIN u.calls
  BY DEF Gave
<1> QED BY <1>2, <1>3, <1>4 DEF Numbers

(* The summary remembers the same as long as the same calls are hidden and, of calls answered once, say the same. *)
LEMMA StatsStay ==
  ASSUME NEW u, SessionInv(u), NEW v, Shaped(v), \A c \in DOMAIN v.calls : AnsweredOnce(v, c),
         v.toolStats = u.toolStats, Hidden(v) = Hidden(u),
         Plain(v) => /\ Plain(u)
                     /\ \A c \in Hidden(u) : (v.calls[c].state = "pending" <=> u.calls[c].state = "pending")
                     /\ \A c \in Hidden(u) : Gave(v)[c] = Gave(u)[c]
  PROVE  StatsKept(v)
<1>1. SUFFICES ASSUME Plain(v)
               PROVE  /\ v.toolStats.pending = Cardinality(StillOpen(v, Hidden(v)))
                      /\ v.toolStats.bytes = SumOn(Gave(v), Hidden(v))
  BY DEF StatsKept, SessionInv
<1>2. StillOpen(v, Hidden(v)) = StillOpen(u, Hidden(u))
  BY <1>1 DEF StillOpen
<1>3. /\ Numbers(Gave(u)) /\ Numbers(Gave(v)) /\ Hidden(u) \subseteq DOMAIN Gave(u) /\ Hidden(u) \subseteq DOMAIN Gave(v)
      /\ IsFiniteSet(DOMAIN u.calls)
  BY GaveNumbers DEF SessionInv, Hidden
<1>4. IsFiniteSet(Hidden(u))
  BY <1>3, FS_Subset DEF Hidden
<1>5. SumOn(Gave(v), Hidden(u)) = SumOn(Gave(u), Hidden(u))
  BY <1>1, <1>3, <1>4, SameSum
<1> QED BY <1>1, <1>2, <1>5 DEF SessionInv, StatsKept

-----------------------------------------------------------------------------
(* Releasing a body. *)
LEMMA NextBodyIs ==
  ASSUME NEW u, Shaped(u)
  PROVE  \/ NextBody(u) = 0
         \/ /\ NextBody(u) \in DOMAIN u.events /\ NextBody(u) > u.evictCursor
            /\ NextBody(u) # 0
<1> DEFINE heavy == {i \in u.evictCursor + 1 .. Len(u.events) : BodyWeight(u, u.events[i]) > 0}
<1>1. u.evictCursor \in Nat /\ u.events \in Seq(FrameRec)
  BY DEF Shaped, SessionRec
<1>2. CASE heavy = {}
  BY <1>2 DEF NextBody
<1>3. CASE heavy # {}
  <2>1. heavy \subseteq Nat
    BY <1>1
  <2>2. \E i \in heavy : \A j \in heavy : i <= j
    <3> HIDE DEF heavy
    <3> QED BY <1>3, <2>1, LeastExists
  <2>3. NextBody(u) = CHOOSE i \in heavy : \A j \in heavy : i <= j
    BY <1>3 DEF NextBody
  <2>4. NextBody(u) \in heavy
    BY <2>2, <2>3
  <2> QED BY <1>1, <2>4
<1> QED BY <1>2, <1>3

Released(u, v, i) ==
  /\ v.events \in Seq(FrameRec) /\ Len(v.events) = Len(u.events)
  /\ \A j \in DOMAIN u.events :
       v.events[j].kind = u.events[j].kind /\ v.events[j].call = u.events[j].call /\ v.events[j].continues = u.events[j].continues
  /\ v.calls \in Seq(CallRec) /\ Len(v.calls) = Len(u.calls)
  /\ \A c \in DOMAIN u.calls :
       /\ v.calls[c].state = u.calls[c].state /\ v.calls[c].kept = u.calls[c].kept /\ v.calls[c].unseen = u.calls[c].unseen
       /\ v.calls[c].late = u.calls[c].late /\ v.calls[c].missed = u.calls[c].missed
       /\ IF Response(u, i, c) THEN v.calls[c].result = 0 /\ v.calls[c].releasedResultBytes = u.calls[c].result
          ELSE v.calls[c].result = u.calls[c].result /\ v.calls[c].releasedResultBytes = u.calls[c].releasedResultBytes
  /\ v.at = u.at /\ v.toolStats = u.toolStats /\ v.evictCursor = i /\ v \in SessionRec

(* What releasing a body leaves (releaseBody). *)
LEMMA ReleaseIs ==
  ASSUME NEW u, Shaped(u), NEW i \in DOMAIN u.events, NEW n \in Nat,
         NEW v, v = [ReleaseBody(u, i) EXCEPT !.evictCursor = i, !.bodyBytes = @ - n]
  PROVE  Released(u, v, i) /\ v.bodyBytes = u.bodyBytes - n
<1> DEFINE ev == u.events[i]
           told == [c \in DOMAIN u.calls |->
                CASE c = ev.call /\ ev.kind = "request"  -> [u.calls[c] EXCEPT !.params = 0]
                  [] c = ev.call /\ ev.kind = "response" ->
                   [u.calls[c] EXCEPT !.releasedResultBytes = u.calls[c].result, !.result = 0]
                  [] OTHER -> u.calls[c]]
           shown == [u.events EXCEPT ![i].raw = 0, ![i].released = TRUE]
<1>1. /\ u \in SessionRec /\ u.events \in Seq(FrameRec) /\ u.calls \in Seq(CallRec) /\ ev \in FrameRec
      /\ \A c \in DOMAIN u.calls : u.calls[c] \in CallRec
  BY DEF Shaped, SessionRec
<1>2. /\ v.events = shown /\ v.calls = told /\ v.evictCursor = i /\ v.bodyBytes = u.bodyBytes - n
      /\ v.at = u.at /\ v.toolStats = u.toolStats /\ v.dropped = u.dropped /\ v.last = u.last
      /\ v = [u EXCEPT !.events = shown, !.calls = told, !.evictCursor = i, !.bodyBytes = @ - n]
  BY <1>1 DEF ReleaseBody, SessionRec
<1>3. /\ shown \in Seq(FrameRec) /\ Len(shown) = Len(u.events)
      /\ \A j \in DOMAIN u.events :
           shown[j].kind = u.events[j].kind /\ shown[j].call = u.events[j].call /\ shown[j].continues = u.events[j].continues
  <2>1. /\ DOMAIN shown = DOMAIN u.events
        /\ \A j \in DOMAIN u.events : shown[j] = IF j = i THEN [ev EXCEPT !.raw = 0, !.released = TRUE] ELSE u.events[j]
    BY <1>1
  <2>2. ASSUME NEW j \in DOMAIN u.events
        PROVE  /\ shown[j] \in FrameRec
               /\ shown[j].kind = u.events[j].kind /\ shown[j].call = u.events[j].call /\ shown[j].continues = u.events[j].continues
    <3>1. u.events[j] \in FrameRec
      BY <1>1
    <3> HIDE DEF shown
    <3>2. CASE j # i
      BY <2>1, <3>1, <3>2
    <3>3. CASE j = i
      <4>1. shown[j] = [ev EXCEPT !.raw = 0, !.released = TRUE]
        BY <2>1, <3>3
      <4>2. [ev EXCEPT !.raw = 0, !.released = TRUE] \in FrameRec
        BY <1>1 DEF FrameRec
      <4> QED BY <1>1, <3>3, <4>1, <4>2 DEF FrameRec
    <3> QED BY <3>2, <3>3
  <2> HIDE DEF shown
  <2>3. shown \in [1 .. Len(u.events) -> FrameRec]
    <3>1. shown = [j \in DOMAIN shown |-> shown[j]]
      BY DEF shown
    <3> QED BY <1>1, <2>1, <2>2, <3>1
  <2>4. shown \in Seq(FrameRec) /\ Len(shown) = Len(u.events)
    BY <1>1, <2>3, SeqOfFunction
  <2> QED BY <2>2, <2>4
<1>4. ASSUME NEW c \in DOMAIN u.calls
      PROVE  /\ told[c] \in CallRec
             /\ told[c].state = u.calls[c].state /\ told[c].kept = u.calls[c].kept /\ told[c].unseen = u.calls[c].unseen
             /\ told[c].late = u.calls[c].late /\ told[c].missed = u.calls[c].missed
             /\ IF Response(u, i, c) THEN told[c].result = 0 /\ told[c].releasedResultBytes = u.calls[c].result
                ELSE told[c].result = u.calls[c].result /\ told[c].releasedResultBytes = u.calls[c].releasedResultBytes
  BY <1>1 DEF CallRec, Response
<1>5. told \in Seq(CallRec) /\ Len(told) = Len(u.calls)
  <2>1. told \in [1 .. Len(u.calls) -> CallRec]
    <3>1. \A c \in DOMAIN u.calls : told[c] \in CallRec
      BY <1>4
    <3>2. DOMAIN u.calls = 1 .. Len(u.calls)
      BY <1>1
    <3>3. told = [c \in DOMAIN u.calls |-> told[c]]
      OBVIOUS
    <3> HIDE DEF told
    <3> QED BY <3>1, <3>2, <3>3
  <2> HIDE DEF told
  <2> QED BY <1>1, <2>1, SeqOfFunction
<1> HIDE DEF told, shown
<1>6. v \in SessionRec
  <2>1. u.bodyBytes - n \in Int /\ i \in Nat
    BY <1>1 DEF SessionRec
  <2> QED BY <1>1, <1>2, <1>3, <1>5, <2>1 DEF SessionRec
<1> QED BY <1>2, <1>3, <1>4, <1>5, <1>6 DEF Released

(* What a frame says of its call outlives its body. *)
LEMMA ReleaseKeeps ==
  ASSUME NEW u, SessionInv(u), NEW i \in DOMAIN u.events, i > u.evictCursor, NEW v, Released(u, v, i)
  PROVE  SessionInv(v)
<1>1. /\ u \in SessionRec /\ u.events \in Seq(FrameRec) /\ u.calls \in Seq(CallRec) /\ u.at \in Seq(Seq(Nat))
      /\ Len(u.at) = Len(u.calls) /\ \A j \in DOMAIN u.events : u.events[j].call <= Len(u.calls)
      /\ u.evictCursor \in Nat /\ i \in Nat
  BY DEF SessionInv, Shaped, SessionRec
<1>2. DOMAIN v.events = DOMAIN u.events /\ DOMAIN v.calls = DOMAIN u.calls /\ DOMAIN u.at = DOMAIN u.calls
  BY <1>1 DEF Released
<1>3. Shaped(v)
  BY <1>1, <1>2 DEF Released, Shaped
<1>4. OpensOnce(v)
  BY <1>2 DEF SessionInv, OpensOnce, Opens, Released
<1>5. \A j \in DOMAIN u.events : \A c : Response(v, j, c) <=> Response(u, j, c)
  BY DEF Released, Response
<1>6. ASSUME NEW c \in DOMAIN u.calls PROVE AnsweredOnce(v, c)
  <2>1. /\ AnsweredOnce(u, c) /\ u.at[c] \in Seq(Nat) /\ v.at = u.at
        /\ v.calls[c].state = u.calls[c].state /\ v.calls[c].kept = u.calls[c].kept /\ v.calls[c].unseen = u.calls[c].unseen
        /\ v.calls[c].late = u.calls[c].late /\ v.calls[c].missed = u.calls[c].missed
        /\ Response(u, i, c) => v.calls[c].result = 0 /\ v.calls[c].releasedResultBytes = u.calls[c].result
        /\ ~Response(u, i, c) =>
             v.calls[c].result = u.calls[c].result /\ v.calls[c].releasedResultBytes = u.calls[c].releasedResultBytes
        /\ v.evictCursor = i
        /\ \A j \in DOMAIN u.events : v.events[j].call = u.events[j].call
    BY <1>1, <1>2 DEF SessionInv, Released
  <2>2. Len(u.at[c]) = 0 => NoAnswerYet(v, c)
    BY <1>2, <1>5, <2>1 DEF AnsweredOnce, NoAnswerYet
  <2>3. ASSUME Len(u.at[c]) = 1, Landed(u.calls[c]), ~u.calls[c].unseen PROVE Weighed(v, c)
    <3>1. Weighed(u, c) /\ \A j, k \in DOMAIN u.events : Response(u, j, c) /\ Response(u, k, c) => j = k
      BY <2>1, <2>3 DEF AnsweredOnce
    <3>2. CASE Response(u, i, c)
      <4>1. u.calls[c].result = u.at[c][1]
        BY <1>1, <3>1, <3>2 DEF Weighed
      <4>2. \A j \in DOMAIN v.events : Response(v, j, c) => j <= i
        BY <1>1, <1>2, <1>5, <3>1, <3>2
      <4>3. v.calls[c].result = 0 /\ v.calls[c].releasedResultBytes = v.at[c][1] /\ v.evictCursor = i
        BY <2>1, <3>2, <4>1
      <4> QED BY <4>2, <4>3 DEF Weighed
    <3>3. CASE ~Response(u, i, c)
      <4>1. \A j \in DOMAIN u.events : j <= u.evictCursor => j <= i
        BY <1>1
      <4> QED BY <1>2, <1>5, <2>1, <3>1, <3>3, <4>1 DEF Weighed
    <3> QED BY <3>2, <3>3
  <2>4. Shown(v, c) <=> Shown(u, c)
    BY <1>2 DEF Shown, Released
  <2> QED BY <1>2, <1>5, <2>1, <2>2, <2>3, <2>4 DEF AnsweredOnce, Landed
<1>7. \A c : Shown(v, c) <=> Shown(u, c)
  BY <1>2 DEF Shown, Released
<1>8. Hidden(v) = Hidden(u)
  BY <1>2, <1>7 DEF Hidden
<1>9. Plain(v) <=> Plain(u)
  BY <1>2 DEF Plain, Released
<1>10. \A c \in DOMAIN u.calls : v.calls[c].state = u.calls[c].state /\ Gave(v)[c] = Gave(u)[c]
  BY <1>2 DEF Gave, Released, Landed
<1>11. Hidden(u) \subseteq DOMAIN u.calls
  BY DEF Hidden
<1>12. StatsKept(v)
  <2>1. v.toolStats = u.toolStats /\ \A c \in DOMAIN v.calls : AnsweredOnce(v, c)
    BY <1>2, <1>6 DEF Released
  <2> QED BY <1>3, <1>8, <1>9, <1>10, <1>11, <2>1, StatsStay
<1> QED BY <1>2, <1>3, <1>4, <1>6, <1>12 DEF SessionInv

(* With nothing left to release the cursor only moves to the end. *)
LEMMA CursorKeeps ==
  ASSUME NEW u, SessionInv(u)
  PROVE  SessionInv([u EXCEPT !.evictCursor = Len(u.events)])
<1> DEFINE v == [u EXCEPT !.evictCursor = Len(u.events)]
<1>1. /\ u \in SessionRec /\ u.events \in Seq(FrameRec) /\ u.evictCursor <= Len(u.events) /\ Shaped(u) /\ u.evictCursor \in Nat
  BY DEF SessionInv, Shaped, SessionRec
<1>2. /\ v.events = u.events /\ v.calls = u.calls /\ v.at = u.at /\ v.toolStats = u.toolStats
      /\ v.evictCursor = Len(u.events) /\ v \in SessionRec
  <2>1. Len(u.events) \in Nat
    BY <1>1
  <2>2. v \in SessionRec
    BY <1>1, <2>1 DEF SessionRec
  <2> QED BY <1>1, <2>2 DEF SessionRec
<1> HIDE DEF v
<1>3. Shaped(v)
  BY <1>1, <1>2 DEF Shaped
<1>4. ASSUME NEW c \in DOMAIN u.calls PROVE AnsweredOnce(v, c)
  <2>1. AnsweredOnce(u, c)
    BY DEF SessionInv
  <2>2. \A j : Response(v, j, c) <=> Response(u, j, c)
    BY <1>2 DEF Response
  <2>3. NoAnswerYet(u, c) => NoAnswerYet(v, c)
    BY <1>2, <2>2 DEF NoAnswerYet
  <2>4. Weighed(u, c) => Weighed(v, c)
    <3>1. \A j \in DOMAIN u.events : j <= Len(u.events)
      BY <1>1
    <3> QED BY <1>2, <2>2, <3>1 DEF Weighed
  <2>5. Shown(v, c) <=> Shown(u, c)
    BY <1>2 DEF Shown
  <2> QED BY <1>2, <2>1, <2>2, <2>3, <2>4, <2>5 DEF AnsweredOnce
<1>5. OpensOnce(v)
  BY <1>2 DEF SessionInv, OpensOnce
<1>6. Hidden(v) = Hidden(u) /\ Plain(v) = Plain(u) /\ Gave(v) = Gave(u)
  BY <1>2 DEF Hidden, Shown, Plain, Gave
<1>7. StatsKept(v)
  BY <1>2, <1>6 DEF SessionInv, StatsKept, StillOpen
<1>8. SessionInv(v)
  BY <1>2, <1>3, <1>4, <1>5, <1>7 DEF SessionInv
<1> QED BY <1>8 DEF v

-----------------------------------------------------------------------------
(* Dropping a frame. *)
Dropped(u, v) ==
  /\ v.events = Tail(u.events)
  /\ v.calls \in Seq(CallRec) /\ Len(v.calls) = Len(u.calls)
  /\ \A c \in DOMAIN u.calls :
       /\ v.calls[c].state = u.calls[c].state /\ v.calls[c].unseen = u.calls[c].unseen
       /\ v.calls[c].result = u.calls[c].result /\ v.calls[c].releasedResultBytes = u.calls[c].releasedResultBytes
       /\ v.calls[c].late = u.calls[c].late /\ v.calls[c].missed = u.calls[c].missed
       /\ v.calls[c].kept => u.calls[c].kept /\ (c = u.events[1].call => u.calls[c].state = "pending")
       /\ ~v.calls[c].kept => ~u.calls[c].kept \/ c = u.events[1].call
  /\ v.at = u.at /\ v.toolStats = Folded(u, u.events[1])
  /\ v.evictCursor = (IF u.evictCursor > 0 THEN u.evictCursor - 1 ELSE 0)

(* The rest of the record. *)
DroppedWith(u, v, n) ==
  /\ v.bodyBytes = u.bodyBytes - n /\ v.last = u.last /\ v.dropped = u.dropped + 1
  /\ v = [events |-> v.events, calls |-> v.calls, evictCursor |-> v.evictCursor, bodyBytes |-> v.bodyBytes,
          dropped |-> v.dropped, toolStats |-> v.toolStats, last |-> v.last, at |-> v.at]

(* What dropping a frame leaves (dropOldestFrame). *)
LEMMA DropIs ==
  ASSUME NEW u, Shaped(u), u.events # <<>>, NEW n \in Nat,
         NEW v, v = [u EXCEPT !.events = Tail(@), !.dropped = @ + 1, !.bodyBytes = @ - n,
                 !.toolStats = Folded(u, u.events[1]), !.calls = LetsGo(u, u.events[1]),
                 !.evictCursor = IF @ > 0 THEN @ - 1 ELSE 0]
  PROVE  Dropped(u, v) /\ DroppedWith(u, v, n)
<1> DEFINE ev == u.events[1]
           told == LetsGo(u, ev)
<1>1. /\ u \in SessionRec /\ u.calls \in Seq(CallRec) /\ \A c \in DOMAIN u.calls : u.calls[c] \in CallRec
  BY DEF Shaped, SessionRec
<1>2. /\ v.events = Tail(u.events) /\ v.calls = told /\ v.bodyBytes = u.bodyBytes - n /\ v.at = u.at /\ v.last = u.last
      /\ v.toolStats = Folded(u, ev) /\ v.evictCursor = (IF u.evictCursor > 0 THEN u.evictCursor - 1 ELSE 0)
      /\ v.dropped = u.dropped + 1
      /\ v = [events |-> v.events, calls |-> v.calls, evictCursor |-> v.evictCursor, bodyBytes |-> v.bodyBytes,
                 dropped |-> v.dropped, toolStats |-> v.toolStats, last |-> v.last, at |-> v.at]
  BY <1>1 DEF SessionRec
<1>3. ASSUME NEW c \in DOMAIN u.calls
      PROVE  /\ told[c] \in CallRec
             /\ told[c].state = u.calls[c].state /\ told[c].unseen = u.calls[c].unseen
             /\ told[c].result = u.calls[c].result /\ told[c].releasedResultBytes = u.calls[c].releasedResultBytes
             /\ told[c].late = u.calls[c].late /\ told[c].missed = u.calls[c].missed
             /\ told[c].kept => u.calls[c].kept /\ (c = ev.call => u.calls[c].state = "pending")
             /\ ~told[c].kept => ~u.calls[c].kept \/ c = ev.call
  <2>1. u.calls[c] \in CallRec
    BY <1>1
  <2> QED BY <2>1 DEF CallRec, LetsGo
<1>4. told \in Seq(CallRec) /\ Len(told) = Len(u.calls)
  <2>1. told \in [1 .. Len(u.calls) -> CallRec]
    <3>1. told = [c \in DOMAIN u.calls |-> told[c]] /\ DOMAIN u.calls = 1 .. Len(u.calls)
      BY <1>1 DEF LetsGo
    <3> HIDE DEF told
    <3> QED BY <1>3, <3>1
  <2> HIDE DEF told
  <2> QED BY <1>1, <2>1, SeqOfFunction
<1> HIDE DEF told
<1> QED BY <1>2, <1>3, <1>4 DEF Dropped, DroppedWith

(* What the summary says of a call: its size, if an answer ended it or came after its cancellation. *)
HasNoAnswer(call) == call.state = "pending" \/ (call.state = "cancelled" /\ ~call.late)
Weight(call) == IF call.result > call.releasedResultBytes THEN call.result ELSE call.releasedResultBytes
CallBytes(call) == IF HasNoAnswer(call) THEN 0 ELSE Weight(call)
Adding(stats, call) ==
  [calls |-> stats.calls + 1, pending |-> stats.pending + (IF call.state = "pending" THEN 1 ELSE 0),
   bytes |-> stats.bytes + CallBytes(call)]

(* What folding a frame into a summary does (foldInto). *)
LEMMA FoldIs ==
  ASSUME NEW u, Shaped(u), NEW i \in DOMAIN u.events, NEW stats \in StatsRec
  PROVE  /\ ~Opens(u.events[i]) => FoldToolCall(stats, u, u.events[i]) = stats
         /\ Opens(u.events[i]) => FoldToolCall(stats, u, u.events[i]) = Adding(stats, u.calls[u.events[i].call])
         /\ Opens(u.events[i]) => u.events[i].call \in DOMAIN u.calls
         /\ FoldToolCall(stats, u, u.events[i]) \in StatsRec
<1>1. u.events[i] \in FrameRec /\ u.calls \in Seq(CallRec) /\ u.events[i].call <= Len(u.calls)
  BY DEF Shaped, SessionRec
<1>2. CASE ~Opens(u.events[i])
  BY <1>2 DEF Opens, FoldToolCall
<1>3. CASE Opens(u.events[i])
  <2> DEFINE c == u.calls[u.events[i].call]
  <2>1. u.events[i].call \in DOMAIN u.calls
    BY <1>1, <1>3 DEF Opens, FrameRec
  <2>2. c \in CallRec
    BY <1>1, <2>1
  <2>3. /\ c.state \in CallState /\ c.result \in Nat /\ c.releasedResultBytes \in Nat
    BY <2>2 DEF CallRec
  <2>4. FoldToolCall(stats, u, u.events[i]) =
          IF c.state = "pending" THEN [[stats EXCEPT !.calls = @ + 1] EXCEPT !.pending = @ + 1]
          ELSE IF c.state = "cancelled" /\ ~c.late THEN [stats EXCEPT !.calls = @ + 1]
          ELSE [[stats EXCEPT !.calls = @ + 1] EXCEPT !.bytes = @ + Weight(c)]
    BY <1>3 DEF Opens, FoldToolCall, Weight
  <2> HIDE DEF c
  <2>5. FoldToolCall(stats, u, u.events[i]) = Adding(stats, c)
    <3>1. stats.calls \in Nat /\ stats.pending \in Nat /\ stats.bytes \in Int /\ stats \in StatsRec
      BY DEF StatsRec
    <3>3. [stats EXCEPT !.calls = @ + 1] = [calls |-> stats.calls + 1, pending |-> stats.pending, bytes |-> stats.bytes]
      BY DEF StatsRec
    <3>4. CASE c.state = "pending"
      <4>1. CallBytes(c) = 0
        BY <3>4 DEF CallBytes, HasNoAnswer
      <4>2. FoldToolCall(stats, u, u.events[i]) = [calls |-> stats.calls + 1, pending |-> stats.pending + 1, bytes |-> stats.bytes]
        BY <2>4, <3>3, <3>4
      <4> QED BY <3>1, <3>4, <4>1, <4>2 DEF Adding
    <3>5. CASE c.state = "cancelled" /\ ~c.late
      <4>1. CallBytes(c) = 0
        BY <3>5 DEF CallBytes, HasNoAnswer
      <4>2. FoldToolCall(stats, u, u.events[i]) = [calls |-> stats.calls + 1, pending |-> stats.pending, bytes |-> stats.bytes]
        BY <2>4, <3>3, <3>5
      <4> QED BY <3>1, <3>5, <4>1, <4>2 DEF Adding
    <3>6. CASE ~HasNoAnswer(c)
      <4>1. CallBytes(c) = Weight(c)
        BY <3>6 DEF CallBytes
      <4>2. FoldToolCall(stats, u, u.events[i])
            = [calls |-> stats.calls + 1, pending |-> stats.pending, bytes |-> stats.bytes + Weight(c)]
        BY <2>4, <3>3, <3>6 DEF HasNoAnswer
      <4>3. c.state # "pending" /\ Adding(stats, c) = [calls |-> stats.calls + 1, pending |-> stats.pending + 0, bytes |-> stats.bytes + Weight(c)]
        BY <3>6, <4>1 DEF Adding, HasNoAnswer
      <4> QED BY <3>1, <4>2, <4>3
    <3> QED BY <3>4, <3>5, <3>6 DEF HasNoAnswer
  <2>6. Adding(stats, c) \in StatsRec
    BY <2>3 DEF Adding, StatsRec, CallBytes, Weight
  <2> QED BY <1>3, <2>1, <2>5, <2>6 DEF c
<1> QED BY <1>2, <1>3

(* The frames after the first, one place further on. *)
MovedUp(u, v) ==
  /\ DOMAIN v.events = 1 .. Len(u.events) - 1 /\ Len(v.events) = Len(u.events) - 1 /\ v.events \in Seq(FrameRec)
  /\ Len(u.events) \in Nat \ {0} /\ DOMAIN u.events = 1 .. Len(u.events) /\ 1 \in DOMAIN u.events
  /\ \A j \in DOMAIN v.events : j + 1 \in DOMAIN u.events /\ j \in Nat /\ v.events[j] = u.events[j + 1]
  /\ \A i \in DOMAIN u.events : i = 1 \/ (i \in Nat /\ i - 1 \in DOMAIN v.events /\ v.events[i - 1] = u.events[i])

(* Dropping the first frame moves the others up (dropOldestFrame). *)
LEMMA DropMoves == ASSUME NEW u, Shaped(u), u.events # <<>>, NEW v, v.events = Tail(u.events) PROVE MovedUp(u, v)
<1>1. u.events \in Seq(FrameRec)
  BY DEF Shaped, SessionRec
<1>2. Len(u.events) \in Nat \ {0} /\ DOMAIN u.events = 1 .. Len(u.events)
  BY <1>1
<1>3. /\ Tail(u.events) \in Seq(FrameRec) /\ Len(Tail(u.events)) = Len(u.events) - 1
      /\ \A j \in 1 .. Len(u.events) - 1 : Tail(u.events)[j] = u.events[j + 1]
  BY <1>1, <1>2
<1> QED BY <1>2, <1>3 DEF MovedUp

(* A dropped frame leaves every other call as answered as it was. *)
LEMMA DropKeepsAnswers ==
  ASSUME NEW u, SessionInv(u), u.events # <<>>, NEW v, Dropped(u, v), NEW c \in DOMAIN u.calls
  PROVE  AnsweredOnce(v, c)
<1>1. MovedUp(u, v)
  BY DropMoves DEF SessionInv, Dropped
<1>2. \A j \in DOMAIN v.events : Response(v, j, c) <=> Response(u, j + 1, c)
  BY <1>1 DEF MovedUp, Response
<1>3. /\ AnsweredOnce(u, c) /\ v.at = u.at
      /\ v.calls[c].state = u.calls[c].state /\ v.calls[c].unseen = u.calls[c].unseen
      /\ v.calls[c].result = u.calls[c].result /\ v.calls[c].releasedResultBytes = u.calls[c].releasedResultBytes
      /\ v.calls[c].late = u.calls[c].late /\ v.calls[c].missed = u.calls[c].missed
      /\ v.calls[c].kept => u.calls[c].kept /\ (c = u.events[1].call => u.calls[c].state = "pending")
      /\ ~v.calls[c].kept => ~u.calls[c].kept \/ c = u.events[1].call
      /\ v.evictCursor = (IF u.evictCursor > 0 THEN u.evictCursor - 1 ELSE 0) /\ u.evictCursor \in Nat
  BY DEF SessionInv, Dropped, Shaped, SessionRec
<1>4. NoAnswerYet(u, c) => NoAnswerYet(v, c)
  BY <1>1, <1>2, <1>3 DEF NoAnswerYet, MovedUp
<1>5. ASSUME \A i, j \in DOMAIN u.events : Response(u, i, c) /\ Response(u, j, c) => i = j,
             NEW i \in DOMAIN v.events, NEW j \in DOMAIN v.events, Response(v, i, c), Response(v, j, c)
      PROVE  i = j
  <2>1. i + 1 = j + 1 /\ i \in Nat /\ j \in Nat
    BY <1>1, <1>2, <1>5 DEF MovedUp
  <2> QED BY <2>1
<1>6. Weighed(u, c) => Weighed(v, c)
  <2>1. ASSUME \A i \in DOMAIN u.events : Response(u, i, c) => i <= u.evictCursor,
               NEW j \in DOMAIN v.events, Response(v, j, c)
        PROVE  j <= v.evictCursor
    <3>1. j + 1 <= u.evictCursor /\ j \in Nat
      BY <1>1, <1>2, <2>1 DEF MovedUp
    <3> QED BY <1>3, <3>1
  <2> QED BY <1>3, <2>1 DEF Weighed
<1>7. ASSUME v.calls[c].kept, u.calls[c].state # "pending", Shown(u, c) PROVE Shown(v, c)
  <2>1. PICK i \in DOMAIN u.events : u.events[i].kind = "request" /\ u.events[i].call = c /\ ~u.events[i].continues
    BY <1>7 DEF Shown
  <2>2. i # 1
    BY <1>3, <1>7, <2>1
  <2> QED BY <1>1, <2>1, <2>2 DEF MovedUp, Shown
<1>8. Shown(v, c) => Shown(u, c)
  BY <1>1 DEF MovedUp, Shown
<1>9. ASSUME c = u.events[1].call PROVE ~Shown(v, c)
  <2>1. SUFFICES ASSUME NEW j \in DOMAIN v.events, v.events[j].kind = "request", v.events[j].call = c, ~v.events[j].continues
                 PROVE  FALSE
    BY DEF Shown
  <2>2. j + 1 \in DOMAIN u.events /\ j \in Nat /\ j # 0 /\ v.events[j] = u.events[j + 1] /\ 1 \in DOMAIN u.events
    BY <1>1 DEF MovedUp
  <2>3. c # 0
    BY DEF SessionInv, Shaped, SessionRec
  <2>4. j + 1 <= 1
    BY <1>9, <2>1, <2>2, <2>3 DEF SessionInv, OpensOnce, Opens
  <2> QED BY <2>2, <2>4
<1> QED BY <1>3, <1>4, <1>5, <1>6, <1>7, <1>8, <1>9 DEF AnsweredOnce, Landed

(* The size the summary reads of a call answered once is that of its answer, whether or not it is still held. *)
LEMMA GaveIsWeight ==
  ASSUME NEW u, SessionInv(u), Plain(u), NEW d \in DOMAIN u.calls
  PROVE  CallBytes(u.calls[d]) = Gave(u)[d]
<1>1. /\ u.calls[d] \in CallRec /\ u.at[d] \in Seq(Nat) /\ AnsweredOnce(u, d) /\ Len(u.at[d]) <= 1 /\ ~u.calls[d].unseen
  BY DEF SessionInv, Shaped, SessionRec, Plain
<1>2. u.calls[d].state \in CallState /\ u.calls[d].result \in Nat /\ u.calls[d].releasedResultBytes \in Nat
  BY <1>1 DEF CallRec
<1>3. CASE Landed(u.calls[d])
  <2>1. Len(u.at[d]) = 1
    <3> DEFINE n == Len(u.at[d])
    <3>1. n \in Nat /\ n <= 1
      BY <1>1
    <3>2. n # 0
      BY <1>1, <1>3 DEF AnsweredOnce, NoAnswerYet, Landed
    <3> HIDE DEF n
    <3>3. n = 1
      BY <3>1, <3>2
    <3> QED BY <3>3 DEF n
  <2>2. Weighed(u, d) /\ u.at[d][1] \in Nat
    BY <1>1, <1>3, <2>1 DEF AnsweredOnce
  <2>3. Weight(u.calls[d]) = u.at[d][1]
    BY <1>2, <2>2 DEF Weighed, Weight
  <2>4. ~HasNoAnswer(u.calls[d])
    BY <1>1, <1>3 DEF AnsweredOnce, Landed, HasNoAnswer
  <2> QED BY <1>3, <2>3, <2>4 DEF CallBytes, Gave
<1>4. CASE ~Landed(u.calls[d]) /\ HasNoAnswer(u.calls[d])
  BY <1>4 DEF CallBytes, Gave
<1>5. u.calls[d].state # "failed"
  BY <1>1 DEF AnsweredOnce
<1> QED BY <1>2, <1>3, <1>4, <1>5 DEF CallState, Landed, HasNoAnswer

(* What a dropped frame said of its call is what the summary remembers of it (foldInto). *)
LEMMA DropKeepsStats ==
  ASSUME NEW u, SessionInv(u), u.events # <<>>, NEW v, Dropped(u, v), Shaped(v), \A c \in DOMAIN v.calls : AnsweredOnce(v, c)
  PROVE  StatsKept(v)
<1> DEFINE ev == u.events[1]
           c  == ev.call
<1>1. MovedUp(u, v) /\ Shaped(u) /\ OpensOnce(u) /\ u.toolStats \in StatsRec /\ u.calls \in Seq(CallRec)
  BY DropMoves DEF SessionInv, Dropped, Shaped, SessionRec
<1>2. /\ DOMAIN v.calls = DOMAIN u.calls /\ v.at = u.at
      /\ \A d \in DOMAIN u.calls : /\ v.calls[d].state = u.calls[d].state /\ v.calls[d].unseen = u.calls[d].unseen
                                  /\ v.calls[d].late = u.calls[d].late
  BY <1>1 DEF Dropped
<1>3. \A d \in DOMAIN u.calls : Shown(u, d) <=> Shown(v, d) \/ (Opens(ev) /\ d = c)
  <2> SUFFICES ASSUME NEW d \in DOMAIN u.calls PROVE (Shown(u, d) <=> Shown(v, d) \/ (Opens(ev) /\ d = c))
    OBVIOUS
  <2>1. Shown(v, d) => Shown(u, d)
    BY <1>1 DEF MovedUp, Shown
  <2>2. Opens(ev) /\ d = c => Shown(u, d)
    BY <1>1 DEF MovedUp, Shown, Opens
  <2>3. ASSUME Shown(u, d), ~(Opens(ev) /\ d = c) PROVE Shown(v, d)
    <3>1. PICK i \in DOMAIN u.events : u.events[i].kind = "request" /\ u.events[i].call = d /\ ~u.events[i].continues
      BY <2>3 DEF Shown
    <3>2. d # 0
      BY <1>1
    <3>3. i # 1
      BY <2>3, <3>1, <3>2 DEF Opens
    <3> QED BY <1>1, <3>1, <3>3 DEF MovedUp, Shown
  <2> QED BY <2>1, <2>2, <2>3
<1>4. Plain(v) <=> Plain(u)
  BY <1>2 DEF Plain
<1>5. Gave(v) = Gave(u)
  BY <1>2 DEF Gave, Landed
<1>6. CASE ~Opens(ev)
  <2>1. v.toolStats = u.toolStats
    BY <1>1, <1>6, FoldIs DEF MovedUp, Dropped, Folded
  <2>2. Hidden(v) = Hidden(u)
    BY <1>2, <1>3, <1>6 DEF Hidden
  <2>3. \A d \in Hidden(u) : v.calls[d].state = u.calls[d].state
    BY <1>2 DEF Hidden
  <2> QED BY <1>4, <1>5, <2>1, <2>2, <2>3, StatsStay
<1>7. CASE Opens(ev)
  <2>1. v.toolStats = Adding(u.toolStats, u.calls[c]) /\ c \in DOMAIN u.calls
    BY <1>1, <1>7, FoldIs DEF MovedUp, Dropped, Folded
  <2>2. ~Shown(v, c)
    <3> SUFFICES ASSUME NEW j \in DOMAIN v.events, v.events[j].kind = "request", v.events[j].call = c, ~v.events[j].continues
                 PROVE  FALSE
      BY DEF Shown
    <3>0. j + 1 \in DOMAIN u.events /\ j \in Nat /\ j # 0 /\ v.events[j] = u.events[j + 1]
      BY <1>1 DEF MovedUp
    <3>1. j + 1 \in DOMAIN u.events /\ j \in Nat /\ j # 0 /\ Opens(u.events[j + 1]) /\ u.events[j + 1].call = c
      BY <1>7, <3>0 DEF Opens
    <3>2. j + 1 <= 1
      BY <1>1, <1>7, <3>1 DEF OpensOnce, MovedUp
    <3> QED BY <3>1, <3>2
  <2>3. Hidden(v) = Hidden(u) \cup {c} /\ c \notin Hidden(u)
    <3>1. \A d \in DOMAIN u.calls : ~Shown(v, d) <=> ~Shown(u, d) \/ d = c
      BY <1>3, <1>7, <2>2
    <3>2. Shown(u, c)
      BY <1>3, <1>7, <2>1
    <3> QED BY <1>2, <2>1, <3>1, <3>2 DEF Hidden
  <2>4. /\ Numbers(Gave(u)) /\ DOMAIN Gave(u) = DOMAIN u.calls /\ IsFiniteSet(DOMAIN u.calls)
        /\ Hidden(u) \subseteq DOMAIN u.calls
    BY <1>1, GaveNumbers DEF SessionInv, Hidden
  <2>5. IsFiniteSet(Hidden(u)) /\ IsFiniteSet(Hidden(v)) /\ Hidden(v) \subseteq DOMAIN u.calls
    BY <2>1, <2>3, <2>4, FS_Subset
  <2>6. Cardinality(Hidden(v)) = Cardinality(Hidden(u)) + 1
    BY <2>3, <2>5, FS_AddElement
  <2>7. u.toolStats.calls = Cardinality(Hidden(u))
    BY DEF SessionInv, StatsKept
  <2>8. v.toolStats.calls = Cardinality(Hidden(v))
    BY <2>1, <2>6, <2>7 DEF Adding
  <2>9. ASSUME Plain(v)
        PROVE  /\ v.toolStats.pending = Cardinality(StillOpen(v, Hidden(v)))
               /\ v.toolStats.bytes = SumOn(Gave(v), Hidden(v))
    <3>1. Plain(u) /\ u.toolStats.pending = Cardinality(StillOpen(u, Hidden(u))) /\ u.toolStats.bytes = SumOn(Gave(u), Hidden(u))
      BY <1>4, <2>9 DEF SessionInv, StatsKept
    <3>2. StillOpen(v, Hidden(v)) = IF u.calls[c].state = "pending" THEN StillOpen(u, Hidden(u)) \cup {c} ELSE StillOpen(u, Hidden(u))
      BY <1>2, <2>1, <2>3, <2>5 DEF StillOpen
    <3>3. IsFiniteSet(StillOpen(u, Hidden(u))) /\ c \notin StillOpen(u, Hidden(u))
      BY <2>3, <2>5, FS_Subset DEF StillOpen
    <3>4. Cardinality(StillOpen(u, Hidden(u)) \cup {c}) = Cardinality(StillOpen(u, Hidden(u))) + 1
      BY <3>3, FS_AddElement
    <3>5. u.toolStats.pending \in Nat /\ u.toolStats.bytes \in Int
      BY <1>1 DEF StatsRec
    <3>6. v.toolStats.pending = Cardinality(StillOpen(v, Hidden(v)))
      BY <2>1, <3>1, <3>2, <3>4, <3>5 DEF Adding
    <3>7. CallBytes(u.calls[c]) = Gave(u)[c]
      BY <2>1, <3>1, GaveIsWeight
    <3>8. SumOn(Gave(u), Hidden(v)) = Gave(u)[c] + SumOn(Gave(u), Hidden(v) \ {c})
      BY <2>3, <2>4, <2>5, SumSplits
    <3>9. Hidden(v) \ {c} = Hidden(u)
      BY <2>3
    <3>10. v.toolStats.bytes = u.toolStats.bytes + CallBytes(u.calls[c]) /\ Gave(u)[c] \in Int
      BY <2>1, <2>4 DEF Adding, Numbers
    <3>11. v.toolStats.bytes = SumOn(Gave(v), Hidden(v))
      <4>1. SumOn(Gave(u), Hidden(u)) \in Int
        BY <3>1, <3>5
      <4>2. SumOn(Gave(v), Hidden(v)) = Gave(u)[c] + SumOn(Gave(u), Hidden(u))
        BY <1>5, <3>8, <3>9
      <4>3. v.toolStats.bytes = SumOn(Gave(u), Hidden(u)) + Gave(u)[c]
        BY <3>1, <3>7, <3>10
      <4> HIDE DEF c
      <4> QED BY <3>10, <4>1, <4>2, <4>3
    <3> QED BY <3>6, <3>11
  <2> QED BY <2>8, <2>9 DEF StatsKept
<1> QED BY <1>6, <1>7

DropsTo(u, v, n) ==
  /\ SessionInv(v) /\ v.bodyBytes = u.bodyBytes - n /\ MovedUp(u, v)
  /\ v.evictCursor = (IF u.evictCursor > 0 THEN u.evictCursor - 1 ELSE 0)

(* Dropping the oldest frame keeps a session sound (dropOldestFrame). *)
LEMMA DropKeeps ==
  ASSUME NEW u, SessionInv(u), u.events # <<>>, NEW n \in Nat,
         NEW v, v = [u EXCEPT !.events = Tail(@), !.dropped = @ + 1, !.bodyBytes = @ - n,
                 !.toolStats = Folded(u, u.events[1]), !.calls = LetsGo(u, u.events[1]),
                 !.evictCursor = IF @ > 0 THEN @ - 1 ELSE 0]
  PROVE  DropsTo(u, v, n)
<1>1. Shaped(u) /\ u \in SessionRec /\ u.evictCursor \in Nat /\ u.evictCursor <= Len(u.events) /\ Len(u.at) = Len(u.calls)
  BY DEF SessionInv, Shaped, SessionRec
<1>2. /\ Dropped(u, v) /\ DroppedWith(u, v, n)
  BY <1>1, DropIs
<1>3. MovedUp(u, v)
  BY <1>1, <1>2, DropMoves DEF Dropped
<1>4. v.toolStats \in StatsRec
  BY <1>1, <1>2, <1>3, FoldIs DEF MovedUp, Dropped, Folded, SessionRec
<1>5. v.evictCursor \in Nat /\ v.evictCursor <= Len(v.events)
  BY <1>1, <1>2, <1>3 DEF Dropped, MovedUp
<1>6. v \in SessionRec
  <2>1. v.last \in Nat /\ v.dropped \in Nat /\ v.bodyBytes \in Int /\ v.at \in Seq(Seq(Nat)) /\ v.calls \in Seq(CallRec)
        /\ v.events \in Seq(FrameRec)
    BY <1>1, <1>2, <1>3 DEF SessionRec, Dropped, DroppedWith, MovedUp
  <2> QED BY <1>2, <1>4, <1>5, <2>1 DEF DroppedWith, SessionRec
<1>7. Shaped(v)
  <2>1. \A i \in DOMAIN v.events : v.events[i].call <= Len(v.calls)
    BY <1>1, <1>2, <1>3 DEF Shaped, Dropped, MovedUp
  <2> QED BY <1>1, <1>2, <1>5, <1>6, <2>1 DEF Shaped, Dropped
<1>8. DOMAIN v.calls = DOMAIN u.calls
  BY <1>1, <1>2 DEF Dropped, SessionRec
<1>9. \A c \in DOMAIN v.calls : AnsweredOnce(v, c)
  BY <1>1, <1>2, <1>8, DropKeepsAnswers
<1>10. StatsKept(v)
  BY <1>1, <1>2, <1>7, <1>9, DropKeepsStats
<1>11. OpensOnce(v)
  <2> SUFFICES ASSUME NEW i \in DOMAIN v.events, NEW j \in DOMAIN v.events, Opens(v.events[i]), v.events[j].call = v.events[i].call
               PROVE  i <= j
    BY DEF OpensOnce
  <2>1. i + 1 <= j + 1 /\ i \in Nat /\ j \in Nat
    <3>1. /\ i + 1 \in DOMAIN u.events /\ i \in Nat /\ v.events[i] = u.events[i + 1]
          /\ j + 1 \in DOMAIN u.events /\ j \in Nat /\ v.events[j] = u.events[j + 1]
      BY <1>3 DEF MovedUp
    <3>2. Opens(u.events[i + 1]) /\ u.events[j + 1].call = u.events[i + 1].call
      BY <3>1
    <3> QED BY <3>1, <3>2 DEF SessionInv, OpensOnce
  <2> QED BY <2>1
<1> QED BY <1>2, <1>3, <1>7, <1>9, <1>10, <1>11 DEF SessionInv, Dropped, DroppedWith, DropsTo

(* v is u with one more frame, which is about call c if about any. *)
OneFrameMore(u, v, ev) ==
  /\ v.events = Append(u.events, ev) /\ ev \in FrameRec
  /\ v.toolStats = u.toolStats /\ v.evictCursor = u.evictCursor
SameCall(u, v, d) ==
  /\ v.at[d] = u.at[d] /\ v.calls[d].state = u.calls[d].state /\ v.calls[d].unseen = u.calls[d].unseen
  /\ v.calls[d].kept = u.calls[d].kept /\ v.calls[d].result = u.calls[d].result
  /\ v.calls[d].releasedResultBytes = u.calls[d].releasedResultBytes /\ v.calls[d].late = u.calls[d].late
  /\ v.calls[d].missed => u.calls[d].missed \/ ~Shown(u, d)
(* What the frame does to its call: it goes on, settles, is given up, or is answered late. *)
GoesOn(u, v, c) ==
  v.calls[c].state = u.calls[c].state /\ v.calls[c].unseen = u.calls[c].unseen /\ v.calls[c].late = u.calls[c].late
Settles(u, v, ev, c) ==
  /\ u.calls[c].state = "pending" /\ v.calls[c].late = u.calls[c].late
  /\ \/ v.calls[c].state = "completed" /\ v.calls[c].result = v.at[c][Len(v.at[c])] /\ ev.call = c
     \/ v.calls[c].state = "failed" /\ v.calls[c].unseen
  /\ ~v.calls[c].unseen => Shown(u, c)
ComesLate(u, v, ev, c) ==
  /\ u.calls[c].state = "cancelled" /\ v.calls[c].state = "cancelled" /\ ~u.calls[c].late /\ u.calls[c].kept
  /\ v.calls[c].unseen = u.calls[c].unseen /\ v.calls[c].result = v.at[c][Len(v.at[c])] /\ ev.call = c
GivesUp(u, v, ev, c) ==
  /\ u.calls[c].state = "pending" /\ v.calls[c].state = "cancelled" /\ v.calls[c].late = u.calls[c].late
  /\ v.at[c] = u.at[c] /\ ev.kind # "response" /\ (~v.calls[c].unseen => Shown(u, c))
Touches(u, v, ev, c) ==
  /\ c \in DOMAIN u.calls /\ ev.call \in {0, c}
  /\ v.calls[c].kept = u.calls[c].kept /\ v.calls[c].releasedResultBytes = u.calls[c].releasedResultBytes
  /\ v.calls[c].missed = u.calls[c].missed
  /\ \/ /\ \E n \in Nat : v.at[c] = Append(u.at[c], n)
        /\ GoesOn(u, v, c) \/ Settles(u, v, ev, c) \/ ComesLate(u, v, ev, c)
     \/ GivesUp(u, v, ev, c)
Tells(u, v, ev, c) ==
  /\ OneFrameMore(u, v, ev) /\ ~Opens(ev) /\ v.calls \in Seq(CallRec) /\ Len(v.calls) = Len(u.calls)
  /\ \A d \in DOMAIN u.calls \ {c} : SameCall(u, v, d)
  /\ (ev.call = 0 /\ \A d \in DOMAIN u.calls : SameCall(u, v, d)) \/ Touches(u, v, ev, c)

(* The frames so far, and one more. *)
Longer(u, v, ev) ==
  /\ Len(u.events) \in Nat /\ DOMAIN u.events = 1 .. Len(u.events) /\ DOMAIN v.events = 1 .. Len(u.events) + 1
  /\ v.events[Len(u.events) + 1] = ev /\ \A i \in DOMAIN u.events : v.events[i] = u.events[i]
  /\ Len(v.events) = Len(u.events) + 1 /\ v.events \in Seq(FrameRec)

(* The frames before the last stay where they are. *)
LEMMA FramesAppended == ASSUME NEW u, Shaped(u), NEW v, NEW ev, OneFrameMore(u, v, ev) PROVE Longer(u, v, ev)
<1>1. u.events \in Seq(FrameRec) /\ ev \in FrameRec /\ v.events = Append(u.events, ev)
  BY DEF Shaped, SessionRec, OneFrameMore
<1> QED BY <1>1 DEF Longer

(* A frame opens no call but its own. *)
LEMMA ShownAppended ==
  ASSUME NEW u, Shaped(u), NEW v, NEW ev, OneFrameMore(u, v, ev), NEW d \in DOMAIN u.calls, ~Opens(ev) \/ ev.call # d
  PROVE  Shown(v, d) <=> Shown(u, d)
<1>1. Longer(u, v, ev) /\ d # 0
  <2>1. u.calls \in Seq(CallRec)
    BY DEF Shaped, SessionRec
  <2> QED BY <2>1, FramesAppended
<1>2. \A i \in DOMAIN u.events : i \in DOMAIN v.events /\ v.events[i] = u.events[i]
  BY <1>1 DEF Longer
<1>3. Shown(u, d) => Shown(v, d)
  BY <1>2 DEF Shown
<1>4. ASSUME NEW i \in DOMAIN v.events, v.events[i].kind = "request", v.events[i].call = d, ~v.events[i].continues
      PROVE  Shown(u, d)
  <2>1. CASE i \in DOMAIN u.events
    BY <1>2, <1>4, <2>1 DEF Shown
  <2>2. CASE i \notin DOMAIN u.events
    <3>1. v.events[i] = ev
      BY <1>1, <2>2 DEF Longer
    <3> QED BY <1>1, <1>4, <3>1 DEF Opens
  <2> QED BY <2>1, <2>2
<1> QED BY <1>3, <1>4 DEF Shown

(* A call the frame does not touch stays as answered as it was. *)
LEMMA OthersKeep ==
  ASSUME NEW u, SessionInv(u), NEW v, NEW ev, OneFrameMore(u, v, ev), NEW d \in DOMAIN u.calls, ev.call # d, SameCall(u, v, d)
  PROVE  AnsweredOnce(v, d)
<1>1. Longer(u, v, ev) /\ AnsweredOnce(u, d) /\ v.evictCursor = u.evictCursor
  BY FramesAppended DEF SessionInv, OneFrameMore
<1>2. \A i \in DOMAIN v.events : Response(v, i, d) <=> i \in DOMAIN u.events /\ Response(u, i, d)
  <2> TAKE i \in DOMAIN v.events
  <2>1. CASE i \in DOMAIN u.events
    BY <1>1, <2>1 DEF Longer, Response
  <2>2. CASE i \notin DOMAIN u.events
    <3>1. v.events[i] = ev
      BY <1>1, <2>2 DEF Longer
    <3> QED BY <2>2, <3>1 DEF Response
  <2> QED BY <2>1, <2>2
<1>3. DOMAIN u.events \subseteq DOMAIN v.events
  BY <1>1 DEF Longer
<1>4. NoAnswerYet(u, d) => NoAnswerYet(v, d)
  BY <1>2 DEF NoAnswerYet, SameCall
<1>5. Weighed(u, d) => Weighed(v, d)
  BY <1>1, <1>2 DEF Weighed, SameCall
<1>6. Shown(v, d) <=> Shown(u, d)
  BY ShownAppended DEF SessionInv
<1>7. Len(u.at[d]) = 1 => \A i, j \in DOMAIN v.events : Response(v, i, d) /\ Response(v, j, d) => i = j
  BY <1>1, <1>2 DEF AnsweredOnce
<1> QED BY <1>1, <1>4, <1>5, <1>6, <1>7 DEF AnsweredOnce, SameCall, Landed

(* So does the call it touches. *)
LEMMA TouchedKeeps ==
  ASSUME NEW u, SessionInv(u), NEW v, NEW ev, NEW c, OneFrameMore(u, v, ev), ~Opens(ev), Touches(u, v, ev, c)
  PROVE  AnsweredOnce(v, c)
<1>1. Longer(u, v, ev) /\ AnsweredOnce(u, c) /\ u.at[c] \in Seq(Nat) /\ c \in DOMAIN u.calls
  <2>1. Shaped(u) /\ c \in DOMAIN u.calls /\ AnsweredOnce(u, c)
    BY DEF SessionInv, Touches
  <2>2. u.at[c] \in Seq(Nat)
    BY <2>1 DEF Shaped, SessionRec
  <2> QED BY <2>1, <2>2, FramesAppended
<1>2. Shown(v, c) <=> Shown(u, c)
  BY <1>1, ShownAppended DEF SessionInv
<1>3. /\ u.calls[c].state = "pending" => ~u.calls[c].unseen
      /\ u.calls[c].late => u.calls[c].state = "cancelled"
      /\ v.calls[c].releasedResultBytes = u.calls[c].releasedResultBytes /\ v.calls[c].kept = u.calls[c].kept
      /\ v.calls[c].missed = u.calls[c].missed
  BY <1>1 DEF AnsweredOnce, Touches
<1>4. CASE GivesUp(u, v, ev, c)
  <2>1. \A i \in DOMAIN v.events : Response(v, i, c) => i \in DOMAIN u.events /\ Response(u, i, c)
    BY <1>1, <1>4 DEF GivesUp, Longer, Response
  <2>2. Len(v.at[c]) = 0 => NoAnswerYet(v, c)
    BY <1>1, <1>3, <1>4, <2>1 DEF GivesUp, AnsweredOnce, NoAnswerYet
  <2>3. Len(v.at[c]) = 1 => \A i, j \in DOMAIN v.events : Response(v, i, c) /\ Response(v, j, c) => i = j
    BY <1>1, <1>4, <2>1 DEF GivesUp, AnsweredOnce
  <2>4. v.calls[c].state = "cancelled" /\ ~v.calls[c].late /\ (~v.calls[c].unseen => Shown(v, c))
    BY <1>2, <1>3, <1>4 DEF GivesUp
  <2>5. ~v.calls[c].kept \/ v.calls[c].missed => ~Shown(v, c)
    BY <1>1, <1>2, <1>3 DEF AnsweredOnce
  <2> QED BY <2>2, <2>3, <2>4, <2>5 DEF AnsweredOnce, Landed
<1>5. ASSUME NEW r \in Nat, v.at[c] = Append(u.at[c], r), GoesOn(u, v, c) \/ Settles(u, v, ev, c) \/ ComesLate(u, v, ev, c)
      PROVE  AnsweredOnce(v, c)
  <2> DEFINE n == Len(u.at[c])
  <2>1. /\ n \in Nat /\ Len(v.at[c]) = n + 1 /\ v.at[c][n + 1] = r
    BY <1>1, <1>5
  <2>2. n = 0 => /\ u.calls[c].state \in {"pending", "cancelled"} /\ ~u.calls[c].late /\ u.calls[c].releasedResultBytes = 0
                 /\ \A i \in DOMAIN u.events : ~Response(u, i, c)
    BY <1>1 DEF AnsweredOnce, NoAnswerYet
  <2>3. n = 0 => \A i \in DOMAIN v.events : Response(v, i, c) => i = Len(u.events) + 1
    BY <1>1, <2>2 DEF Longer, Response
  <2> HIDE DEF n
  <2>4. Len(v.at[c]) # 0 /\ (Len(v.at[c]) = 1 => n = 0)
    BY <2>1
  <2>5. Len(v.at[c]) = 1 => \A i, j \in DOMAIN v.events : Response(v, i, c) /\ Response(v, j, c) => i = j
    BY <2>3, <2>4
  <2>6. ~v.calls[c].kept \/ v.calls[c].missed => ~Shown(v, c)
    BY <1>1, <1>2, <1>3 DEF AnsweredOnce
  <2>7. CASE GoesOn(u, v, c)
    <3>1. Len(v.at[c]) = 1 => ~Landed(v.calls[c])
      BY <2>2, <2>4, <2>7 DEF GoesOn, Landed
    <3>2. /\ v.calls[c].state = "failed" => v.calls[c].unseen
          /\ v.calls[c].kept /\ v.calls[c].state # "pending" /\ ~v.calls[c].unseen => Shown(v, c)
      BY <1>1, <1>2, <1>3, <2>7 DEF AnsweredOnce, GoesOn
    <3> QED BY <1>3, <2>4, <2>5, <2>6, <2>7, <3>1, <3>2 DEF AnsweredOnce, GoesOn
  <2>8. CASE Settles(u, v, ev, c)
    <3>1. Len(v.at[c]) = 1 /\ Landed(v.calls[c]) /\ ~v.calls[c].unseen => Weighed(v, c)
      <4>1. v.calls[c].state = "completed" => v.calls[c].result = v.at[c][Len(v.at[c])]
        BY <2>8 DEF Settles
      <4>2. Landed(v.calls[c]) /\ ~v.calls[c].unseen => v.calls[c].state = "completed"
        BY <1>3, <2>8 DEF Settles, Landed
      <4> QED BY <1>3, <2>2, <2>4, <4>1, <4>2 DEF Weighed
    <3>2. /\ v.calls[c].state \in {"completed", "failed"} /\ (v.calls[c].state = "failed" => v.calls[c].unseen)
          /\ ~v.calls[c].unseen => Shown(v, c)
      BY <1>2, <2>8 DEF Settles
    <3>3. ~v.calls[c].late
      BY <1>3, <2>8 DEF Settles
    <3> QED BY <2>4, <2>5, <2>6, <3>1, <3>2, <3>3 DEF AnsweredOnce
  <2>9. CASE ComesLate(u, v, ev, c)
    <3>1. Len(v.at[c]) = 1 => Weighed(v, c)
      <4>1. v.calls[c].result = v.at[c][Len(v.at[c])]
        BY <2>9 DEF ComesLate
      <4> QED BY <1>3, <2>2, <2>4, <4>1 DEF Weighed
    <3>2. v.calls[c].state = "cancelled"
      BY <2>9 DEF ComesLate
    <3>3. ~v.calls[c].unseen => Shown(v, c)
      BY <1>1, <1>2, <2>9 DEF AnsweredOnce, ComesLate
    <3> QED BY <2>4, <2>5, <2>6, <3>1, <3>2, <3>3 DEF AnsweredOnce
  <2> QED BY <1>5, <2>7, <2>8, <2>9
<1> QED BY <1>4, <1>5 DEF Touches

(* A frame that tells of a call keeps a session sound. *)
LEMMA TellsKeeps ==
  ASSUME NEW u, SessionInv(u), NEW v, Shaped(v), NEW ev, NEW c, Tells(u, v, ev, c)
  PROVE  SessionInv(v)
<1>1. /\ Shaped(u) /\ Longer(u, v, ev) /\ u.calls \in Seq(CallRec) /\ v.calls \in Seq(CallRec) /\ DOMAIN v.calls = DOMAIN u.calls
      /\ v.at \in Seq(Seq(Nat)) /\ u.at \in Seq(Seq(Nat)) /\ DOMAIN u.at = DOMAIN u.calls /\ ~Opens(ev) /\ ev \in FrameRec
      /\ OneFrameMore(u, v, ev)
  <2>1. Shaped(u) /\ OneFrameMore(u, v, ev) /\ ~Opens(ev) /\ v.calls \in Seq(CallRec) /\ Len(v.calls) = Len(u.calls)
    BY DEF SessionInv, Tells
  <2>2. Longer(u, v, ev) /\ ev \in FrameRec
    BY <2>1, FramesAppended DEF OneFrameMore
  <2>3. /\ u.calls \in Seq(CallRec) /\ v.at \in Seq(Seq(Nat)) /\ u.at \in Seq(Seq(Nat)) /\ Len(u.at) = Len(u.calls)
    BY <2>1 DEF Shaped, SessionRec
  <2> QED BY <2>1, <2>2, <2>3
<1>2. ASSUME NEW d \in DOMAIN u.calls PROVE AnsweredOnce(v, d) /\ (ev.call = d => Touches(u, v, ev, d)) /\ (SameCall(u, v, d) \/ Touches(u, v, ev, d))
  <2>1. CASE ev.call # d /\ SameCall(u, v, d)
    BY <1>1, <2>1, OthersKeep
  <2>2. CASE Touches(u, v, ev, d)
    BY <1>1, <2>2, TouchedKeeps
  <2>3. d # 0
    BY <1>1
  <2> QED BY <2>1, <2>2, <2>3 DEF Tells, Touches
<1>3. \A d \in DOMAIN u.calls : Shown(v, d) <=> Shown(u, d)
  BY <1>1, ShownAppended
<1>4. Hidden(v) = Hidden(u)
  BY <1>1, <1>3 DEF Hidden
<1>5. ASSUME Plain(v), NEW d \in DOMAIN u.calls
      PROVE  /\ Len(u.at[d]) <= 1 /\ ~u.calls[d].unseen
             /\ d \in Hidden(u) => /\ v.calls[d].state = "pending" <=> u.calls[d].state = "pending"
                                   /\ Gave(v)[d] = Gave(u)[d]
  <2>1. Len(v.at[d]) <= 1 /\ ~v.calls[d].unseen
    BY <1>1, <1>5 DEF Plain
  <2>2. CASE SameCall(u, v, d)
    BY <1>1, <2>1, <2>2 DEF SameCall, Gave, Landed
  <2>3. AnsweredOnce(u, d)
    BY DEF SessionInv
  <2>4. CASE GivesUp(u, v, ev, d)
    <3>1. Len(u.at[d]) <= 1 /\ ~u.calls[d].unseen /\ Shown(u, d)
      BY <2>1, <2>3, <2>4 DEF GivesUp, AnsweredOnce
    <3> QED BY <3>1 DEF Hidden
  <2>5. CASE Touches(u, v, ev, d) /\ ~GivesUp(u, v, ev, d)
    <3> DEFINE n == Len(u.at[d])
    <3>1. PICK r \in Nat : v.at[d] = Append(u.at[d], r)
      BY <2>5 DEF Touches
    <3>2. u.at[d] \in Seq(Nat)
      BY <1>1
    <3>3. n \in Nat /\ Len(v.at[d]) = n + 1
      BY <3>1, <3>2
    <3>4. n = 0
      <4> HIDE DEF n
      <4> QED BY <2>1, <3>3
    <3>5. u.calls[d].state \in {"pending", "cancelled"} /\ ~u.calls[d].late
      BY <2>3, <3>4 DEF AnsweredOnce, NoAnswerYet
    <3>6. GoesOn(u, v, d) \/ Settles(u, v, ev, d) \/ ComesLate(u, v, ev, d)
      BY <2>5 DEF Touches
    <3>7. ~u.calls[d].unseen
      BY <2>1, <2>3, <3>6 DEF AnsweredOnce, GoesOn, Settles, ComesLate
    <3>8. d \in Hidden(u) => GoesOn(u, v, d)
      BY <2>1, <2>3, <3>6, <3>7 DEF AnsweredOnce, Settles, ComesLate, Hidden
    <3>9. d \in Hidden(u) => v.calls[d].state = u.calls[d].state /\ ~Landed(u.calls[d]) /\ ~Landed(v.calls[d])
      BY <3>5, <3>8 DEF GoesOn, Landed
    <3>10. d \in Hidden(u) => Gave(u)[d] = 0 /\ Gave(v)[d] = 0
      BY <1>1, <3>9 DEF Gave
    <3> HIDE DEF n
    <3>11. n <= 1
      BY <3>4
    <3> QED BY <3>7, <3>9, <3>10, <3>11 DEF n
  <2> QED BY <1>2, <2>2, <2>4, <2>5
<1>6. Plain(v) => Plain(u)
  BY <1>5 DEF Plain
<1>7. Hidden(u) \subseteq DOMAIN u.calls /\ v.toolStats = u.toolStats /\ \A d \in DOMAIN v.calls : AnsweredOnce(v, d)
  BY <1>1, <1>2 DEF Hidden, OneFrameMore
<1>8. StatsKept(v)
  BY <1>4, <1>5, <1>6, <1>7, StatsStay
<1>9. OpensOnce(v)
  <2>1. \A i \in DOMAIN v.events : Opens(v.events[i]) => i \in DOMAIN u.events /\ v.events[i] = u.events[i]
    BY <1>1 DEF Longer
  <2>2. ASSUME NEW i \in DOMAIN v.events, NEW j \in DOMAIN v.events, Opens(v.events[i]), v.events[j].call = v.events[i].call
        PROVE  i <= j
    <3>1. CASE j \in DOMAIN u.events
      BY <1>1, <2>1, <2>2, <3>1 DEF Longer, SessionInv, OpensOnce
    <3>2. CASE j \notin DOMAIN u.events
      <4>1. j = Len(u.events) + 1 /\ i \in 1 .. Len(u.events) /\ Len(u.events) \in Nat
        BY <1>1, <2>1, <2>2, <3>2 DEF Longer
      <4> QED BY <4>1
    <3> QED BY <3>1, <3>2
  <2> QED BY <2>2 DEF OpensOnce
<1> QED BY <1>7, <1>8, <1>9 DEF SessionInv

(* A request opens a call of its own. *)
OpensCall(u, v, ev) ==
  /\ OneFrameMore(u, v, ev) /\ Opens(ev) /\ ev.call = Len(u.calls) + 1
  /\ v.calls = Append(u.calls, NewCall) /\ v.at = Append(u.at, <<>>)

(* A frame that opens a call keeps a session sound. *)
LEMMA OpensKeeps ==
  ASSUME NEW u, SessionInv(u), NEW v, Shaped(v), NEW ev, OpensCall(u, v, ev)
  PROVE  SessionInv(v)
<1> DEFINE c == Len(u.calls) + 1
<1>1. /\ Shaped(u) /\ Longer(u, v, ev) /\ u.calls \in Seq(CallRec) /\ v.at \in Seq(Seq(Nat)) /\ u.at \in Seq(Seq(Nat))
      /\ Len(u.at) = Len(u.calls) /\ ev \in FrameRec /\ OneFrameMore(u, v, ev) /\ Opens(ev) /\ ev.call = c
      /\ \A i \in DOMAIN u.events : u.events[i].call <= Len(u.calls) /\ u.events[i] \in FrameRec
  <2>1. Shaped(u) /\ OneFrameMore(u, v, ev) /\ Opens(ev) /\ ev.call = c
    BY DEF SessionInv, OpensCall
  <2>2. Longer(u, v, ev) /\ ev \in FrameRec
    BY <2>1, FramesAppended DEF OneFrameMore
  <2>3. /\ u.calls \in Seq(CallRec) /\ v.at \in Seq(Seq(Nat)) /\ u.at \in Seq(Seq(Nat)) /\ Len(u.at) = Len(u.calls)
        /\ u.events \in Seq(FrameRec)
    BY <2>1 DEF Shaped, SessionRec
  <2>4. \A i \in DOMAIN u.events : u.events[i].call <= Len(u.calls) /\ u.events[i] \in FrameRec
    BY <2>1, <2>3 DEF Shaped
  <2> QED BY <2>1, <2>2, <2>3, <2>4
<1>2. /\ DOMAIN v.calls = DOMAIN u.calls \cup {c} /\ c \notin DOMAIN u.calls /\ c \in Nat /\ DOMAIN u.calls = 1 .. Len(u.calls)
      /\ v.calls[c] = NewCall /\ v.at[c] = <<>> /\ Len(u.calls) \in Nat
      /\ \A d \in DOMAIN u.calls : v.calls[d] = u.calls[d] /\ v.at[d] = u.at[d]
  <2>1. v.calls = Append(u.calls, NewCall) /\ v.at = Append(u.at, <<>>)
    BY DEF OpensCall
  <2>2. Len(u.calls) \in Nat /\ DOMAIN u.calls = 1 .. Len(u.calls) /\ DOMAIN u.at = 1 .. Len(u.calls)
    BY <1>1
  <2>3. /\ DOMAIN v.calls = 1 .. Len(u.calls) + 1 /\ v.calls[c] = NewCall /\ \A d \in DOMAIN u.calls : v.calls[d] = u.calls[d]
    BY <1>1, <2>1, <2>2
  <2>4. v.at[c] = <<>> /\ \A d \in DOMAIN u.calls : v.at[d] = u.at[d]
    BY <1>1, <2>1, <2>2
  <2> QED BY <2>2, <2>3, <2>4
<1>3. /\ \A i \in DOMAIN u.events : u.events[i].call # c
      /\ \A i \in DOMAIN v.events :
           (i \in DOMAIN u.events /\ v.events[i] = u.events[i]) \/ (i = Len(u.events) + 1 /\ v.events[i] = ev)
  <2>1. \A i \in DOMAIN u.events : u.events[i].call # c
    <3> SUFFICES ASSUME NEW i \in DOMAIN u.events PROVE u.events[i].call # c
      OBVIOUS
    <3> DEFINE n == Len(u.calls)
               d == u.events[i].call
    <3>1. d <= n /\ d \in Nat /\ n \in Nat /\ c = n + 1
      BY <1>1, <1>2 DEF FrameRec
    <3> HIDE DEF n, d
    <3>2. d # c
      BY <3>1
    <3> QED BY <3>2 DEF d
  <2>2. \A i \in DOMAIN v.events :
           (i \in DOMAIN u.events /\ v.events[i] = u.events[i]) \/ (i = Len(u.events) + 1 /\ v.events[i] = ev)
    BY <1>1 DEF Longer
  <2> QED BY <2>1, <2>2
<1>4. \A d \in DOMAIN u.calls : AnsweredOnce(v, d)
  <2> TAKE d \in DOMAIN u.calls
  <2>1. SameCall(u, v, d) /\ ev.call # d
    BY <1>1, <1>2 DEF SameCall
  <2> QED BY <1>1, <2>1, OthersKeep
<1>5. AnsweredOnce(v, c)
  <2>1. ev.kind = "request"
    BY <1>1 DEF Opens
  <2>2. \A i \in DOMAIN v.events : ~Response(v, i, c)
    BY <1>1, <1>3, <2>1 DEF Response
  <2>3. Len(v.at[c]) = 0
    BY <1>2
  <2> QED BY <1>2, <2>2, <2>3 DEF AnsweredOnce, NoAnswerYet, NewCall, Landed
<1>6. \A d \in DOMAIN u.calls : Shown(v, d) <=> Shown(u, d)
  BY <1>1, <1>2, ShownAppended
<1>7. Shown(v, c)
  <2>1. Len(u.events) + 1 \in DOMAIN v.events /\ v.events[Len(u.events) + 1] = ev
    BY <1>1 DEF Longer
  <2> QED BY <1>1, <2>1 DEF Shown, Opens
<1> HIDE DEF c
<1>8. Hidden(v) = Hidden(u)
  BY <1>2, <1>6, <1>7 DEF Hidden
<1>9. Plain(v) => Plain(u)
  BY <1>2 DEF Plain
<1>10. \A d \in DOMAIN u.calls : v.calls[d].state = u.calls[d].state /\ Gave(v)[d] = Gave(u)[d]
  BY <1>2 DEF Gave, Landed
<1>11. Hidden(u) \subseteq DOMAIN u.calls /\ v.toolStats = u.toolStats /\ \A d \in DOMAIN v.calls : AnsweredOnce(v, d)
  BY <1>1, <1>2, <1>4, <1>5 DEF Hidden, OneFrameMore
<1>12. StatsKept(v)
  BY <1>8, <1>9, <1>10, <1>11, StatsStay
<1>13. OpensOnce(v)
  <2> SUFFICES ASSUME NEW i \in DOMAIN v.events, NEW j \in DOMAIN v.events, Opens(v.events[i]), v.events[j].call = v.events[i].call
               PROVE  i <= j
    BY DEF OpensOnce
  <2>1. CASE i \in DOMAIN u.events /\ j \in DOMAIN u.events
    BY <1>1, <2>1 DEF Longer, SessionInv, OpensOnce
  <2>2. CASE i \notin DOMAIN u.events
    <3>1. v.events[i] = ev /\ i = Len(u.events) + 1
      BY <1>3, <2>2
    <3>2. j = Len(u.events) + 1
      BY <1>1, <1>3, <3>1
    <3> QED BY <1>1, <3>1, <3>2 DEF Longer
  <2>3. CASE i \in DOMAIN u.events /\ j \notin DOMAIN u.events
    <3>1. j = Len(u.events) + 1 /\ i \in 1 .. Len(u.events) /\ Len(u.events) \in Nat
      BY <1>1, <1>3, <2>3 DEF Longer
    <3> QED BY <3>1
  <2> QED BY <2>1, <2>2, <2>3
<1> QED BY <1>11, <1>12, <1>13 DEF SessionInv

(* A session's record apart from its calls. *)
SameFrames(u, w) ==
  /\ w.events = u.events /\ w.toolStats = u.toolStats /\ w.evictCursor = u.evictCursor /\ w.bodyBytes = u.bodyBytes

(* One call changed, and was answered once more. *)
Changed(u, w, c, call, n) ==
  /\ SameFrames(u, w) /\ Shaped(w) /\ Len(w.calls) = Len(u.calls)
  /\ w.calls[c] = call /\ w.at[c] = Append(u.at[c], n)
  /\ \A d \in DOMAIN u.calls \ {c} : w.calls[d] = u.calls[d] /\ w.at[d] = u.at[d]

(* Changing one call leaves the others. *)
LEMMA CallChanges ==
  ASSUME NEW u, Shaped(u), NEW c \in DOMAIN u.calls, NEW call \in CallRec, NEW n \in Nat,
         NEW w, w = [u EXCEPT !.calls[c] = call, !.at[c] = Append(@, n)]
  PROVE  Changed(u, w, c, call, n)
<1> DEFINE calls == [u.calls EXCEPT ![c] = call]
           at    == [u.at EXCEPT ![c] = Append(u.at[c], n)]
<1>1. /\ u \in SessionRec /\ u.calls \in Seq(CallRec) /\ u.at \in Seq(Seq(Nat)) /\ Len(u.at) = Len(u.calls)
      /\ DOMAIN u.at = DOMAIN u.calls /\ u.at[c] \in Seq(Nat)
  BY DEF Shaped, SessionRec
<1>2. /\ SameFrames(u, w) /\ w.calls = calls /\ w.at = at /\ w.last = u.last /\ w.dropped = u.dropped
      /\ w = [u EXCEPT !.calls = calls, !.at = at]
  <2>1. w = [u EXCEPT !.calls = calls, !.at = at]
    BY <1>1 DEF SessionRec
  <2> HIDE DEF calls, at
  <2> QED BY <1>1, <2>1 DEF SessionRec, SameFrames
<1>3. /\ calls \in Seq(CallRec) /\ Len(calls) = Len(u.calls) /\ calls[c] = call
      /\ \A d \in DOMAIN u.calls \ {c} : calls[d] = u.calls[d]
  BY <1>1
<1>4. Append(u.at[c], n) \in Seq(Nat)
  BY <1>1
<1>5. /\ at \in Seq(Seq(Nat)) /\ Len(at) = Len(u.at) /\ at[c] = Append(u.at[c], n)
      /\ \A d \in DOMAIN u.calls \ {c} : at[d] = u.at[d]
  BY <1>1, <1>4
<1> HIDE DEF calls, at
<1>6. w \in SessionRec
  BY <1>1, <1>2, <1>3, <1>5 DEF SessionRec
<1>7. Shaped(w)
  BY <1>1, <1>2, <1>3, <1>5, <1>6 DEF Shaped, SameFrames
<1> QED BY <1>2, <1>3, <1>5, <1>7 DEF Changed

(* What settling a call leaves of it (Settled). *)
SettlesTo(u, w, c, call, how, size, pointed) ==
  /\ Changed(u, w, c, call, size)
  /\ call.state = how /\ call.result = size /\ call.unseen = (~Shown(u, c) \/ ~pointed)
  /\ call.kept = u.calls[c].kept /\ call.releasedResultBytes = u.calls[c].releasedResultBytes
  /\ call.late = u.calls[c].late /\ call.missed = u.calls[c].missed

(* There is such a call. *)
LEMMA SettledIs ==
  ASSUME NEW u, Shaped(u), NEW c \in DOMAIN u.calls, NEW how \in CallState, NEW size \in Nat, NEW pointed \in BOOLEAN
  PROVE  \E call \in CallRec : SettlesTo(u, Settled(u, c, how, size, pointed), c, call, how, size, pointed)
<1> DEFINE unseen == ~Shown(u, c) \/ ~pointed
           call == [u.calls[c] EXCEPT !.state = how, !.parked = FALSE, !.result = size, !.unseen = unseen]
           w == Settled(u, c, how, size, pointed)
<1>1. /\ u \in SessionRec /\ u.calls \in Seq(CallRec) /\ u.calls[c] \in CallRec /\ u.at \in Seq(Seq(Nat)) /\ DOMAIN u.at = DOMAIN u.calls
  BY DEF Shaped, SessionRec
<1>2. unseen \in BOOLEAN
  BY DEF Shown
<1> HIDE DEF unseen
<1>3. /\ call \in CallRec /\ call.state = how /\ call.result = size /\ call.unseen = unseen
      /\ call.kept = u.calls[c].kept /\ call.releasedResultBytes = u.calls[c].releasedResultBytes
      /\ call.late = u.calls[c].late /\ call.missed = u.calls[c].missed
  BY <1>1, <1>2 DEF CallRec
<1>4. w = [u EXCEPT !.calls[c] = call, !.at[c] = Append(@, size)]
  BY <1>1 DEF Settled, unseen, SessionRec
<1> HIDE DEF call, w
<1>5. Changed(u, w, c, call, size)
  BY <1>3, <1>4, CallChanges
<1> QED BY <1>3, <1>5 DEF w, unseen, SettlesTo

-----------------------------------------------------------------------------
(* A frame that leaves the session well whatever its stamp. *)
AsFrame(ev, frame) == ev \in FrameRec /\ ev.kind = frame.kind /\ ev.call = frame.call /\ ev.continues = frame.continues
Fits(u, w, frame) ==
  /\ Shaped(w) /\ SameFrames(u, w) /\ frame \in FrameRec /\ frame.call <= Len(w.calls)
  /\ \A v, ev : Shaped(v) /\ OneFrameMore(u, v, ev) /\ v.calls = w.calls /\ v.at = w.at /\ AsFrame(ev, frame) => SessionInv(v)

Appended(w, v, ev, n, frame) ==
  /\ Shaped(v) /\ v.events = Append(w.events, ev) /\ v.calls = w.calls /\ v.at = w.at
  /\ v.toolStats = w.toolStats /\ v.evictCursor = w.evictCursor /\ v.bodyBytes = w.bodyBytes + n
  /\ AsFrame(ev, frame)

(* Appending a frame keeps the shape of a session (appendEvent). *)
LEMMA AppendShapes ==
  ASSUME NEW w, Shaped(w), NEW frame \in FrameRec, frame.call <= Len(w.calls), NEW ts \in Nat, NEW n \in Nat,
         NEW ev, ev = [frame EXCEPT !.ts = ts],
         NEW v, v = [w EXCEPT !.events = Append(@, ev), !.bodyBytes = @ + n, !.last = ts]
  PROVE  Appended(w, v, ev, n, frame)
<1> DEFINE events == Append(w.events, ev)
<1>1. ev \in FrameRec /\ ev.kind = frame.kind /\ ev.call = frame.call /\ ev.continues = frame.continues
  BY DEF FrameRec
<1>2. w \in SessionRec /\ w.events \in Seq(FrameRec) /\ w.bodyBytes + n \in Int /\ w.evictCursor <= Len(w.events) /\ w.evictCursor \in Nat
  BY DEF Shaped, SessionRec
<1>3. /\ v.events = events /\ v.calls = w.calls /\ v.at = w.at /\ v.toolStats = w.toolStats
      /\ v.evictCursor = w.evictCursor /\ v.bodyBytes = w.bodyBytes + n
      /\ v = [w EXCEPT !.events = events, !.bodyBytes = w.bodyBytes + n, !.last = ts]
  BY <1>2 DEF SessionRec
<1>4. events \in Seq(FrameRec) /\ Len(events) = Len(w.events) + 1 /\ Len(w.events) \in Nat
  BY <1>1, <1>2
<1>5. \A i \in DOMAIN events : events[i].call <= Len(w.calls)
  <2> TAKE i \in DOMAIN events
  <2>1. events[i] = ev \/ (i \in DOMAIN w.events /\ events[i] = w.events[i])
    BY <1>1, <1>2
  <2> QED BY <1>1, <2>1 DEF Shaped
<1> HIDE DEF events
<1>6. v \in SessionRec
  BY <1>2, <1>3, <1>4 DEF SessionRec
<1>7. Shaped(v)
  BY <1>2, <1>3, <1>4, <1>5, <1>6 DEF Shaped
<1> QED BY <1>1, <1>3, <1>7 DEF Appended, AsFrame, events

(* A frame that says something of one call, or nothing of any. *)
LEMMA TellingFits ==
  ASSUME NEW u, SessionInv(u), NEW w, NEW frame \in FrameRec, ~Opens(frame), Shaped(w), SameFrames(u, w), Len(w.calls) = Len(u.calls),
         NEW c, \A d \in DOMAIN u.calls \ {c} : SameCall(u, w, d),
         (frame.call = 0 /\ \A d \in DOMAIN u.calls : SameCall(u, w, d)) \/ Touches(u, w, frame, c)
  PROVE  Fits(u, w, frame)
<1>1. ASSUME NEW v, NEW ev, Shaped(v), OneFrameMore(u, v, ev), v.calls = w.calls, v.at = w.at, AsFrame(ev, frame)
      PROVE  SessionInv(v)
  <2>1. ev.call = frame.call /\ ~Opens(ev)
    BY <1>1 DEF AsFrame, Opens
  <2>2. \A d : SameCall(u, w, d) <=> SameCall(u, v, d)
    BY <1>1 DEF SameCall
  <2>3. Touches(u, w, frame, c) => Touches(u, v, ev, c)
    BY <1>1, <2>1 DEF Touches, GoesOn, Settles, ComesLate, GivesUp, AsFrame
  <2>4. v.calls \in Seq(CallRec) /\ Len(v.calls) = Len(u.calls)
    BY <1>1 DEF Shaped, SessionRec
  <2>5. Tells(u, v, ev, c)
    BY <1>1, <2>1, <2>2, <2>3, <2>4 DEF Tells
  <2> QED BY <1>1, <2>5, TellsKeeps
<1>2. frame.call <= Len(w.calls)
  <2>1. u.calls \in Seq(CallRec) /\ Len(u.calls) \in Nat
    BY DEF SessionInv, Shaped, SessionRec
  <2> QED BY <2>1 DEF Touches
<1> QED BY <1>1, <1>2 DEF Fits

(* A request's frame fits the session it opens a call in. *)
LEMMA OpeningFits ==
  ASSUME NEW u, SessionInv(u),
         NEW w, w = [u EXCEPT !.calls = Append(@, NewCall), !.at = Append(@, <<>>)]
  PROVE  Fits(u, w, Frame("request", Len(w.calls), FALSE))
<1> DEFINE calls == Append(u.calls, NewCall)
           at    == Append(u.at, <<>>)
           frame == Frame("request", Len(w.calls), FALSE)
<1>1. /\ Shaped(u) /\ u \in SessionRec /\ u.calls \in Seq(CallRec) /\ u.at \in Seq(Seq(Nat)) /\ Len(u.at) = Len(u.calls)
  BY DEF SessionInv, Shaped, SessionRec
<1>2. /\ w.calls = calls /\ w.at = at /\ SameFrames(u, w) /\ w = [u EXCEPT !.calls = calls, !.at = at]
  BY <1>1 DEF SessionRec, SameFrames
<1>3. NewCall \in CallRec
  BY DEF NewCall, CallRec, CallState
<1>4. calls \in Seq(CallRec) /\ Len(calls) = Len(u.calls) + 1 /\ Len(u.calls) \in Nat
  BY <1>1, <1>3
<1>5. at \in Seq(Seq(Nat)) /\ Len(at) = Len(u.at) + 1
  <2>1. <<>> \in Seq(Nat)
    OBVIOUS
  <2> QED BY <1>1, <2>1
<1> HIDE DEF calls, at
<1>6. w \in SessionRec
  BY <1>1, <1>2, <1>4, <1>5 DEF SessionRec
<1>7. Shaped(w)
  <2>1. \A i \in DOMAIN u.events : u.events[i].call <= Len(u.calls) /\ u.events[i].call \in Nat
    <3>1. u.events \in Seq(FrameRec)
      BY <1>1 DEF SessionRec
    <3>2. \A i \in DOMAIN u.events : u.events[i] \in FrameRec
      BY <3>1
    <3> QED BY <1>1, <3>2 DEF Shaped, FrameRec
  <2>2. \A i \in DOMAIN u.events : u.events[i].call <= Len(w.calls)
    BY <1>2, <1>4, <2>1
  <2> QED BY <1>1, <1>2, <1>4, <1>5, <1>6, <2>2 DEF Shaped, SameFrames
<1>8. /\ frame \in FrameRec /\ Opens(frame) /\ frame.call = Len(u.calls) + 1
  BY <1>2, <1>4 DEF Frame, FrameRec, FrameKind, Opens
<1> HIDE DEF frame
<1>9. ASSUME NEW v, NEW ev, Shaped(v), OneFrameMore(u, v, ev), v.calls = w.calls, v.at = w.at, AsFrame(ev, frame)
      PROVE  SessionInv(v)
  <2>1. OpensCall(u, v, ev)
    BY <1>2, <1>8, <1>9 DEF OpensCall, AsFrame, Opens, calls, at
  <2> QED BY <1>9, <2>1, OpensKeeps
<1>10. frame.call <= Len(w.calls)
  BY <1>2, <1>4, <1>8
<1>11. Fits(u, w, frame)
  BY <1>2, <1>7, <1>8, <1>9, <1>10 DEF Fits
<1> QED BY <1>11 DEF frame

FramesOf(held) == [s \in Session |-> Len(held[s].events)]
BytesOf(held) == [s \in Session |-> held[s].bodyBytes]
FramesHeld == FramesOf(sessions)
BytesHeld == BytesOf(sessions)
Sums ==
  /\ frames = SumOn(FramesHeld, Session) /\ payloadBytes = SumOn(BytesHeld, Session)
Limits ==
  /\ phase = "frames" /\ PayloadLimit > 0 => payloadBytes <= PayloadLimit \/ Retained = {}
  /\ phase = "idle" /\ FrameLimit > 0 => frames <= FrameLimit
BoundInv ==
  /\ sessions \in [Session -> SessionRec] /\ (\A s \in Session : SessionInv(sessions[s]))
  /\ Sums /\ Limits

(* What the sessions hold are numbers that can be summed. *)
LEMMA HeldAreNumbers ==
  ASSUME NEW held, \A s \in Session : SessionInv(held[s])
  PROVE  /\ Numbers(FramesOf(held)) /\ Numbers(BytesOf(held)) /\ DOMAIN FramesOf(held) = Session /\ DOMAIN BytesOf(held) = Session
         /\ IsFiniteSet(Session) /\ \A s \in Session : FramesOf(held)[s] \in Nat
<1>1. ASSUME NEW s \in Session PROVE Len(held[s].events) \in Nat /\ held[s].bodyBytes \in Int
  <2>1. held[s] \in SessionRec
    BY DEF SessionInv, Shaped
  <2>2. held[s].events \in Seq(FrameRec)
    BY <2>1 DEF SessionRec
  <2> QED BY <2>1, <2>2 DEF SessionRec
<1> QED BY <1>1, BoundedStoreAssumption DEF FramesOf, BytesOf, Numbers

(* The sums follow the change of one session. *)
OneSession(s, v) ==
  /\ sessions' = [sessions EXCEPT ![s] = v] /\ SessionInv(v)
  /\ payloadBytes' = payloadBytes + v.bodyBytes - sessions[s].bodyBytes
  /\ frames' = frames + Len(v.events) - Len(sessions[s].events)

(* A change of one session, counted, keeps the sums. *)
LEMMA SessionChanges ==
  ASSUME BoundInv, NEW s \in Session, NEW v, OneSession(s, v)
  PROVE  /\ sessions' \in [Session -> SessionRec] /\ (\A t \in Session : SessionInv(sessions[t])') /\ Sums'
         /\ sessions'[s] = v /\ \A t \in Session \ {s} : sessions'[t] = sessions[t]
<1>1. /\ sessions' \in [Session -> SessionRec] /\ sessions'[s] = v /\ (\A t \in Session \ {s} : sessions'[t] = sessions[t])
  <2>1. v \in SessionRec /\ sessions \in [Session -> SessionRec]
    BY DEF OneSession, SessionInv, Shaped, BoundInv
  <2> QED BY <2>1 DEF OneSession
<1>2. \A t \in Session : SessionInv(sessions[t])'
  <2>1. \A t \in Session : SessionInv(sessions'[t])
    BY <1>1 DEF OneSession, BoundInv
  <2> QED BY <2>1
<1>3. /\ Numbers(FramesHeld) /\ Numbers(BytesHeld) /\ DOMAIN FramesHeld = Session /\ DOMAIN BytesHeld = Session
      /\ IsFiniteSet(Session)
  BY HeldAreNumbers DEF BoundInv, FramesHeld, BytesHeld
<1>4. /\ Numbers(FramesHeld') /\ Numbers(BytesHeld') /\ DOMAIN FramesHeld' = Session /\ DOMAIN BytesHeld' = Session
  <2>1. \A t \in Session : SessionInv(sessions'[t])
    BY <1>2
  <2> QED BY <2>1, HeldAreNumbers DEF FramesHeld, BytesHeld
<1>5. /\ \A t \in Session \ {s} : FramesHeld'[t] = FramesHeld[t] /\ BytesHeld'[t] = BytesHeld[t]
      /\ FramesHeld'[s] = Len(v.events) /\ BytesHeld'[s] = v.bodyBytes
      /\ FramesHeld[s] = Len(sessions[s].events) /\ BytesHeld[s] = sessions[s].bodyBytes
  BY <1>1 DEF FramesHeld, BytesHeld, FramesOf, BytesOf
<1>6. SumOn(FramesHeld', Session) = SumOn(FramesHeld, Session) - FramesHeld[s] + FramesHeld'[s]
  BY <1>3, <1>4, <1>5, OneTermChanges
<1>7. SumOn(BytesHeld', Session) = SumOn(BytesHeld, Session) - BytesHeld[s] + BytesHeld'[s]
  BY <1>3, <1>4, <1>5, OneTermChanges
<1>8. SumOn(FramesHeld, Session) \in Int /\ SumOn(BytesHeld, Session) \in Int
  BY <1>3, SumIsNumber
<1>9. FramesHeld[s] \in Int /\ FramesHeld'[s] \in Int /\ BytesHeld[s] \in Int /\ BytesHeld'[s] \in Int
  BY <1>3, <1>4 DEF Numbers
<1>10. frames = SumOn(FramesHeld, Session) /\ payloadBytes = SumOn(BytesHeld, Session)
  BY DEF BoundInv, Sums
<1>11. frames' = SumOn(FramesHeld', Session)
  <2>1. frames' = frames + Len(v.events) - Len(sessions[s].events)
    BY DEF OneSession
  <2>2. frames' = frames + FramesHeld'[s] - FramesHeld[s]
    BY <1>5, <2>1
  <2> QED BY <1>6, <1>8, <1>9, <1>10, <2>2
<1>12. payloadBytes' = SumOn(BytesHeld', Session)
  <2>1. payloadBytes' = payloadBytes + v.bodyBytes - sessions[s].bodyBytes
    BY DEF OneSession
  <2> QED BY <1>5, <1>7, <1>8, <1>9, <1>10, <2>1
<1> QED BY <1>1, <1>2, <1>11, <1>12 DEF Sums

(* With no frame held anywhere none is counted. *)
LEMMA NoneHeld ==
  ASSUME BoundInv, Holding = {} PROVE frames = 0
<1>1. /\ Numbers(FramesHeld) /\ DOMAIN FramesHeld = Session /\ IsFiniteSet(Session)
  BY HeldAreNumbers DEF BoundInv, FramesHeld, BytesHeld
<1>2. \A s \in Session : FramesHeld[s] = 0
  BY DEF Holding, FramesHeld, FramesOf
<1>3. SumOn(FramesHeld, Session) = 0
  BY <1>1, <1>2, SumOfZeros
<1> QED BY <1>3 DEF BoundInv, Sums

(* The two counters are integers. *)
LEMMA CountsAreNumbers == ASSUME BoundInv PROVE frames \in Int /\ payloadBytes \in Int
<1>1. /\ Numbers(FramesHeld) /\ Numbers(BytesHeld) /\ DOMAIN FramesHeld = Session /\ DOMAIN BytesHeld = Session
      /\ IsFiniteSet(Session)
  BY HeldAreNumbers DEF BoundInv, FramesHeld, BytesHeld
<1> QED BY <1>1, SumIsNumber DEF BoundInv, Sums

-----------------------------------------------------------------------------
(* A session the store does not know is sound. *)
LEMMA UnknownIsWell == SessionInv(Unknown)
<1>1. Unknown \in SessionRec
  BY DEF Unknown, SessionRec, StatsRec
<1>2. Shaped(Unknown)
  BY <1>1 DEF Shaped, Unknown
<1>3. DOMAIN Unknown.calls = {} /\ DOMAIN Unknown.events = {}
  BY DEF Unknown
<1>4. Hidden(Unknown) = {}
  BY <1>3 DEF Hidden
<1>5. StillOpen(Unknown, {}) = {} /\ Cardinality({}) = 0
  BY FS_EmptySet DEF StillOpen
<1>6. Numbers(Gave(Unknown))
  BY <1>3 DEF Numbers, Gave
<1>7. SumOn(Gave(Unknown), {}) = 0
  BY <1>6, SumOfNone
<1>8. StatsKept(Unknown)
  BY <1>4, <1>5, <1>7 DEF StatsKept, Unknown
<1> QED BY <1>2, <1>3, <1>8 DEF SessionInv, OpensOnce

(* The empty store satisfies the invariant (NewBounded). *)
LEMMA InitIsBound == ASSUME BoundInit PROVE BoundInv
<1>1. sessions = [s \in Session |-> Unknown] /\ payloadBytes = 0 /\ frames = 0 /\ phase = "idle"
  BY DEF BoundInit
<1>2. \A s \in Session : sessions[s] = Unknown
  BY <1>1
<1>3. sessions \in [Session -> SessionRec] /\ \A s \in Session : SessionInv(sessions[s])
  <2>1. Unknown \in SessionRec
    BY UnknownIsWell DEF SessionInv, Shaped
  <2> QED BY <1>1, <1>2, <2>1, UnknownIsWell
<1>4. \A s \in Session : FramesHeld[s] = 0 /\ BytesHeld[s] = 0
  BY <1>2 DEF FramesHeld, BytesHeld, FramesOf, BytesOf, Unknown
<1>5. /\ Numbers(FramesHeld) /\ Numbers(BytesHeld) /\ DOMAIN FramesHeld = Session /\ DOMAIN BytesHeld = Session
      /\ IsFiniteSet(Session)
  BY <1>3, HeldAreNumbers DEF FramesHeld, BytesHeld
<1>6. SumOn(FramesHeld, Session) = 0 /\ SumOn(BytesHeld, Session) = 0
  BY <1>4, <1>5, SumOfZeros
<1> QED BY <1>1, <1>3, <1>6, BoundedStoreAssumption DEF BoundInv, Sums, Limits

-----------------------------------------------------------------------------
(* A frame comes in. *)
LEMMA FrameComesIn ==
  ASSUME BoundInv, NEW s \in Session, NEW w, NEW frame, Fits(sessions[s], w, frame), AppendEvent(s, w, frame)
  PROVE  BoundInv'
<1> DEFINE u == sessions[s]
<1>1. PICK ts \in w.last .. MaxTime :
        /\ sessions' = [sessions EXCEPT ![s] =
             [w EXCEPT !.events = Append(@, [frame EXCEPT !.ts = ts]), !.bodyBytes = @ + BodyWeight(w, [frame EXCEPT !.ts = ts]),
                !.last = ts]]
        /\ payloadBytes' = payloadBytes + BodyWeight(w, [frame EXCEPT !.ts = ts])
  BY DEF AppendEvent
<1> DEFINE ev == [frame EXCEPT !.ts = ts]
           n  == BodyWeight(w, ev)
           v  == [w EXCEPT !.events = Append(@, ev), !.bodyBytes = @ + n, !.last = ts]
<1>2. /\ Shaped(w) /\ SameFrames(u, w) /\ frame \in FrameRec /\ frame.call <= Len(w.calls) /\ SessionInv(u)
  BY DEF Fits, BoundInv
<1>3. ts \in Nat
  BY <1>2, BoundedStoreAssumption DEF Shaped, SessionRec
<1>4. ev \in FrameRec /\ ev.call = frame.call
  BY <1>2, <1>3 DEF FrameRec
<1>5. n \in Nat
  <2>1. ev.call <= Len(w.calls) /\ ev.call \in Nat /\ ev.raw \in Nat /\ w.calls \in Seq(CallRec)
    BY <1>2, <1>4 DEF FrameRec, Shaped, SessionRec
  <2> HIDE DEF ev
  <2>2. ev.call # 0 => w.calls[ev.call] \in CallRec
    BY <2>1
  <2>3. ev.call # 0 => w.calls[ev.call].params \in Nat /\ w.calls[ev.call].result \in Nat
    BY <2>2 DEF CallRec
  <2> QED BY <2>1, <2>3 DEF BodyWeight
<1> HIDE DEF ev, n
<1>6. /\ Shaped(v) /\ v.events = Append(w.events, ev) /\ v.calls = w.calls /\ v.at = w.at
      /\ v.toolStats = w.toolStats /\ v.evictCursor = w.evictCursor /\ v.bodyBytes = w.bodyBytes + n
      /\ AsFrame(ev, frame)
  <2>1. ev = [frame EXCEPT !.ts = ts]
    BY DEF ev
  <2>2. Appended(w, v, ev, n, frame)
    BY <1>2, <1>3, <1>5, <2>1, AppendShapes
  <2> HIDE DEF v
  <2> QED BY <2>2 DEF Appended
<1>7. sessions' = [sessions EXCEPT ![s] = v] /\ payloadBytes' = payloadBytes + n /\ frames' = frames + 1 /\ phase' = "bodies"
  BY <1>1 DEF ev, n, AppendEvent
<1> HIDE DEF v
<1>8. OneFrameMore(u, v, ev)
  BY <1>2, <1>4, <1>6 DEF OneFrameMore, SameFrames
<1>9. SessionInv(v)
  BY <1>6, <1>8 DEF Fits
<1>10. Len(v.events) = Len(u.events) + 1 /\ Len(u.events) \in Nat
  <2>1. u.events \in Seq(FrameRec)
    BY <1>2 DEF SessionInv, Shaped, SessionRec
  <2> QED BY <1>4, <1>8, <2>1 DEF OneFrameMore
<1>11. v.bodyBytes = u.bodyBytes + n /\ u.bodyBytes \in Int
  BY <1>2, <1>6 DEF SameFrames, SessionInv, Shaped, SessionRec
<1>12. frames \in Int /\ payloadBytes \in Int
  BY CountsAreNumbers
<1>13. OneSession(s, v)
  <2>1. frames' = frames + Len(v.events) - Len(u.events)
    <3> DEFINE a == Len(u.events)
               b == Len(v.events)
    <3>1. b = a + 1 /\ a \in Nat
      BY <1>10
    <3> HIDE DEF a, b
    <3>2. frames + 1 = frames + b - a
      BY <1>12, <3>1
    <3> QED BY <1>7, <3>2 DEF a, b
  <2>2. payloadBytes' = payloadBytes + v.bodyBytes - u.bodyBytes
    BY <1>5, <1>7, <1>11, <1>12
  <2> QED BY <1>7, <1>9, <2>1, <2>2 DEF OneSession
<1>14. sessions' \in [Session -> SessionRec] /\ (\A t \in Session : SessionInv(sessions[t])') /\ Sums'
  BY <1>13, SessionChanges
<1>15. Limits'
  BY <1>7 DEF Limits
<1> QED BY <1>14, <1>15 DEF BoundInv

(* A request keeps the invariant. *)
LEMMA RequestsKeep == ASSUME BoundInv, NEW s \in Session, Requests(s) PROVE BoundInv'
<1> DEFINE u == sessions[s]
           w == [u EXCEPT !.calls = Append(@, NewCall), !.at = Append(@, <<>>)]
<1>1. SessionInv(u)
  BY DEF BoundInv
<1>2. AppendEvent(s, w, Frame("request", Len(w.calls), FALSE))
  BY DEF Requests
<1> HIDE DEF u
<1>3. Fits(u, w, Frame("request", Len(w.calls), FALSE))
  BY <1>1, OpeningFits
<1> HIDE DEF w
<1> QED BY <1>2, <1>3, FrameComesIn DEF u

(* A frame about a call that is pending, or was answered. *)
LEMMA PendingIs ==
  ASSUME NEW u, Shaped(u), NEW c \in Pending(u)
  PROVE  c \in DOMAIN u.calls /\ u.calls[c].state = "pending" /\ u.calls[c] \in CallRec /\ u.calls[c].result \in Nat
         /\ c \in Nat /\ c # 0
<1>1. c \in DOMAIN u.calls /\ u.calls[c].state = "pending" /\ u.calls \in Seq(CallRec)
  BY DEF Pending, Shaped, SessionRec
<1>2. u.calls[c] \in CallRec /\ c \in Nat /\ c # 0
  BY <1>1
<1> QED BY <1>1, <1>2 DEF CallRec

(* A frame that settles a call fits the session. *)
LEMMA SettlingFits ==
  ASSUME NEW u, SessionInv(u), NEW c \in Pending(u), NEW how \in CallState, NEW size \in Nat, NEW pointed \in BOOLEAN,
         NEW frame \in FrameRec, ~Opens(frame),
         \/ how = "completed" /\ frame.call = c
         \/ how = "failed" /\ ~pointed /\ frame.call = 0
  PROVE  Fits(u, Settled(u, c, how, size, pointed), frame)
<1> DEFINE w == Settled(u, c, how, size, pointed)
<1>1. c \in DOMAIN u.calls /\ u.calls[c].state = "pending" /\ Shaped(u) /\ u.at \in Seq(Seq(Nat)) /\ DOMAIN u.at = DOMAIN u.calls
  <2>1. Shaped(u)
    BY DEF SessionInv
  <2>2. u.at \in Seq(Seq(Nat)) /\ u.calls \in Seq(CallRec) /\ Len(u.at) = Len(u.calls)
    BY <2>1 DEF Shaped, SessionRec
  <2> QED BY <2>1, <2>2, PendingIs
<1>2. PICK call \in CallRec :
        /\ Changed(u, w, c, call, size)
        /\ call.state = how /\ call.result = size /\ call.unseen = (~Shown(u, c) \/ ~pointed)
        /\ call.kept = u.calls[c].kept /\ call.releasedResultBytes = u.calls[c].releasedResultBytes
        /\ call.late = u.calls[c].late /\ call.missed = u.calls[c].missed
  <2>1. PICK call \in CallRec : SettlesTo(u, w, c, call, how, size, pointed)
    BY <1>1, SettledIs
  <2> QED BY <2>1 DEF SettlesTo
<1> HIDE DEF w
<1>3. /\ SameFrames(u, w) /\ Shaped(w) /\ Len(w.calls) = Len(u.calls) /\ w.calls[c] = call /\ w.at[c] = Append(u.at[c], size)
      /\ \A d \in DOMAIN u.calls \ {c} : SameCall(u, w, d)
  BY <1>2 DEF Changed, SameCall
<1>4. w.at[c][Len(w.at[c])] = size
  <2>1. u.at[c] \in Seq(Nat)
    BY <1>1
  <2> QED BY <1>3, <2>1
<1>5. Settles(u, w, frame, c)
  BY <1>1, <1>2, <1>3, <1>4 DEF Settles
<1>6. Touches(u, w, frame, c)
  BY <1>1, <1>2, <1>3, <1>5 DEF Touches
<1>7. Fits(u, w, frame)
  BY <1>3, <1>6, TellingFits
<1> QED BY <1>7 DEF w

(* So does a frame by which a call goes on: a repeat, an input_required, a retry. *)
LEMMA GoingOnFits ==
  ASSUME NEW u, SessionInv(u), NEW c \in DOMAIN u.calls,
         NEW w, SameFrames(u, w), Shaped(w), Len(w.calls) = Len(u.calls), NEW n \in Nat, w.at[c] = Append(u.at[c], n),
         w.calls[c].state = u.calls[c].state, w.calls[c].unseen = u.calls[c].unseen, w.calls[c].kept = u.calls[c].kept,
         w.calls[c].releasedResultBytes = u.calls[c].releasedResultBytes,
         w.calls[c].late = u.calls[c].late, w.calls[c].missed = u.calls[c].missed,
         \A d \in DOMAIN u.calls \ {c} : SameCall(u, w, d),
         NEW frame \in FrameRec, ~Opens(frame), frame.call = c
  PROVE  Fits(u, w, frame)
<1>1. GoesOn(u, w, c)
  BY DEF GoesOn
<1>2. Touches(u, w, frame, c)
  BY <1>1 DEF Touches
<1> QED BY <1>2, TellingFits

(* Answers and ends told elsewhere keep the invariant. *)
LEMMA SettlingsKeep ==
  ASSUME BoundInv, NEW s \in Session, Answers(s) \/ EndsElsewhere(s)
  PROVE  BoundInv'
<1> DEFINE u == sessions[s]
<1>1. SessionInv(u) /\ Shaped(u)
  BY DEF BoundInv, SessionInv
<1>2. CASE Answers(s)
  <2>1. PICK c \in Pending(u), size \in Sizes :
          AppendEvent(s, Settled(u, c, "completed", size, TRUE), Frame("response", c, FALSE))
    BY <1>2 DEF Answers
  <2> HIDE DEF u
  <2>2. size \in Nat /\ c \in Nat /\ c # 0
    BY <1>1, PendingIs, BoundedStoreAssumption
  <2> DEFINE frame == Frame("response", c, FALSE)
  <2>3. frame \in FrameRec /\ ~Opens(frame) /\ frame.call = c
    BY <2>2 DEF Frame, FrameRec, FrameKind, Opens
  <2> HIDE DEF frame
  <2>4. Fits(u, Settled(u, c, "completed", size, TRUE), frame)
    BY <1>1, <2>2, <2>3, SettlingFits DEF CallState
  <2> QED BY <2>1, <2>4, FrameComesIn DEF frame, u
<1>3. CASE EndsElsewhere(s)
  <2>1. PICK c \in Pending(u), size \in Sizes \cup {0} :
          AppendEvent(s, Settled(u, c, "failed", size, FALSE), Frame("transport", 0, FALSE))
    BY <1>3 DEF EndsElsewhere
  <2> HIDE DEF u
  <2>2. size \in Nat
    BY BoundedStoreAssumption
  <2> DEFINE frame == Frame("transport", 0, FALSE)
  <2>3. frame \in FrameRec /\ ~Opens(frame) /\ frame.call = 0
    BY DEF Frame, FrameRec, FrameKind, Opens
  <2> HIDE DEF frame
  <2>4. Fits(u, Settled(u, c, "failed", size, FALSE), frame)
    BY <1>1, <2>2, <2>3, SettlingFits DEF CallState
  <2> QED BY <2>1, <2>4, FrameComesIn DEF frame, u
<1> QED BY <1>2, <1>3

(* Changing one call, its answers as they are. *)
CallIs(u, w, c, call) ==
  /\ SameFrames(u, w) /\ Shaped(w) /\ Len(w.calls) = Len(u.calls) /\ w.calls[c] = call /\ w.at = u.at
  /\ \A d \in DOMAIN u.calls \ {c} : w.calls[d] = u.calls[d]

(* That leaves the other calls. *)
LEMMA OneCallChanges ==
  ASSUME NEW u, Shaped(u), NEW c \in DOMAIN u.calls, NEW call \in CallRec, NEW w, w = [u EXCEPT !.calls[c] = call]
  PROVE  CallIs(u, w, c, call)
<1> DEFINE calls == [u.calls EXCEPT ![c] = call]
<1>1. /\ u \in SessionRec /\ u.calls \in Seq(CallRec) /\ Len(u.at) = Len(u.calls)
  BY DEF Shaped, SessionRec
<1>2. /\ SameFrames(u, w) /\ w.calls = calls /\ w.at = u.at /\ w = [u EXCEPT !.calls = calls]
  <2>1. w = [u EXCEPT !.calls = calls]
    BY <1>1 DEF SessionRec
  <2> HIDE DEF calls
  <2> QED BY <1>1, <2>1 DEF SessionRec, SameFrames
<1>3. /\ calls \in Seq(CallRec) /\ Len(calls) = Len(u.calls) /\ calls[c] = call
      /\ \A d \in DOMAIN u.calls \ {c} : calls[d] = u.calls[d]
  BY <1>1
<1> HIDE DEF calls
<1>4. w \in SessionRec
  BY <1>1, <1>2, <1>3 DEF SessionRec
<1>5. Shaped(w)
  BY <1>1, <1>2, <1>3, <1>4 DEF Shaped, SameFrames
<1> QED BY <1>2, <1>3, <1>5 DEF CallIs

(* A cancellation keeps the invariant. *)
LEMMA CancelsKeep == ASSUME BoundInv, NEW s \in Session, Cancels(s) PROVE BoundInv'
<1> DEFINE u == sessions[s]
<1>1. SessionInv(u) /\ Shaped(u)
  BY DEF BoundInv, SessionInv
<1>2. PICK c \in Pending(u) : AppendEvent(s, GivenUp(u, c), Frame("notification", c, FALSE))
  BY DEF Cancels
<1> HIDE DEF u
<1> DEFINE unseen == ~Shown(u, c)
           call == [u.calls[c] EXCEPT !.state = "cancelled", !.parked = FALSE, !.unseen = unseen]
           w == GivenUp(u, c)
           frame == Frame("notification", c, FALSE)
<1>3. c \in DOMAIN u.calls /\ u.calls[c].state = "pending" /\ u.calls[c] \in CallRec /\ c \in Nat /\ u \in SessionRec
  BY <1>1, PendingIs DEF Shaped
<1>4. frame \in FrameRec /\ ~Opens(frame) /\ frame.call = c /\ frame.kind # "response"
  BY <1>3 DEF Frame, FrameRec, FrameKind, Opens
<1>5. w = [u EXCEPT !.calls[c] = call]
  BY DEF GivenUp
<1>6. unseen \in BOOLEAN /\ (~unseen => Shown(u, c))
  BY DEF Shown
<1> HIDE DEF unseen, w, frame
<1>7. /\ call \in CallRec /\ call.state = "cancelled" /\ call.unseen = unseen /\ call.kept = u.calls[c].kept
      /\ call.releasedResultBytes = u.calls[c].releasedResultBytes
      /\ call.late = u.calls[c].late /\ call.missed = u.calls[c].missed
  BY <1>3, <1>6 DEF CallRec, CallState
<1> HIDE DEF call
<1>8. CallIs(u, w, c, call)
  BY <1>1, <1>3, <1>5, <1>7, OneCallChanges
<1>9. \A d \in DOMAIN u.calls \ {c} : SameCall(u, w, d)
  BY <1>8 DEF CallIs, SameCall
<1>10. GivesUp(u, w, frame, c)
  BY <1>3, <1>4, <1>6, <1>7, <1>8 DEF CallIs, GivesUp
<1>11. Touches(u, w, frame, c)
  BY <1>3, <1>4, <1>7, <1>8, <1>10 DEF CallIs, Touches
<1>12. Fits(u, w, frame)
  BY <1>1, <1>4, <1>8, <1>9, <1>11, TellingFits DEF CallIs
<1> QED BY <1>2, <1>12, FrameComesIn DEF frame, w, u

(* An answer to a cancelled call keeps the invariant, whether the store still has the call or not. *)
LEMMA AnswersLateKeep == ASSUME BoundInv, NEW s \in Session, AnswersLate(s) PROVE BoundInv'
<1> DEFINE u == sessions[s]
<1>1. SessionInv(u) /\ Shaped(u)
  BY DEF BoundInv, SessionInv
<1>2. PICK c \in DOMAIN u.calls, size \in Sizes \cup {0} :
        /\ u.calls[c].state = "cancelled" /\ ~u.calls[c].late
        /\ \/ /\ u.calls[c].kept
              /\ AppendEvent(s, [u EXCEPT !.calls[c].late = TRUE, !.calls[c].result = size, !.at[c] = Append(@, size)],
                             Frame("response", c, FALSE))
           \/ /\ ~u.calls[c].kept
              /\ AppendEvent(s, [u EXCEPT !.calls[c].missed = TRUE], Frame("response", 0, FALSE))
  BY DEF AnswersLate
<1> HIDE DEF u
<1>3. u.calls[c] \in CallRec /\ c \in Nat /\ c # 0 /\ u \in SessionRec /\ size \in Nat /\ u.at[c] \in Seq(Nat)
  <2>1. u.calls \in Seq(CallRec) /\ u.at \in Seq(Seq(Nat)) /\ Len(u.at) = Len(u.calls) /\ u \in SessionRec
    BY <1>1 DEF Shaped, SessionRec
  <2> QED BY <2>1, BoundedStoreAssumption
<1>4. CASE u.calls[c].kept
  <2> DEFINE call == [u.calls[c] EXCEPT !.late = TRUE, !.result = size]
             w == [u EXCEPT !.calls[c].late = TRUE, !.calls[c].result = size, !.at[c] = Append(@, size)]
             frame == Frame("response", c, FALSE)
  <2>1. AppendEvent(s, w, frame)
    BY <1>2, <1>4
  <2>2. frame \in FrameRec /\ ~Opens(frame) /\ frame.call = c
    BY <1>3 DEF Frame, FrameRec, FrameKind, Opens
  <2>3. w = [u EXCEPT !.calls[c] = call, !.at[c] = Append(@, size)]
    BY <1>3 DEF SessionRec
  <2>4. /\ call \in CallRec /\ call.state = "cancelled" /\ call.unseen = u.calls[c].unseen /\ call.kept = u.calls[c].kept
        /\ call.releasedResultBytes = u.calls[c].releasedResultBytes /\ call.missed = u.calls[c].missed /\ call.result = size
    BY <1>2, <1>3 DEF CallRec
  <2> HIDE DEF w, frame, call
  <2>5. Changed(u, w, c, call, size)
    BY <1>1, <1>3, <2>3, <2>4, CallChanges
  <2>6. \A d \in DOMAIN u.calls \ {c} : SameCall(u, w, d)
    BY <2>5 DEF Changed, SameCall
  <2>7. w.at[c] = Append(u.at[c], size) /\ w.at[c][Len(w.at[c])] = size
    BY <1>3, <2>5 DEF Changed
  <2>8. ComesLate(u, w, frame, c)
    BY <1>2, <1>4, <2>2, <2>4, <2>5, <2>7 DEF Changed, ComesLate
  <2>9. Touches(u, w, frame, c)
    BY <1>3, <2>2, <2>4, <2>5, <2>7, <2>8 DEF Changed, Touches
  <2>10. Fits(u, w, frame)
    BY <1>1, <2>2, <2>5, <2>6, <2>9, TellingFits DEF Changed
  <2> QED BY <2>1, <2>10, FrameComesIn DEF u
<1>5. CASE ~u.calls[c].kept
  <2> DEFINE call == [u.calls[c] EXCEPT !.missed = TRUE]
             w == [u EXCEPT !.calls[c].missed = TRUE]
             frame == Frame("response", 0, FALSE)
  <2>1. AppendEvent(s, w, frame)
    BY <1>2, <1>5
  <2>2. frame \in FrameRec /\ ~Opens(frame) /\ frame.call = 0
    BY DEF Frame, FrameRec, FrameKind, Opens
  <2>3. w = [u EXCEPT !.calls[c] = call]
    BY <1>3 DEF SessionRec
  <2>4. /\ call \in CallRec /\ call.state = u.calls[c].state /\ call.unseen = u.calls[c].unseen /\ call.kept = u.calls[c].kept
        /\ call.releasedResultBytes = u.calls[c].releasedResultBytes /\ call.late = u.calls[c].late
        /\ call.result = u.calls[c].result
    BY <1>3 DEF CallRec
  <2> HIDE DEF w, frame, call
  <2>5. CallIs(u, w, c, call)
    BY <1>1, <2>3, <2>4, OneCallChanges
  <2>6. ~Shown(u, c)
    BY <1>1, <1>5 DEF SessionInv, AnsweredOnce
  <2>7. \A d \in DOMAIN u.calls : SameCall(u, w, d)
    BY <2>4, <2>5, <2>6 DEF CallIs, SameCall
  <2>8. Fits(u, w, frame)
    BY <1>1, <2>2, <2>5, <2>7, TellingFits DEF CallIs
  <2> QED BY <2>1, <2>8, FrameComesIn DEF u
<1> QED BY <1>4, <1>5

(* A notification keeps the invariant. *)
LEMMA NotifiesKeep == ASSUME BoundInv, NEW s \in Session, Notifies(s) PROVE BoundInv'
<1> DEFINE u == sessions[s]
           frame == Frame("notification", 0, FALSE)
<1>1. SessionInv(u) /\ Shaped(u) /\ SameFrames(u, u) /\ \A d \in DOMAIN u.calls : SameCall(u, u, d)
  BY DEF BoundInv, SessionInv, SameFrames, SameCall
<1>2. frame \in FrameRec /\ ~Opens(frame) /\ frame.call = 0
  BY DEF Frame, FrameRec, FrameKind, Opens
<1>3. AppendEvent(s, u, frame)
  BY DEF Notifies
<1> HIDE DEF u, frame
<1>4. Fits(u, u, frame)
  BY <1>1, <1>2, TellingFits
<1> QED BY <1>3, <1>4, FrameComesIn DEF u

(* A repeated answer keeps the invariant. *)
LEMMA RepeatsKeep == ASSUME BoundInv, NEW s \in Session, Repeats(s) PROVE BoundInv'
<1> DEFINE u == sessions[s]
<1>1. SessionInv(u) /\ Shaped(u)
  BY DEF BoundInv, SessionInv
<1>2. PICK c \in DOMAIN u.calls :
        /\ AppendEvent(s, [u EXCEPT !.at[c] = Append(@, 0)], Frame("response", c, FALSE))
  BY DEF Repeats
<1> HIDE DEF u
<1> DEFINE w == [u EXCEPT !.at[c] = Append(@, 0)]
           frame == Frame("response", c, FALSE)
<1>3. u \in SessionRec /\ u.calls \in Seq(CallRec) /\ u.at \in Seq(Seq(Nat)) /\ Len(u.at) = Len(u.calls)
  BY <1>1 DEF Shaped, SessionRec
<1>4. u.calls[c] \in CallRec /\ c \in Nat /\ c # 0
  BY <1>3
<1>5. w = [u EXCEPT !.calls[c] = u.calls[c], !.at[c] = Append(@, 0)]
  <2>1. u.calls \in [1 .. Len(u.calls) -> CallRec]
    BY <1>3
  <2>2. [u.calls EXCEPT ![c] = u.calls[c]] = u.calls
    BY <2>1
  <2>3. [u EXCEPT !.calls[c] = u.calls[c], !.at[c] = Append(@, 0)]
        = [u EXCEPT !.calls = [u.calls EXCEPT ![c] = u.calls[c]], !.at[c] = Append(@, 0)]
    OBVIOUS
  <2>4. [u EXCEPT !.calls = u.calls, !.at[c] = Append(@, 0)] = w
    BY <1>3 DEF SessionRec
  <2> QED BY <2>2, <2>3, <2>4
<1>6. frame \in FrameRec /\ ~Opens(frame) /\ frame.call = c
  BY <1>4 DEF Frame, FrameRec, FrameKind, Opens
<1> HIDE DEF w, frame
<1>7. Changed(u, w, c, u.calls[c], 0)
  BY <1>1, <1>4, <1>5, CallChanges
<1>8. \A d \in DOMAIN u.calls \ {c} : SameCall(u, w, d)
  BY <1>7 DEF Changed, SameCall
<1>9. Fits(u, w, frame)
  BY <1>1, <1>2, <1>6, <1>7, <1>8, GoingOnFits DEF Changed
<1> QED BY <1>2, <1>9, FrameComesIn DEF u, w, frame

(* A retry keeps the invariant. *)
LEMMA RetriesKeep == ASSUME BoundInv, NEW s \in Session, Retries(s) PROVE BoundInv'
<1> DEFINE u == sessions[s]
<1>1. SessionInv(u) /\ Shaped(u)
  BY DEF BoundInv, SessionInv
<1>2. PICK c \in Pending(u) :
        AppendEvent(s, [u EXCEPT !.calls[c].parked = FALSE, !.at[c] = Append(@, 0)], Frame("request", c, TRUE))
  BY DEF Retries
<1> HIDE DEF u
<1> DEFINE call == [u.calls[c] EXCEPT !.parked = FALSE]
           w == [u EXCEPT !.calls[c].parked = FALSE, !.at[c] = Append(@, 0)]
           frame == Frame("request", c, TRUE)
<1>3. c \in DOMAIN u.calls /\ u.calls[c].state = "pending" /\ u.calls[c] \in CallRec /\ c \in Nat /\ u \in SessionRec
  BY <1>1, PendingIs DEF Shaped
<1>4. /\ call \in CallRec /\ call.state = u.calls[c].state /\ call.unseen = u.calls[c].unseen /\ call.kept = u.calls[c].kept
      /\ call.releasedResultBytes = u.calls[c].releasedResultBytes
      /\ call.late = u.calls[c].late /\ call.missed = u.calls[c].missed
  BY <1>3 DEF CallRec
<1>5. w = [u EXCEPT !.calls[c] = call, !.at[c] = Append(@, 0)]
  BY <1>3 DEF SessionRec
<1>6. frame \in FrameRec /\ ~Opens(frame) /\ frame.call = c
  BY <1>3 DEF Frame, FrameRec, FrameKind, Opens
<1> HIDE DEF w, frame, call
<1>7. Changed(u, w, c, call, 0)
  BY <1>1, <1>3, <1>4, <1>5, CallChanges
<1>8. \A d \in DOMAIN u.calls \ {c} : SameCall(u, w, d)
  BY <1>7 DEF Changed, SameCall
<1>9. Fits(u, w, frame)
  BY <1>1, <1>3, <1>4, <1>6, <1>7, <1>8, GoingOnFits DEF Changed
<1> QED BY <1>2, <1>9, FrameComesIn DEF u, w, frame

(* An InputRequiredResult, with the call it retires, keeps the invariant. *)
LEMMA AsksKeep == ASSUME BoundInv, NEW s \in Session, Asks(s) PROVE BoundInv'
<1> DEFINE u == sessions[s]
<1>1. SessionInv(u) /\ Shaped(u)
  BY DEF BoundInv, SessionInv
<1>2. PICK c \in Pending(u), size \in Sizes :
        \E retire :
          LET sess == [u EXCEPT !.calls[c].result = size, !.calls[c].parked = TRUE, !.at[c] = Append(@, size)]
          IN  AppendEvent(s, [sess EXCEPT !.calls = [d \in DOMAIN @ |-> IF d \in retire THEN [@[d] EXCEPT !.retired = TRUE] ELSE @[d]]],
                          Frame("response", c, FALSE))
  <2>1. PICK c \in Pending(u), size \in Sizes :
          LET sess   == [u EXCEPT !.calls[c].result = size, !.calls[c].parked = TRUE, !.at[c] = Append(@, size)]
              parked == {d \in Pending(sess) : sess.calls[d].parked /\ ~sess.calls[d].retired}
              retire == IF Cardinality(parked) <= AwaitingKept THEN {}
                        ELSE {CHOOSE d \in parked : \A e \in parked : d <= e}
          IN  AppendEvent(s, [sess EXCEPT !.calls = [d \in DOMAIN @ |-> IF d \in retire THEN [@[d] EXCEPT !.retired = TRUE] ELSE @[d]]],
                          Frame("response", c, FALSE))
    BY DEF Asks
  <2> DEFINE sess   == [u EXCEPT !.calls[c].result = size, !.calls[c].parked = TRUE, !.at[c] = Append(@, size)]
             parked == {d \in Pending(sess) : sess.calls[d].parked /\ ~sess.calls[d].retired}
             retire == IF Cardinality(parked) <= AwaitingKept THEN {}
                       ELSE {CHOOSE d \in parked : \A e \in parked : d <= e}
  <2>2. AppendEvent(s, [sess EXCEPT !.calls = [d \in DOMAIN @ |-> IF d \in retire THEN [@[d] EXCEPT !.retired = TRUE] ELSE @[d]]],
                    Frame("response", c, FALSE))
    BY <2>1
  <2> HIDE DEF retire
  <2> QED BY <2>2
<1>3. PICK retire :
          LET sess == [u EXCEPT !.calls[c].result = size, !.calls[c].parked = TRUE, !.at[c] = Append(@, size)]
          IN  AppendEvent(s, [sess EXCEPT !.calls = [d \in DOMAIN @ |-> IF d \in retire THEN [@[d] EXCEPT !.retired = TRUE] ELSE @[d]]],
                          Frame("response", c, FALSE))
  BY <1>2
<1> HIDE DEF u
<1> DEFINE call == [u.calls[c] EXCEPT !.result = size, !.parked = TRUE]
           x == [u EXCEPT !.calls[c].result = size, !.calls[c].parked = TRUE, !.at[c] = Append(@, size)]
           told == [d \in DOMAIN x.calls |-> IF d \in retire THEN [x.calls[d] EXCEPT !.retired = TRUE] ELSE x.calls[d]]
           w == [x EXCEPT !.calls = told]
           frame == Frame("response", c, FALSE)
<1>4. c \in DOMAIN u.calls /\ u.calls[c].state = "pending" /\ u.calls[c] \in CallRec /\ c \in Nat /\ c # 0 /\ u \in SessionRec /\ size \in Nat
  BY <1>1, PendingIs, BoundedStoreAssumption DEF Shaped
<1>5. /\ call \in CallRec /\ call.state = u.calls[c].state /\ call.unseen = u.calls[c].unseen /\ call.kept = u.calls[c].kept
      /\ call.releasedResultBytes = u.calls[c].releasedResultBytes
      /\ call.late = u.calls[c].late /\ call.missed = u.calls[c].missed
  BY <1>4 DEF CallRec
<1>6. x = [u EXCEPT !.calls[c] = call, !.at[c] = Append(@, size)]
  BY <1>4 DEF SessionRec
<1>7. frame \in FrameRec /\ ~Opens(frame) /\ frame.call = c
  BY <1>4 DEF Frame, FrameRec, FrameKind, Opens
<1>8. AppendEvent(s, w, frame)
  BY <1>3
<1> HIDE DEF x, frame, call
<1>9. Changed(u, x, c, call, size)
  BY <1>1, <1>4, <1>5, <1>6, CallChanges
<1>10. Shaped(x) /\ x \in SessionRec /\ x.calls \in Seq(CallRec) /\ Len(x.calls) = Len(u.calls)
  BY <1>9 DEF Changed, Shaped, SessionRec
<1>11. ASSUME NEW d \in DOMAIN x.calls
       PROVE  /\ told[d] \in CallRec /\ told[d].state = x.calls[d].state /\ told[d].unseen = x.calls[d].unseen
              /\ told[d].kept = x.calls[d].kept /\ told[d].result = x.calls[d].result
              /\ told[d].releasedResultBytes = x.calls[d].releasedResultBytes
              /\ told[d].late = x.calls[d].late /\ told[d].missed = x.calls[d].missed
  <2>1. x.calls[d] \in CallRec
    BY <1>10
  <2> QED BY <2>1 DEF CallRec
<1>12. told \in Seq(CallRec) /\ Len(told) = Len(x.calls)
  <2>1. told = [d \in DOMAIN x.calls |-> told[d]] /\ DOMAIN x.calls = 1 .. Len(x.calls)
    BY <1>10
  <2> HIDE DEF told
  <2>2. told \in [1 .. Len(x.calls) -> CallRec]
    BY <1>11, <2>1
  <2> QED BY <1>10, <2>2, SeqOfFunction
<1> HIDE DEF told
<1>13. /\ w.calls = told /\ w.at = x.at /\ SameFrames(x, w) /\ w \in SessionRec
  BY <1>10, <1>12 DEF SessionRec, SameFrames
<1>14. Shaped(w)
  BY <1>10, <1>12, <1>13 DEF Shaped, SameFrames
<1> HIDE DEF w
<1>15. SameFrames(u, w) /\ Len(w.calls) = Len(u.calls) /\ w.at[c] = Append(u.at[c], size)
  BY <1>9, <1>10, <1>12, <1>13 DEF Changed, SameFrames
<1>16. DOMAIN x.calls = DOMAIN u.calls
  <2>1. u.calls \in Seq(CallRec)
    BY <1>4 DEF SessionRec
  <2> QED BY <1>10, <2>1
<1>17. \A d \in DOMAIN u.calls \ {c} : SameCall(u, w, d)
  BY <1>9, <1>11, <1>13, <1>16 DEF Changed, SameCall
<1>18. /\ w.calls[c].state = u.calls[c].state /\ w.calls[c].unseen = u.calls[c].unseen /\ w.calls[c].kept = u.calls[c].kept
       /\ w.calls[c].releasedResultBytes = u.calls[c].releasedResultBytes
       /\ w.calls[c].late = u.calls[c].late /\ w.calls[c].missed = u.calls[c].missed
  BY <1>4, <1>5, <1>9, <1>11, <1>13, <1>16 DEF Changed
<1>19. Fits(u, w, frame)
  BY <1>1, <1>4, <1>7, <1>14, <1>15, <1>17, <1>18, GoingOnFits
<1> QED BY <1>8, <1>19, FrameComesIn DEF u

(* Releasing a body keeps the invariant (evict, releaseBody). *)
LEMMA ReleasesKeep == ASSUME BoundInv, Releases PROVE BoundInv'
<1>1. PICK s \in Session :
        LET u == sessions[s]
            i == NextBody(u)
            n == IF i = 0 THEN 0 ELSE BodyWeight(u, u.events[i])
        IN  /\ sessions' = [sessions EXCEPT ![s] =
                 IF i = 0 THEN [u EXCEPT !.evictCursor = Len(u.events)]
                 ELSE [ReleaseBody(u, i) EXCEPT !.evictCursor = i, !.bodyBytes = @ - n]]
            /\ payloadBytes' = payloadBytes - n
  BY DEF Releases
<1> DEFINE u == sessions[s]
           i == NextBody(u)
<1>2. SessionInv(u) /\ Shaped(u) /\ u \in SessionRec /\ u.bodyBytes \in Int /\ u.events \in Seq(FrameRec)
  BY DEF BoundInv, SessionInv, Shaped, SessionRec
<1>3. payloadBytes \in Int /\ frames \in Int
  BY CountsAreNumbers
<1>4. frames' = frames /\ phase' = "bodies"
  BY DEF Releases
<1>5. CASE i = 0
  <2> DEFINE v == [u EXCEPT !.evictCursor = Len(u.events)]
  <2>1. sessions' = [sessions EXCEPT ![s] = v] /\ payloadBytes' = payloadBytes
    BY <1>1, <1>3, <1>5
  <2>2. v.bodyBytes = u.bodyBytes /\ v.events = u.events
    BY <1>2 DEF SessionRec
  <2> HIDE DEF u
  <2>3. SessionInv(v)
    BY <1>2, CursorKeeps
  <2> HIDE DEF v
  <2>4. frames' = frames + Len(v.events) - Len(u.events) /\ payloadBytes' = payloadBytes + v.bodyBytes - u.bodyBytes
    <3>1. Len(u.events) \in Int
      BY <1>2
    <3> QED BY <1>2, <1>3, <1>4, <2>1, <2>2, <3>1
  <2>5. OneSession(s, v)
    BY <2>1, <2>3, <2>4 DEF OneSession, u
  <2>6. sessions' \in [Session -> SessionRec] /\ (\A t \in Session : SessionInv(sessions[t])') /\ Sums'
    BY <2>5, SessionChanges
  <2> QED BY <1>4, <2>6 DEF BoundInv, Limits
<1>6. CASE i # 0
  <2> DEFINE n == BodyWeight(u, u.events[i])
             v == [ReleaseBody(u, i) EXCEPT !.evictCursor = i, !.bodyBytes = @ - n]
  <2>1. sessions' = [sessions EXCEPT ![s] = v] /\ payloadBytes' = payloadBytes - n
    BY <1>1, <1>6
  <2> HIDE DEF u
  <2>2. i \in DOMAIN u.events /\ i > u.evictCursor
    BY <1>2, <1>6, NextBodyIs
  <2> HIDE DEF i
  <2>3. n \in Nat
    BY <1>2, <2>2, WeightIsNat
  <2> HIDE DEF n
  <2>4. Released(u, v, i) /\ v.bodyBytes = u.bodyBytes - n
    BY <1>2, <2>2, <2>3, ReleaseIs
  <2> HIDE DEF v
  <2>5. SessionInv(v)
    BY <1>2, <2>2, <2>4, ReleaseKeeps
  <2>6. frames' = frames + Len(v.events) - Len(u.events) /\ payloadBytes' = payloadBytes + v.bodyBytes - u.bodyBytes
    <3>1. Len(u.events) \in Int /\ Len(v.events) = Len(u.events)
      BY <1>2, <2>4 DEF Released
    <3>2. frames' = frames + Len(u.events) - Len(u.events)
      BY <1>3, <1>4, <3>1
    <3> QED BY <1>2, <1>3, <2>1, <2>3, <2>4, <3>1, <3>2
  <2>7. OneSession(s, v)
    BY <2>1, <2>5, <2>6 DEF OneSession, u
  <2>8. sessions' \in [Session -> SessionRec] /\ (\A t \in Session : SessionInv(sessions[t])') /\ Sums'
    BY <2>7, SessionChanges
  <2> QED BY <1>4, <2>8 DEF BoundInv, Limits
<1> QED BY <1>5, <1>6

(* Dropping the oldest frame keeps the invariant (dropOldestFrame). *)
LEMMA DropsKeep == ASSUME BoundInv, DropOldestFrame PROVE BoundInv'
<1>1. PICK s \in Session :
        LET u == sessions[s]
            n == BodyWeight(u, u.events[1])
        IN  /\ u.events # <<>>
            /\ sessions' = [sessions EXCEPT ![s] =
                 [u EXCEPT !.events = Tail(@), !.dropped = @ + 1, !.bodyBytes = @ - n,
                 !.toolStats = Folded(u, u.events[1]), !.calls = LetsGo(u, u.events[1]),
                 !.evictCursor = IF @ > 0 THEN @ - 1 ELSE 0]]
            /\ payloadBytes' = payloadBytes - n
  BY DEF DropOldestFrame, OldestSession, Oldest, Holding
<1> DEFINE u == sessions[s]
           n == BodyWeight(u, u.events[1])
           v == [u EXCEPT !.events = Tail(@), !.dropped = @ + 1, !.bodyBytes = @ - n,
                 !.toolStats = Folded(u, u.events[1]), !.calls = LetsGo(u, u.events[1]),
                 !.evictCursor = IF @ > 0 THEN @ - 1 ELSE 0]
<1>2. SessionInv(u) /\ Shaped(u) /\ u.bodyBytes \in Int /\ u.events \in Seq(FrameRec) /\ u.events # <<>>
  BY <1>1 DEF BoundInv, SessionInv, Shaped, SessionRec
<1>3. payloadBytes \in Int /\ frames \in Int
  BY CountsAreNumbers
<1>4. frames' = frames - 1 /\ phase' = phase /\ phase = "frames"
  BY DEF DropOldestFrame
<1>5. sessions' = [sessions EXCEPT ![s] = v] /\ payloadBytes' = payloadBytes - n
  BY <1>1
<1> HIDE DEF u
<1>6. n \in Nat
  <2>1. 1 \in DOMAIN u.events
    BY <1>2
  <2> QED BY <1>2, <2>1, WeightIsNat
<1> HIDE DEF n
<1>7. SessionInv(v) /\ v.bodyBytes = u.bodyBytes - n /\ MovedUp(u, v)
      /\ v.evictCursor = (IF u.evictCursor > 0 THEN u.evictCursor - 1 ELSE 0)
  <2>1. v = [u EXCEPT !.events = Tail(@), !.dropped = @ + 1, !.bodyBytes = @ - n,
               !.toolStats = Folded(u, u.events[1]), !.calls = LetsGo(u, u.events[1]),
               !.evictCursor = IF @ > 0 THEN @ - 1 ELSE 0]
    OBVIOUS
  <2> HIDE DEF v
  <2>2. DropsTo(u, v, n)
    BY <1>2, <1>6, <2>1, DropKeeps
  <2> QED BY <2>2 DEF DropsTo
<1> HIDE DEF v
<1>8. frames' = frames + Len(v.events) - Len(u.events) /\ payloadBytes' = payloadBytes + v.bodyBytes - u.bodyBytes
  <2>1. Len(u.events) \in Int /\ Len(v.events) = Len(u.events) - 1
    BY <1>7 DEF MovedUp
  <2>2. frames' = frames + (Len(u.events) - 1) - Len(u.events)
    BY <1>3, <1>4, <2>1
  <2> QED BY <1>2, <1>3, <1>5, <1>6, <1>7, <2>1, <2>2
<1>9. OneSession(s, v)
  BY <1>5, <1>7, <1>8 DEF OneSession, u
<1>10. /\ sessions' \in [Session -> SessionRec] /\ (\A t \in Session : SessionInv(sessions[t])') /\ Sums'
       /\ sessions'[s] = v /\ \A t \in Session \ {s} : sessions'[t] = sessions[t]
  BY <1>9, SessionChanges
<1>11. Retained = {} => Retained' = {}
  <2> SUFFICES ASSUME Retained = {}, NEW t \in Session, t \in Retained' PROVE FALSE
    BY DEF Retained
  <2>1. CASE t # s
    BY <1>10, <2>1 DEF Retained
  <2>2. CASE t = s
    <3>1. v.evictCursor < Len(v.events)
      BY <1>10, <2>2 DEF Retained
    <3>2. ~(u.evictCursor < Len(u.events)) /\ u.evictCursor \in Nat
      BY <1>2 DEF Retained, u, Shaped, SessionRec
    <3>3. Len(v.events) = Len(u.events) - 1 /\ Len(u.events) \in Nat \ {0}
      BY <1>7 DEF MovedUp
    <3> DEFINE a == Len(u.events)
               b == Len(v.events)
    <3>4. a \in Nat \ {0} /\ b = a - 1 /\ v.evictCursor < b /\ ~(u.evictCursor < a)
      BY <3>1, <3>2, <3>3
    <3> HIDE DEF a, b
    <3>5. u.evictCursor > 0 /\ v.evictCursor = u.evictCursor - 1
      BY <1>7, <3>2, <3>4
    <3> QED BY <3>2, <3>4, <3>5
  <2> QED BY <2>1, <2>2
<1>12. Limits'
  BY <1>3, <1>4, <1>5, <1>6, <1>11, BoundedStoreAssumption DEF BoundInv, Limits
<1> QED BY <1>10, <1>12 DEF BoundInv

(* Deleting a session gives back what it held (Delete). *)
LEMMA DeleteKeeps == ASSUME BoundInv, NEW s \in Session, Delete(s) PROVE BoundInv'
<1> DEFINE u == sessions[s]
<1>1. /\ sessions' = [sessions EXCEPT ![s] = Unknown] /\ phase = "idle" /\ phase' = "idle"
      /\ payloadBytes' = payloadBytes - u.bodyBytes /\ frames' = frames - Len(u.events)
  BY DEF Delete, GivenBack
<1>2. SessionInv(u) /\ u.bodyBytes \in Int /\ u.events \in Seq(FrameRec)
  BY DEF BoundInv, SessionInv, Shaped, SessionRec
<1>3. payloadBytes \in Int /\ frames \in Int
  BY CountsAreNumbers
<1> HIDE DEF u
<1>4. Unknown.bodyBytes = 0 /\ Len(Unknown.events) = 0
  BY DEF Unknown
<1>5. Len(u.events) \in Nat
  BY <1>2
<1>6. OneSession(s, Unknown)
  <2>1. frames' = frames + Len(Unknown.events) - Len(u.events)
    BY <1>1, <1>3, <1>4, <1>5
  <2>2. payloadBytes' = payloadBytes + Unknown.bodyBytes - u.bodyBytes
    BY <1>1, <1>2, <1>3, <1>4
  <2> QED BY <1>1, <2>1, <2>2, UnknownIsWell DEF OneSession, u
<1>7. sessions' \in [Session -> SessionRec] /\ (\A t \in Session : SessionInv(sessions[t])') /\ Sums'
  BY <1>6, SessionChanges
<1>8. Limits'
  BY <1>1, <1>3, <1>5, BoundedStoreAssumption DEF BoundInv, Limits
<1> QED BY <1>7, <1>8 DEF BoundInv

(* Going on to the next loop of appendEvent keeps the invariant. *)
LEMMA PhasesKeep == ASSUME BoundInv, BodiesFit \/ FramesFit \/ UNCHANGED boundVars PROVE BoundInv'
<1>1. /\ sessions' = sessions /\ frames' = frames /\ payloadBytes' = payloadBytes
  BY DEF BodiesFit, FramesFit, boundVars
<1>2. sessions' \in [Session -> SessionRec] /\ (\A t \in Session : SessionInv(sessions[t])') /\ Sums'
  BY <1>1 DEF BoundInv, Sums, FramesHeld, BytesHeld, FramesOf, BytesOf
<1>3. Retained' = Retained /\ Holding' = Holding
  BY <1>1 DEF Retained, Holding
<1>4. frames \in Int /\ payloadBytes \in Int
  BY CountsAreNumbers
<1>5. ASSUME BodiesFit PROVE Limits'
  <2>1. phase' = "frames" /\ ~(PayloadLimit > 0 /\ payloadBytes > PayloadLimit /\ Retained # {})
    BY <1>5 DEF BodiesFit
  <2>2. PayloadLimit > 0 => payloadBytes' <= PayloadLimit \/ Retained' = {}
    BY <1>1, <1>3, <1>4, <2>1, BoundedStoreAssumption
  <2> QED BY <2>1, <2>2 DEF Limits
<1>6. ASSUME FramesFit PROVE Limits'
  <2>1. phase' = "idle" /\ ~(FrameLimit > 0 /\ frames > FrameLimit /\ Holding # {})
    BY <1>6 DEF FramesFit
  <2>2. Holding = {} => frames = 0
    BY NoneHeld
  <2>3. FrameLimit > 0 => frames' <= FrameLimit
    BY <1>1, <1>4, <2>1, <2>2, BoundedStoreAssumption
  <2> QED BY <2>1, <2>3 DEF Limits
<1>7. ASSUME UNCHANGED boundVars PROVE Limits'
  <2>1. phase' = phase /\ Limits
    BY <1>7 DEF boundVars, BoundInv
  <2> QED BY <1>1, <1>3, <2>1 DEF Limits
<1>8. Limits'
  BY <1>5, <1>6, <1>7
<1> QED BY <1>2, <1>8 DEF BoundInv

(* The invariant of the bounded store holds of every behaviour (NewBounded, appendEvent, Delete). *)
THEOREM BoundInvariance == BoundSpec => []BoundInv
<1>1. BoundInv /\ [BoundNext]_boundVars => BoundInv'
  BY RequestsKeep, SettlingsKeep, CancelsKeep, AnswersLateKeep, RepeatsKeep, AsksKeep, RetriesKeep, NotifiesKeep, ReleasesKeep, DropsKeep, DeleteKeeps, PhasesKeep
     DEF BoundNext
<1> QED BY <1>1, InitIsBound, PTL DEF BoundSpec

-----------------------------------------------------------------------------
(* The summary as a whole: what was remembered, and what the frames still held say of the calls
   they open. *)
Openings(sess, I) == {sess.events[i].call : i \in {j \in I : Opens(sess.events[j])}}
Bytes(sess) == [c \in DOMAIN sess.calls |-> CallBytes(sess.calls[c])]
Summed(sess, C) ==
  [calls |-> sess.toolStats.calls + Cardinality(C), pending |-> sess.toolStats.pending + Cardinality(StillOpen(sess, C)),
   bytes |-> sess.toolStats.bytes + SumOn(Bytes(sess), C)]
Sweeps(sess, iter) ==
  iter = [I \in SUBSET DOMAIN sess.events |->
            IF I = {} THEN sess.toolStats ELSE LET i == Max(I) IN FoldToolCall(iter[I \ {i}], sess, sess.events[i])]

(* What FoldLeft over the frames is: the function it chooses, at all of them (ToolSummary). *)
LEMMA SummaryIsFold == ASSUME NEW u PROVE ToolSummary(u) = (CHOOSE iter : Sweeps(u, iter))[DOMAIN u.events]
BY DEF ToolSummary, FoldLeft, MapThenFoldSet, Sweeps

(* A bounded set of numbers has a greatest one. *)
LEMMA GreatestExists ==
  ASSUME NEW n \in Nat, NEW T, T \subseteq 1 .. n, T # {}
  PROVE  Max(T) \in T
<1> DEFINE U == {n - x : x \in T}
<1>1. U \subseteq Nat /\ U # {}
  <2>1. \A x \in T : x \in 1 .. n
    OBVIOUS
  <2>2. \A x \in T : n - x \in Nat
    BY <2>1
  <2> QED BY <2>2
<1>2. PICK u \in U : \A v \in U : u <= v
  <2> HIDE DEF U
  <2> QED BY <1>1, LeastExists
<1>3. PICK x \in T : u = n - x
  BY <1>2
<1>4. \A y \in T : x >= y
  <2> TAKE y \in T
  <2>1. n - y \in U /\ x \in Int /\ y \in Int
    OBVIOUS
  <2>2. n - x <= n - y
    BY <1>2, <1>3, <2>1
  <2> QED BY <2>1, <2>2
<1> QED BY <1>3, <1>4 DEF Max

(* What the summary counts of the calls are numbers. *)
LEMMA BytesAreNumbers ==
  ASSUME NEW u, Shaped(u)
  PROVE  /\ Numbers(Bytes(u)) /\ DOMAIN Bytes(u) = DOMAIN u.calls /\ IsFiniteSet(DOMAIN u.calls)
         /\ u.toolStats \in StatsRec
<1>1. u.calls \in Seq(CallRec) /\ u.toolStats \in StatsRec
  BY DEF Shaped, SessionRec
<1>2. ASSUME NEW c \in DOMAIN u.calls PROVE Bytes(u)[c] \in Int
  <2>1. u.calls[c] \in CallRec
    BY <1>1
  <2> QED BY <2>1 DEF Bytes, CallBytes, Weight, CallRec
<1>3. IsFiniteSet(1 .. Len(u.calls)) /\ DOMAIN u.calls = 1 .. Len(u.calls)
  <2>1. DOMAIN u.calls = 1 .. Len(u.calls) /\ Len(u.calls) \in Nat
    BY <1>1
  <2>2. \A n \in Nat : IsFiniteSet(1 .. n)
    BY FS_Interval
  <2>3. IsFiniteSet(1 .. Len(u.calls))
    BY <2>1, <2>2
  <2> QED BY <2>1, <2>3
<1>4. DOMAIN Bytes(u) = DOMAIN u.calls
  BY DEF Bytes
<1> QED BY <1>1, <1>2, <1>3, <1>4 DEF Numbers

(* One frame more opens its call, which no other frame does. *)
LEMMA OpeningsGrow ==
  ASSUME NEW u, Shaped(u), OpensOnce(u), NEW I \in SUBSET DOMAIN u.events, NEW i \in I
  PROVE  /\ ~Opens(u.events[i]) => Openings(u, I) = Openings(u, I \ {i})
         /\ Opens(u.events[i]) => /\ Openings(u, I) = Openings(u, I \ {i}) \cup {u.events[i].call}
                                  /\ u.events[i].call \notin Openings(u, I \ {i})
         /\ Openings(u, I) \subseteq DOMAIN u.calls
<1>0. DOMAIN u.events \subseteq Nat
  BY DEF Shaped, SessionRec
<1>1. Opens(u.events[i]) => u.events[i].call \notin Openings(u, I \ {i})
  <2> SUFFICES ASSUME Opens(u.events[i]), NEW j \in I \ {i}, Opens(u.events[j]), u.events[j].call = u.events[i].call PROVE FALSE
    BY DEF Openings
  <2>1. i \in DOMAIN u.events /\ j \in DOMAIN u.events /\ i \in Nat /\ j \in Nat
    BY <1>0
  <2>2. i <= j /\ j <= i
    BY <2>1 DEF OpensOnce
  <2> QED BY <2>1, <2>2
<1>2. ASSUME NEW j \in DOMAIN u.events, Opens(u.events[j]) PROVE u.events[j].call \in DOMAIN u.calls
  <2>1. u.events[j] \in FrameRec /\ u.calls \in Seq(CallRec) /\ u.events[j].call <= Len(u.calls)
    BY DEF Shaped, SessionRec
  <2> QED BY <1>2, <2>1 DEF Opens, FrameRec
<1>3. Openings(u, I) \subseteq DOMAIN u.calls
  BY <1>2 DEF Openings
<1> QED BY <1>1, <1>3 DEF Openings

(* A sum over calls is a summary. *)
LEMMA SummedIsStats ==
  ASSUME NEW u, Shaped(u), NEW C \in SUBSET DOMAIN u.calls
  PROVE  /\ Summed(u, C) \in StatsRec
         /\ IsFiniteSet(C) /\ IsFiniteSet(StillOpen(u, C))
         /\ Cardinality(C) \in Nat /\ Cardinality(StillOpen(u, C)) \in Nat /\ SumOn(Bytes(u), C) \in Int
<1>1. /\ Numbers(Bytes(u)) /\ DOMAIN Bytes(u) = DOMAIN u.calls /\ IsFiniteSet(DOMAIN u.calls) /\ u.toolStats \in StatsRec
  BY BytesAreNumbers
<1>2. IsFiniteSet(C) /\ IsFiniteSet(StillOpen(u, C))
  <2>1. StillOpen(u, C) \subseteq C
    BY DEF StillOpen
  <2>2. IsFiniteSet(C)
    BY <1>1, FS_Subset
  <2> QED BY <2>1, <2>2, FS_Subset
<1>3. Cardinality(C) \in Nat /\ Cardinality(StillOpen(u, C)) \in Nat
  BY <1>2, FS_CardinalityType
<1>4. SumOn(Bytes(u), C) \in Int
  BY <1>1, <1>2, SumIsNumber
<1> QED BY <1>1, <1>2, <1>3, <1>4 DEF Summed, StatsRec

(* One frame more adds its call to the sum, if it opens one. *)
LEMMA SummedStep ==
  ASSUME NEW u, Shaped(u), OpensOnce(u), NEW I \in SUBSET DOMAIN u.events, NEW i \in I
  PROVE  Summed(u, Openings(u, I)) = FoldToolCall(Summed(u, Openings(u, I \ {i})), u, u.events[i])
<1> DEFINE before == Openings(u, I \ {i})
           after  == Openings(u, I)
           c      == u.events[i].call
<1>1. /\ ~Opens(u.events[i]) => after = before
      /\ Opens(u.events[i]) => after = before \cup {c} /\ c \notin before
      /\ after \subseteq DOMAIN u.calls
  BY OpeningsGrow
<1>2. before \subseteq DOMAIN u.calls
  BY <1>1
<1>3. Summed(u, before) \in StatsRec
  BY <1>2, SummedIsStats
<1>4. /\ ~Opens(u.events[i]) => FoldToolCall(Summed(u, before), u, u.events[i]) = Summed(u, before)
      /\ Opens(u.events[i]) => /\ FoldToolCall(Summed(u, before), u, u.events[i]) = Adding(Summed(u, before), u.calls[c])
                               /\ c \in DOMAIN u.calls
  BY <1>3, FoldIs
<1> HIDE DEF before, after, c
<1>5. CASE ~Opens(u.events[i])
  BY <1>1, <1>4, <1>5 DEF before, after
<1>6. CASE Opens(u.events[i])
  <2>1. /\ Numbers(Bytes(u)) /\ DOMAIN Bytes(u) = DOMAIN u.calls /\ IsFiniteSet(DOMAIN u.calls) /\ u.toolStats \in StatsRec
    BY BytesAreNumbers
  <2>2. /\ IsFiniteSet(before) /\ Cardinality(before) \in Nat /\ Cardinality(StillOpen(u, before)) \in Nat
        /\ SumOn(Bytes(u), before) \in Int /\ IsFiniteSet(StillOpen(u, before)) /\ IsFiniteSet(after)
    BY <1>1, <1>2, SummedIsStats
  <2>3. Cardinality(after) = Cardinality(before) + 1
    BY <1>1, <1>6, <2>2, FS_AddElement
  <2>4. Cardinality(StillOpen(u, after)) = Cardinality(StillOpen(u, before)) + (IF u.calls[c].state = "pending" THEN 1 ELSE 0)
    <3>1. StillOpen(u, after) = IF u.calls[c].state = "pending" THEN StillOpen(u, before) \cup {c} ELSE StillOpen(u, before)
      BY <1>1, <1>6 DEF StillOpen
    <3>2. c \notin StillOpen(u, before)
      BY <1>1, <1>6 DEF StillOpen
    <3>3. Cardinality(StillOpen(u, before) \cup {c}) = Cardinality(StillOpen(u, before)) + 1
      BY <2>2, <3>2, FS_AddElement
    <3> QED BY <2>2, <3>1, <3>3
  <2>5. SumOn(Bytes(u), after) = CallBytes(u.calls[c]) + SumOn(Bytes(u), before)
    <3>1. SumOn(Bytes(u), after) = Bytes(u)[c] + SumOn(Bytes(u), after \ {c})
      BY <1>1, <1>6, <2>1, <2>2, SumSplits
    <3>2. after \ {c} = before
      BY <1>1, <1>6
    <3> QED BY <1>4, <1>6, <3>1, <3>2 DEF Bytes
  <2>6. CallBytes(u.calls[c]) \in Int
    BY <1>4, <1>6, <2>1 DEF Numbers, Bytes
  <2>7. u.toolStats.calls \in Nat /\ u.toolStats.pending \in Nat /\ u.toolStats.bytes \in Int
    BY <2>1 DEF StatsRec
  <2> DEFINE p == IF u.calls[c].state = "pending" THEN 1 ELSE 0
             b == CallBytes(u.calls[c])
  <2>8. Adding(Summed(u, before), u.calls[c])
        = [calls |-> u.toolStats.calls + Cardinality(before) + 1,
           pending |-> u.toolStats.pending + Cardinality(StillOpen(u, before)) + p,
           bytes |-> u.toolStats.bytes + SumOn(Bytes(u), before) + b]
    BY DEF Adding, Summed
  <2>9. p \in Nat
    OBVIOUS
  <2>10. Cardinality(StillOpen(u, after)) = Cardinality(StillOpen(u, before)) + p
    BY <2>4
  <2>11. SumOn(Bytes(u), after) = b + SumOn(Bytes(u), before) /\ b \in Int
    BY <2>5, <2>6
  <2> HIDE DEF p, b
  <2>12. u.toolStats.calls + Cardinality(after) = u.toolStats.calls + Cardinality(before) + 1
    BY <2>2, <2>3, <2>7
  <2>13. u.toolStats.pending + Cardinality(StillOpen(u, after)) = u.toolStats.pending + Cardinality(StillOpen(u, before)) + p
    BY <2>2, <2>7, <2>9, <2>10
  <2>14. u.toolStats.bytes + SumOn(Bytes(u), after) = u.toolStats.bytes + SumOn(Bytes(u), before) + b
    BY <2>2, <2>7, <2>11
  <2>15. Summed(u, after) = Adding(Summed(u, before), u.calls[c])
    BY <2>8, <2>12, <2>13, <2>14 DEF Summed
  <2> QED BY <1>4, <1>6, <2>15 DEF before, after
<1> QED BY <1>5, <1>6

(* With no frame the summary is what was remembered. *)
LEMMA SummedOfNone ==
  ASSUME NEW u, Shaped(u) PROVE Summed(u, {}) = u.toolStats
<1>1. Numbers(Bytes(u)) /\ u.toolStats \in StatsRec
  BY BytesAreNumbers
<1>2. SumOn(Bytes(u), {}) = 0 /\ Cardinality({}) = 0 /\ StillOpen(u, {}) = {}
  BY <1>1, SumOfNone, FS_EmptySet DEF StillOpen
<1> QED BY <1>1, <1>2 DEF Summed, StatsRec

(* The fold over the frames is that sum. *)
LEMMA SummaryIs ==
  ASSUME NEW u, Shaped(u), OpensOnce(u)
  PROVE  ToolSummary(u) = Summed(u, Openings(u, DOMAIN u.events))
<1> DEFINE D  == DOMAIN u.events
           by == [I \in SUBSET D |-> Summed(u, Openings(u, I))]
<1>1. /\ IsFiniteSet(D) /\ D = 1 .. Len(u.events) /\ Len(u.events) \in Nat
  <2>1. u.events \in Seq(FrameRec)
    BY DEF Shaped, SessionRec
  <2>2. D = 1 .. Len(u.events) /\ Len(u.events) \in Nat
    BY <2>1
  <2> HIDE DEF D
  <2>3. IsFiniteSet(D)
    BY <2>2, FS_Interval
  <2> QED BY <2>2, <2>3
<1>2. ASSUME NEW I \in SUBSET D, I # {} PROVE Max(I) \in I
  BY <1>1, <1>2, GreatestExists
<1>3. Summed(u, Openings(u, {})) = u.toolStats
  <2>1. Openings(u, {}) = {}
    BY DEF Openings
  <2> QED BY <2>1, SummedOfNone
<1>4. Sweeps(u, by)
  <2>1. ASSUME NEW I \in SUBSET D
        PROVE  by[I] = IF I = {} THEN u.toolStats ELSE LET i == Max(I) IN FoldToolCall(by[I \ {i}], u, u.events[i])
    <3>1. CASE I = {}
      BY <1>3, <3>1
    <3>2. CASE I # {}
      <4> DEFINE i == Max(I)
      <4>1. i \in I
        BY <1>2, <3>2
      <4> HIDE DEF i
      <4>2. Summed(u, Openings(u, I)) = FoldToolCall(Summed(u, Openings(u, I \ {i})), u, u.events[i])
        BY <4>1, SummedStep
      <4>3. I \ {i} \in SUBSET D
        OBVIOUS
      <4> QED BY <3>2, <4>2, <4>3 DEF i
    <3> QED BY <3>1, <3>2
  <2> HIDE DEF by
  <2>2. by = [I \in SUBSET D |-> by[I]]
    BY DEF by
  <2> QED BY <2>1, <2>2 DEF Sweeps
<1>5. PICK iter : iter = (CHOOSE it : Sweeps(u, it)) /\ Sweeps(u, iter)
  BY <1>4
<1> DEFINE P == {I \in SUBSET D : iter[I] = Summed(u, Openings(u, I))}
<1>6. ASSUME NEW I \in SUBSET D, \A x \in I : I \ {x} \in P PROVE I \in P
  <2>0. iter[I] = IF I = {} THEN u.toolStats ELSE LET i == Max(I) IN FoldToolCall(iter[I \ {i}], u, u.events[i])
    BY <1>5 DEF Sweeps
  <2>1. CASE I = {}
    BY <1>3, <2>0, <2>1
  <2>2. CASE I # {}
    <3> DEFINE i == Max(I)
    <3>1. i \in I
      BY <1>2, <2>2
    <3>2. iter[I] = FoldToolCall(iter[I \ {i}], u, u.events[i])
      BY <2>0, <2>2
    <3> HIDE DEF i
    <3>3. Summed(u, Openings(u, I)) = FoldToolCall(Summed(u, Openings(u, I \ {i})), u, u.events[i])
      BY <3>1, SummedStep
    <3> QED BY <1>6, <3>1, <3>2, <3>3
  <2> QED BY <2>1, <2>2
<1>7. \A I \in SUBSET D : I \in P
  <2> HIDE DEF P, D
  <2> QED BY <1>1, <1>6, SubsetInduction
<1>8. iter[D] = Summed(u, Openings(u, D))
  BY <1>7
<1> QED BY <1>5, <1>8, SummaryIsFold

(* Disjoint sets count together. *)
LEMMA DisjointCount ==
  ASSUME NEW A, IsFiniteSet(A), NEW B, IsFiniteSet(B), A \cap B = {}
  PROVE  Cardinality(A \cup B) = Cardinality(A) + Cardinality(B)
<1>1. Cardinality(A \cup B) = Cardinality(A) + Cardinality(B) - Cardinality(A \cap B)
  BY FS_Union
<1>2. Cardinality(A \cap B) = 0
  BY FS_EmptySet
<1> DEFINE a == Cardinality(A)
           b == Cardinality(B)
<1>3. a \in Nat /\ b \in Nat /\ Cardinality(A \cup B) = a + b - 0
  BY <1>1, <1>2, FS_CardinalityType
<1> HIDE DEF a, b
<1>4. Cardinality(A \cup B) = a + b
  BY <1>3
<1> QED BY <1>4 DEF a, b

(* The fold of a function is its sum. *)
LEMMA FoldIsSum == ASSUME NEW f PROVE FoldFunction(+, 0, f) = SumOn(f, DOMAIN f)
BY DEF FoldFunction, SumOn

(* The summary of one session: what it remembers of the hidden calls and what the frames say of the shown ones. *)
ExactOf(sess) ==
  LET sum == ToolSummary(sess)
  IN  /\ sum.calls = Len(sess.calls)
      /\ Plain(sess) =>
           /\ sum.pending = Cardinality({c \in DOMAIN sess.calls : sess.calls[c].state = "pending"})
           /\ sum.bytes = FoldFunction(+, 0, [c \in DOMAIN sess.calls |->
                IF Landed(sess.calls[c]) THEN sess.at[c][1] ELSE 0])
      /\ \A c \in DOMAIN sess.calls : sess.calls[c].missed => ~Shown(sess, c)

(* The summary of one session is exact: remembered for the hidden calls, told by the frames for the shown ones. *)
LEMMA SummaryOfSession == ASSUME NEW u, SessionInv(u) PROVE ExactOf(u)
<1> DEFINE D == DOMAIN u.calls
           H == Hidden(u)
           S == Openings(u, DOMAIN u.events)
<1>1. Shaped(u) /\ OpensOnce(u) /\ StatsKept(u) /\ u.calls \in Seq(CallRec) /\ \A c \in D : AnsweredOnce(u, c)
  BY DEF SessionInv, Shaped, SessionRec
<1>2. ToolSummary(u) = Summed(u, S)
  BY <1>1, SummaryIs
<1>3. S = {c \in D : Shown(u, c)}
  <2>1. ASSUME NEW c \in D PROVE c \in S <=> Shown(u, c)
    <3>1. c # 0
      BY <1>1
    <3> QED BY <3>1 DEF Openings, Opens, Shown
  <2>2. S \subseteq D
    <3>1. ASSUME NEW j \in DOMAIN u.events, Opens(u.events[j]) PROVE u.events[j].call \in D
      BY <1>1, <3>1, FoldIs, BytesAreNumbers
    <3> QED BY <3>1 DEF Openings
  <2> QED BY <2>1, <2>2
<1>4. D = H \cup S /\ H \cap S = {} /\ H \in SUBSET D /\ S \in SUBSET D
  BY <1>3 DEF Hidden
<1>5. /\ Numbers(Bytes(u)) /\ DOMAIN Bytes(u) = D /\ IsFiniteSet(D) /\ u.toolStats \in StatsRec
      /\ Numbers(Gave(u)) /\ DOMAIN Gave(u) = D
  BY <1>1, BytesAreNumbers, GaveNumbers
<1>6. D = 1 .. Len(u.calls) /\ Len(u.calls) \in Nat
  BY <1>1
<1> HIDE DEF D, S, H
<1>7. Cardinality(D) = Len(u.calls)
  BY <1>6, FS_Interval
<1>8. IsFiniteSet(H) /\ IsFiniteSet(S)
  BY <1>4, <1>5, FS_Subset
<1>9. Summed(u, S).calls = Len(u.calls)
  <2>1. u.toolStats.calls = Cardinality(H)
    BY <1>1 DEF StatsKept, H
  <2>2. Cardinality(D) = Cardinality(H) + Cardinality(S)
    BY <1>4, <1>8, DisjointCount
  <2> QED BY <1>7, <2>1, <2>2 DEF Summed
<1>10. ASSUME Plain(u)
       PROVE  /\ Summed(u, S).pending = Cardinality({c \in D : u.calls[c].state = "pending"})
              /\ Summed(u, S).bytes = FoldFunction(+, 0, Gave(u))
  <2>1. u.toolStats.pending = Cardinality(StillOpen(u, H)) /\ u.toolStats.bytes = SumOn(Gave(u), H)
    BY <1>1, <1>10 DEF StatsKept, H
  <2>2. /\ StillOpen(u, H) \cap StillOpen(u, S) = {} /\ StillOpen(u, H) \subseteq H /\ StillOpen(u, S) \subseteq S
        /\ {c \in D : u.calls[c].state = "pending"} = StillOpen(u, H) \cup StillOpen(u, S)
    BY <1>4 DEF StillOpen
  <2>3. IsFiniteSet(StillOpen(u, H)) /\ IsFiniteSet(StillOpen(u, S))
    BY <1>8, <2>2, FS_Subset
  <2>4. Cardinality(StillOpen(u, H) \cup StillOpen(u, S)) = Cardinality(StillOpen(u, H)) + Cardinality(StillOpen(u, S))
    BY <2>2, <2>3, DisjointCount
  <2>5. Summed(u, S).pending = Cardinality({c \in D : u.calls[c].state = "pending"})
    BY <2>1, <2>2, <2>4 DEF Summed
  <2>6. \A c \in S : Bytes(u)[c] = Gave(u)[c]
    <3>1. \A c \in D : CallBytes(u.calls[c]) = Gave(u)[c]
      BY <1>10, GaveIsWeight DEF D
    <3> QED BY <1>4, <3>1 DEF Bytes, D
  <2>7. SumOn(Bytes(u), S) = SumOn(Gave(u), S)
    BY <1>4, <1>5, <1>8, <2>6, SameSum
  <2>8. SumOn(Gave(u), D) = SumOn(Gave(u), H) + SumOn(Gave(u), S)
    BY <1>4, <1>5, <1>8, SumsJoin
  <2>9. Summed(u, S).bytes = SumOn(Gave(u), D)
    BY <2>1, <2>7, <2>8 DEF Summed
  <2> QED BY <1>5, <2>5, <2>9, FoldIsSum
<1>11. Gave(u) = [c \in DOMAIN u.calls |-> IF Landed(u.calls[c]) THEN u.at[c][1] ELSE 0]
  BY DEF Gave
<1>12. \A c \in D : u.calls[c].missed => ~Shown(u, c)
  BY <1>1 DEF AnsweredOnce, D
<1> QED BY <1>2, <1>9, <1>10, <1>11, <1>12 DEF ExactOf, D

(* The limits and the sums, from the invariant. *)
LEMMA InvGivesLimits == ASSUME BoundInv PROVE WithinLimits
<1>1. /\ frames = FoldFunction(+, 0, [s \in Session |-> Len(sessions[s].events)])
      /\ payloadBytes = FoldFunction(+, 0, [s \in Session |-> sessions[s].bodyBytes])
  <2>1. frames = SumOn(FramesHeld, DOMAIN FramesHeld) /\ payloadBytes = SumOn(BytesHeld, DOMAIN BytesHeld)
    BY DEF BoundInv, Sums, FramesHeld, BytesHeld, FramesOf, BytesOf
  <2>2. /\ SumOn(FramesHeld, DOMAIN FramesHeld) = FoldFunction(+, 0, FramesHeld)
        /\ SumOn(BytesHeld, DOMAIN BytesHeld) = FoldFunction(+, 0, BytesHeld)
    BY FoldIsSum
  <2>3. FramesHeld = [s \in Session |-> Len(sessions[s].events)] /\ BytesHeld = [s \in Session |-> sessions[s].bodyBytes]
    BY DEF FramesHeld, BytesHeld, FramesOf, BytesOf
  <2> QED BY <2>1, <2>2, <2>3
<1>2. ASSUME NEW s \in Session PROVE sessions[s].evictCursor \in 0 .. Len(sessions[s].events)
  <2>1. sessions[s] \in SessionRec /\ sessions[s].evictCursor <= Len(sessions[s].events)
    BY DEF BoundInv, SessionInv, Shaped
  <2>2. sessions[s].evictCursor \in Nat /\ sessions[s].events \in Seq(FrameRec)
    BY <2>1 DEF SessionRec
  <2> QED BY <2>1, <2>2
<1> QED BY <1>1, <1>2 DEF BoundInv, Limits, WithinLimits

(* The summary, from the invariant. *)
LEMMA InvGivesSummary == ASSUME BoundInv PROVE SummaryExact
<1>1. \A s \in Session : ExactOf(sessions[s])
  BY SummaryOfSession DEF BoundInv
<1> QED BY <1>1 DEF ExactOf, SummaryExact

(* What a settled call that is kept still has, from the invariant. *)
LEMMA InvLetsCallsLeave == ASSUME BoundInv PROVE CallsLeaveToo
<1> SUFFICES ASSUME NEW s \in Session, NEW c \in DOMAIN sessions[s].calls, sessions[s].calls[c].kept,
                    sessions[s].calls[c].state # "pending", ~sessions[s].calls[c].unseen
             PROVE  \E i \in DOMAIN sessions[s].events : sessions[s].events[i].call = c
  BY DEF CallsLeaveToo
<1>1. Shown(sessions[s], c)
  BY DEF BoundInv, SessionInv, AnsweredOnce
<1> QED BY <1>1 DEF Shown

(* The store stays within its limits and its counters are the sums they stand for; what it answers from
   a summary is what an unbounded store would answer, for calls answered after their cancellation too,
   except that a call cancelled and forgotten, which takes its request to have left, loses what is
   answered late; and a settled call no frame points at is forgotten (NewBounded, appendEvent, evict,
   releaseBody, dropOldestFrame, foldInto, answerCall, Delete). *)
THEOREM MemoryIsExact == BoundSpec => []MemoryExact
<1>1. BoundInv => MemoryExact
  BY InvGivesLimits, InvGivesSummary, InvLetsCallsLeave DEF MemoryExact
<1> QED BY <1>1, BoundInvariance, PTL
===============================================================================
