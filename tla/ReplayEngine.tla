------------------------------- MODULE ReplayEngine -------------------------------
(***************************************************************************)
(* A session replay at work: internal/replay/session.go, session_http.go   *)
(* and carry.go.  The engine goes through its steps (ReplayPlan), a reader *)
(* takes what the server says, and deadlines pass.  The server under test  *)
(* is either the mock server of the same recording or one that answers     *)
(* late, in any order, with ids of its own, asks, exits or refuses.        *)
(*                                                                         *)
(* Time is not counted: a deadline may pass whenever it is waited for.     *)
(***************************************************************************)
EXTENDS ReplayPlan

CONSTANTS Scene     \* recordings, and how each is replayed

ASSUME ReplayEngineAssumption ==
  \A i \in DOMAIN Scene : /\ DOMAIN Scene[i] = {"frames", "skip", "readOnly", "http", "mock", "asks", "exits"}
                          /\ Scene[i].mock => Loads(Scene[i].frames) /\ ~Scene[i].http

VARIABLES
  scene,      \* which recording
  plan,       \* its plan: steps and slots
  at,         \* the engine: step, what it does there and the place in that
  slot,       \* slot[i]: a request sent, answered, given up
  inflight,   \* e.inflight: slots by id
  served,     \* e.served: ids of the server's requests by method
  gone,       \* server requests given up on
  carried,    \* e.carried: recorded value to replayed value
  exited,     \* e.exited
  report,     \* the SessionReport; missing and skipped by what they name
  kept,       \* elements of the step that go out
  wire,       \* frames on their way to the server
  back,       \* messages on their way to the reader
  server      \* requests open there, answers used up, requests asked, replies had,
              \* what the mock gave for what and what it has to give

vars == <<scene, plan, at, slot, inflight, served, gone, carried, exited, report, kept,
          wire, back, server>>

(* Scene, by a name that TLC evaluates once. *)
Recordings == Scene

S     == Recordings[scene]
Step  == plan.steps[at.step]
Slots == DOMAIN plan.slots

Init ==
  /\ scene \in DOMAIN Recordings
  /\ plan = PlanOf(S.frames, S.skip, S.readOnly)
  /\ at = [step |-> 1, doing |-> "wait", n |-> 1]
  /\ slot = [i \in Slots |-> [sent |-> FALSE, answered |-> FALSE, gaveUp |-> FALSE]]
  /\ inflight = <<>> /\ served = <<>> /\ gone = {} /\ carried = <<>>
  /\ exited = FALSE
  /\ report = [sent |-> 0, skipped |-> <<>>, missing |-> <<>>, unanswered |-> <<>>, exited |-> FALSE]
  /\ kept = <<>> /\ wire = <<>> /\ back = <<>>
  /\ server = [open |-> <<>>, used |-> <<>>, asked |-> 0, replies |-> <<>>, given |-> <<>>,
               groups |-> IF S.mock THEN Build(S.frames) ELSE <<>>]

Stays == UNCHANGED <<scene, plan, wire, back, server, exited>>
NextStep == [step |-> at.step + 1, doing |-> "wait", n |-> 1]
Skips == report' = [report EXCEPT !.skipped = Append(@, at.step)]

-----------------------------------------------------------------------------
(* run: a step that is skipped is not waited for. *)
SkipStep ==
  /\ at.doing = "wait" /\ at.step <= Len(plan.steps) /\ Step.skip # ""
  /\ Skips
  /\ at' = NextStep
  /\ Stays /\ UNCHANGED <<slot, inflight, served, gone, carried, kept>>

(* await: what it waits for, and its two ends. *)
Satisfied(a) ==
  IF a.slot # None
  THEN LET s == slot[a.slot] IN plan.slots[a.slot].skipped \/ ~s.sent \/ s.answered \/ s.gaveUp
  ELSE a.ref \in gone \/ Len(Value(served, a.ref[1], <<>>)) >= a.ref[2]

(* Faulty variant: there is no deadline. *)
PassesNever == exited
DeadlinePasses == TRUE

Missed(slots, ref) == [report EXCEPT !.missing = Append(@, [slots |-> slots, ref |-> ref])]

GivesUp(a) ==
  /\ slot' = IF a.slot = None THEN slot ELSE [slot EXCEPT ![a.slot].gaveUp = TRUE]
  /\ gone' = IF a.slot = None THEN gone \cup {a.ref} ELSE gone
  /\ report' = Missed({a.slot} \ {None}, a.ref)

Waits(a) ==
  \/ /\ Satisfied(a)
     /\ UNCHANGED <<slot, gone, report>>
  \/ /\ ~Satisfied(a) /\ (exited \/ DeadlinePasses)
     /\ GivesUp(a)

AwaitsOne ==
  /\ at.doing = "wait" /\ at.step <= Len(plan.steps) /\ Step.skip = ""
  /\ at.n <= Len(Step.waits)
  /\ Waits(Step.waits[at.n])
  /\ at' = [at EXCEPT !.n = @ + 1]
  /\ Stays /\ UNCHANGED <<inflight, served, carried, kept>>

(* The waits of the step are over: the server may have stopped. *)
WaitsOver ==
  /\ at.doing = "wait" /\ at.step <= Len(plan.steps) /\ Step.skip = "" /\ at.n > Len(Step.waits)
  /\ report' = [report EXCEPT !.exited = exited]
  /\ at' = [at EXCEPT !.n = 1, !.doing = IF exited THEN "last" ELSE "send"]
  /\ kept' = <<>>
  /\ Stays /\ UNCHANGED <<slot, inflight, served, gone, carried>>

StepsOver ==
  /\ at.doing = "wait" /\ at.step > Len(plan.steps)
  /\ at' = [at EXCEPT !.doing = "last", !.n = 1]
  /\ Stays /\ UNCHANGED <<slot, inflight, served, gone, carried, report, kept>>

(* The answers still owed, then the end of the session. *)
AwaitsLast ==
  /\ at.doing = "last" /\ at.n \in Slots
  /\ IF plan.slots[at.n].recorded = <<>> THEN UNCHANGED <<slot, gone, report>>
     ELSE Waits([slot |-> at.n, ref |-> <<>>])
  /\ at' = [at EXCEPT !.n = @ + 1]
  /\ Stays /\ UNCHANGED <<inflight, served, carried, kept>>

Finishes ==
  /\ at.doing = "last" /\ at.n \notin Slots
  /\ at' = [at EXCEPT !.doing = "done"]
  /\ Stays /\ UNCHANGED <<slot, inflight, served, gone, carried, report, kept>>

-----------------------------------------------------------------------------
(* send: one element at a time. *)
Element == Step.els[at.n]
Sending == at.doing = "send" /\ at.n <= Len(Step.els)
NextElement == at' = [at EXCEPT !.n = @ + 1]

(* carried.apply. *)
Applied(m) == [m EXCEPT !.value = Value(carried, @, @)]

(* servedID: the server's own id of the request that is answered. *)
ServedID(el) == served[el.answers[1]][el.answers[2]]
IsServed(el) == Len(Value(served, el.answers[1], <<>>)) >= el.answers[2]

Leaves(el) == el.ping \/ (el.answers # <<>> /\ ~IsServed(el))

SendLeavesOut ==
  /\ Sending /\ Element.cancels = None /\ Leaves(Element)
  /\ Skips /\ NextElement
  /\ Stays /\ UNCHANGED <<slot, inflight, served, gone, carried, kept>>

SendKeeps ==
  /\ Sending /\ Element.cancels = None /\ ~Leaves(Element)
  /\ LET m == Applied(Element.msg)
         el == IF Element.answers = <<>> THEN m ELSE [m EXCEPT !.id = ServedID(Element)]
     IN kept' = Append(kept, el)
  /\ IF Element.opens = None THEN UNCHANGED <<slot, inflight>>
     ELSE /\ slot' = [slot EXCEPT ![Element.opens].sent = TRUE]
          /\ inflight' = (Element.msg.id :> Element.opens) @@ inflight
  /\ NextElement
  /\ Stays /\ UNCHANGED <<served, gone, carried, report>>

(* cancelStillMeant: the delay passes and the call is still open, or it was *)
(* answered, or never sent.                                                 *)
Meant(s) == slot[s].sent /\ ~plan.slots[s].skipped /\ ~slot[s].answered

Modern(s) == plan.slots[s].msg.modern
Drop(i) == [x \in DOMAIN inflight \ {i} |-> inflight[x]]

(* closed: over HTTP the answer's stream is closed, and nothing is posted. *)
ClosesStream(s) ==
  LET id == plan.slots[s].msg.id
      open == Value(inflight, id, None)
  IN  /\ inflight' = Drop(id)
      /\ slot' = IF open = None THEN slot
                 ELSE [slot EXCEPT ![open].answered = TRUE, ![open].gaveUp = TRUE]

(* stdio has no way to say that a client of an older revision left. *)
Unsayable(el) == el.closes /\ ~S.http /\ ~Modern(el.cancels)

SendCancelDropped ==
  /\ Sending /\ Element.cancels # None
  /\ ~Meant(Element.cancels) \/ Unsayable(Element)
  /\ Skips /\ NextElement
  /\ Stays /\ UNCHANGED <<slot, inflight, served, gone, carried, kept>>

SendCancel ==
  /\ Sending /\ Element.cancels # None
  /\ Meant(Element.cancels) /\ ~Unsayable(Element)
  /\ IF S.http /\ (Element.closes \/ Modern(Element.cancels))
     THEN /\ ClosesStream(Element.cancels)
          /\ kept' = Append(kept, Cancel(None))
     ELSE /\ kept' = Append(kept, Cancel(plan.slots[Element.cancels].msg.id))
          /\ UNCHANGED <<slot, inflight>>
  /\ NextElement
  /\ Stays /\ UNCHANGED <<served, gone, carried, report>>

(* What was kept goes out as one frame; a request does not hold up the next *)
(* frame, anything else posted over HTTP does.                              *)
Posted == SelectSeq(kept, LAMBDA m : m.k # "cancel" \/ m.id # None)
Held   == S.http /\ Posted # <<>> /\ ~(Len(Posted) = 1 /\ Posted[1].k = "request")

SendFrame ==
  /\ at.doing = "send" /\ at.n > Len(Step.els)
  /\ wire' = IF Posted = <<>> THEN wire ELSE Append(wire, Posted)
  /\ report' = IF kept = <<>> THEN report ELSE [report EXCEPT !.sent = @ + 1]
  /\ at' = IF Held THEN [at EXCEPT !.doing = "post"] ELSE NextStep
  /\ kept' = IF Held THEN kept ELSE <<>>
  /\ UNCHANGED <<scene, plan, back, server, exited, slot, inflight, served, gone, carried>>

(* The POST of this frame came to an end; others may be under way. *)
PostReturns ==
  /\ at.doing = "post" /\ Posted \notin ToSet(wire)
  /\ at' = NextStep /\ kept' = <<>>
  /\ Stays /\ UNCHANGED <<slot, inflight, served, gone, carried, report>>

-----------------------------------------------------------------------------
(* receive. *)
Without(q, i) == SubSeq(q, 1, i - 1) \o SubSeq(q, i + 1, Len(q))
First(q)      == IF S.http THEN DOMAIN q ELSE DOMAIN q \cap {1}

(* learn: a value the server issued differently this time. *)
Learnt(s, m) ==
  LET r == plan.slots[s].recorded
  IN  IF r = <<>> \/ r[1].value \in {None, m.value} \/ m.value = None THEN carried
      ELSE (r[1].value :> m.value) @@ carried

ReceiveAnswer(i) ==
  /\ i \in First(back) /\ back[i].k = "answer"
  /\ LET s == Value(inflight, back[i].id, None)
     IN IF s = None THEN UNCHANGED <<slot, inflight, carried>>
        ELSE /\ inflight' = Drop(back[i].id)
             /\ slot' = [slot EXCEPT ![s].answered = TRUE]
             /\ carried' = Learnt(s, back[i])
  /\ back' = Without(back, i)
  /\ UNCHANGED <<scene, plan, at, served, gone, exited, report, kept, wire, server>>

ReceivePing(i) ==
  /\ i \in First(back) /\ back[i].k = "request" /\ back[i].method = "ping"
  /\ wire' = Append(wire, <<Answer(back[i].id, None)>>)
  /\ back' = Without(back, i)
  /\ UNCHANGED <<scene, plan, at, slot, inflight, served, gone, carried, exited, report, kept, server>>

ReceiveRequest(i) ==
  /\ i \in First(back) /\ back[i].k = "request" /\ back[i].method # "ping"
  /\ LET m == back[i].method
         ids == Append(Value(served, m, <<>>), back[i].id)
     IN /\ served' = (m :> ids) @@ served
        /\ report' = IF Len(ids) <= Value(plan.counts, m, 0) THEN report
                     ELSE [report EXCEPT !.unanswered = Append(@, back[i].id)]
  /\ back' = Without(back, i)
  /\ UNCHANGED <<scene, plan, at, slot, inflight, gone, carried, exited, kept, wire, server>>

(* giveUp: a POST the server refused, or that failed, settles its requests. *)
Refused(i) ==
  /\ S.http /\ ~S.mock /\ i \in DOMAIN wire
  /\ LET ids == {wire[i][k].id : k \in {j \in DOMAIN wire[i] : wire[i][j].k = "request"}}
         settled == {inflight[x] : x \in ids \cap DOMAIN inflight}
     IN /\ inflight' = [x \in DOMAIN inflight \ ids |-> inflight[x]]
        /\ slot' = [s \in Slots |-> IF s \in settled
                      THEN [slot[s] EXCEPT !.answered = TRUE, !.gaveUp = TRUE] ELSE slot[s]]
        /\ report' = IF settled = {} /\ ids # {} THEN report ELSE Missed(settled, <<>>)
  /\ wire' = Without(wire, i)
  /\ UNCHANGED <<scene, plan, at, served, gone, carried, exited, kept, back, server>>

-----------------------------------------------------------------------------
(* The server under test.  The mock answers as it reads. *)
MockReads(i) ==
  /\ S.mock /\ ~exited /\ i \in First(wire)
  /\ LET line(Z, m) == [used |-> Used(Z.used, m),
                        back |-> Z.back \o Serves(server.groups, Z.used, m)]
         Z == FoldLeft(line, [used |-> server.used, back |-> <<>>], wire[i])
         asked == SelectSeq(wire[i], LAMBDA m : m.k = "request")
     IN /\ server' = [server EXCEPT !.used = Z.used,
                                    !.given = @ \o [n \in DOMAIN asked |-> <<asked[n], Z.back[n]>>]]
        /\ back' = back \o Z.back
  /\ wire' = Without(wire, i)
  /\ UNCHANGED <<scene, plan, at, slot, inflight, served, gone, carried, exited, report, kept>>

ServerReads(i) ==
  /\ ~S.mock /\ ~exited /\ i \in First(wire)
  /\ server' = [server EXCEPT !.open = @ \o SelectSeq(wire[i], LAMBDA m : m.k = "request"),
                              !.replies = @ \o SelectSeq(wire[i], LAMBDA m : m.k = "answer")]
  /\ wire' = Without(wire, i)
  /\ UNCHANGED <<scene, plan, at, slot, inflight, served, gone, carried, exited, report, kept, back>>

(* It issues values of its own, ten above the recorded ones. *)
Fresh(s) == LET r == plan.slots[s].recorded IN
            IF r = <<>> \/ r[1].value = None THEN None ELSE r[1].value + 10

ServerAnswers(i) ==
  /\ i \in DOMAIN server.open /\ ~exited
  /\ LET m == server.open[i]
     IN \E s \in Slots : /\ plan.slots[s].msg.id = m.id /\ plan.slots[s].msg.method = m.method
                         /\ back' = Append(back, [Answer(m.id, Fresh(s)) EXCEPT !.task = TRUE])
  /\ server' = [server EXCEPT !.open = Without(@, i)]
  /\ UNCHANGED <<scene, plan, at, slot, inflight, served, gone, carried, exited, report, kept, wire>>

ServerAsks(method) ==
  /\ server.asked < S.asks /\ ~exited /\ ~S.mock
  /\ back' = Append(back, Request(50 + server.asked, method))
  /\ server' = [server EXCEPT !.asked = @ + 1]
  /\ UNCHANGED <<scene, plan, at, slot, inflight, served, gone, carried, exited, report, kept, wire>>

ServerExits ==
  /\ S.exits /\ ~exited
  /\ exited' = TRUE
  /\ wire' = <<>>
  /\ UNCHANGED <<scene, plan, at, slot, inflight, served, gone, carried, report, kept, back, server>>

-----------------------------------------------------------------------------
Engine ==
  \/ SkipStep \/ AwaitsOne \/ WaitsOver \/ StepsOver \/ AwaitsLast \/ Finishes
  \/ SendLeavesOut \/ SendKeeps \/ SendCancelDropped \/ SendCancel
  \/ SendFrame \/ PostReturns

Reader == \E i \in DOMAIN back : ReceiveAnswer(i) \/ ReceivePing(i) \/ ReceiveRequest(i)

Server ==
  \/ \E i \in DOMAIN wire : MockReads(i) \/ ServerReads(i) \/ Refused(i)
  \/ \E i \in DOMAIN server.open : ServerAnswers(i)
  \/ \E method \in {"sampling", "ping"} : ServerAsks(method)
  \/ ServerExits

Next == Engine \/ Reader \/ Server

Spec == Init /\ [][Next]_vars

(* A POST comes to an end. *)
PostReturned == \E i \in DOMAIN wire : MockReads(i) \/ ServerReads(i) \/ Refused(i)

-----------------------------------------------------------------------------
(* What the recording itself says, read off its frames without the plan:   *)
(* where each request was asked and where its answer came, 0 for nowhere;  *)
(* where the server asked, what, and for which time.                       *)
Of(F, i, k) == SelectSeq([n \in DOMAIN F[i].msgs |-> <<i, F[i].msgs[n]>>], LAMBDA x : x[2].k = k)
Said(F, dir, k) ==
  FoldLeft(LAMBDA Z, i : IF F[i].dir = dir /\ F[i].state = "ok" THEN Z \o Of(F, i, k) ELSE Z,
           <<>>, [i \in DOMAIN F |-> i])

Truth(F) ==
  LET asked == Said(F, "out", "request")
      answers == Said(F, "in", "answer")
      wanted == Said(F, "in", "request")
      own(s) == {a \in ToSet(answers) :
                   /\ a[2].id = asked[s][2].id /\ a[1] > asked[s][1]
                   /\ \A t \in DOMAIN asked : t > s /\ asked[t][2].id = asked[s][2].id
                                              => a[1] < asked[t][1]}
      first(s) == IF own(s) = {} THEN 0 ELSE CHOOSE i \in {a[1] : a \in own(s)} :
                                               \A a \in own(s) : i <= a[1]
  IN  [asked    |-> [s \in DOMAIN asked |-> asked[s][1]],
       answered |-> [s \in DOMAIN asked |-> first(s)],
       requests |-> {<<wanted[n][1], wanted[n][2].method,
                       Cardinality({k \in 1 .. n : wanted[k][2].method = wanted[n][2].method})>>
                       : n \in DOMAIN wanted},
       client   |-> SelectSeq([i \in DOMAIN F |-> i], LAMBDA i : F[i].dir = "out")]

Orders == [i \in DOMAIN Recordings |-> AnswersAfterRequests(Recordings[i].frames)]
Truths == [i \in DOMAIN Recordings |-> Truth(Orders[i])]
G      == Orders[scene]
T      == Truths[scene]

(* The step that waits for what frame i holds was not skipped. *)
WaitedFor(i) ==
  LET after == {p \in DOMAIN T.client : T.client[p] > i}
  IN  after # {} /\ plan.steps[CHOOSE p \in after : \A q \in after : p <= q].skip = ""

Came(i, awaited) == T.client[at.step] > i /\ WaitedFor(i) => Satisfied(awaited)

(***************************************************************************)
(* The comment on SessionOptions' frames: each frame goes out only after   *)
(* the answers and server requests that came before it in the recording    *)
(* have come again, or were given up.  What a skipped frame would have     *)
(* waited for is left to EachAfterAll.                                     *)
(***************************************************************************)
EachAfterItsPast ==
  [][report'.sent > report.sent =>
       /\ \A s \in Slots : T.answered[s] # 0 => Came(T.answered[s], [slot |-> s, ref |-> <<>>])
       /\ \A r \in T.requests : r[2] # "ping" => Came(r[1], [slot |-> None, ref |-> <<r[2], r[3]>>])]_vars

(* The same of every answer, as the package comment of session.go says it. *)
EachAfterAll ==
  [][report'.sent > report.sent =>
       \A s \in Slots : T.answered[s] \in 1 .. T.client[at.step] =>
         Satisfied([slot |-> s, ref |-> <<>>])]_vars

(***************************************************************************)
(* What goes out speaks of this server's things: an answer answers a       *)
(* request this server sent, of the recorded method and place, and a value *)
(* it issued anew is the one sent back, not the recorded one.  No request  *)
(* of the server is answered twice, and no call that was answered is       *)
(* cancelled.                                                              *)
(***************************************************************************)
Own(m) ==
  /\ m.k = "answer" => \E r \in T.requests : m.id \in ToSet(Value(served, r[2], <<>>))
  /\ m.k = "request" /\ ~S.mock => \A s \in Slots :
       LET r == plan.slots[s].recorded
       IN  r # <<>> /\ r[1].value = m.value /\ m.value # None
           => ~slot[s].answered \/ slot[s].gaveUp \/ r[1].value = Fresh(s)
  /\ m.k = "cancel" => \A s \in Slots : plan.slots[s].msg.id = m.id => ~slot[s].answered

SpeaksOfThisServer ==
  [][/\ Len(kept') > Len(kept) => Own(Last(kept'))
     /\ Len(server'.replies) > Len(server.replies) =>
          \A n \in DOMAIN server.replies : server.replies[n].id # Last(server'.replies).id]_vars

(***************************************************************************)
(* At the end the report accounts for the recording: a step was sent,      *)
(* skipped or cut off by the server's exit, a call that was sent and had   *)
(* an answer has one again or is missing, or the replay closed it.  A call *)
(* of a skipped tool never went out, nor what asks after its task.         *)
(***************************************************************************)
HeldBack(s) ==
  \/ plan.slots[s].msg.tool \in S.skip
  \/ plan.slots[s].msg.method = "tasks/get"
     /\ \E c \in Slots : plan.slots[c].msg.tool \in S.skip /\ T.answered[c] # 0
                         /\ plan.slots[s].msg.value \in {m.value : m \in ToSet(G[T.answered[c]].msgs)}
Abandons(s) == \E p \in DOMAIN plan.steps : \E n \in DOMAIN plan.steps[p].els : plan.steps[p].els[n].cancels = s
Accounted ==
  at.doing = "done" =>
    /\ \A s \in Slots :
         plan.slots[s].recorded # <<>> /\ slot[s].sent =>
           \/ slot[s].answered /\ ~slot[s].gaveUp
           \/ \E n \in DOMAIN report.missing : s \in report.missing[n].slots
           \/ S.http /\ Abandons(s)
    /\ report.sent + Cardinality(ToSet(report.skipped)) >= Len(plan.steps) \/ report.exited
    /\ report.sent <= Len(plan.steps)
    /\ \A s \in Slots : HeldBack(s) => ~slot[s].sent

(* The mock server gives a request only what the recording gave the same   *)
(* request, and each answer once (mock.go, "in recording order").          *)
MockIsFaithful ==
  LET gave(r, a) == \E i, j \in DOMAIN S.frames : \E m \in ToSet(S.frames[i].msgs) :
                      \E b \in ToSet(S.frames[j].msgs) :
                        /\ i < j /\ m.k = "request" /\ b.k = "answer" /\ m.id = b.id
                        /\ m.method = r.method /\ m.tool = r.tool /\ m.value = r.value
                        /\ b.value = a.value
  IN  \A n \in DOMAIN server.given :
        LET x == server.given[n]
        IN  x[2].value # None =>
              /\ gave(x[1], x[2])
              /\ \A m \in DOMAIN server.given :
                   server.given[m][2].value = x[2].value /\ server.given[m][1].id # x[1].id => FALSE
=============================================================================
