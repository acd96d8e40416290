-------------------------------- MODULE ReplayPlan --------------------------------
(***************************************************************************)
(* What a session replay makes of a recording before it sends anything:    *)
(* internal/replay/order.go and the planning half of session.go; and      *)
(* what the mock server makes of one, which serves it back.                *)
(*                                                                         *)
(* A recording is a sequence of frames; a frame has a direction, its HTTP  *)
(* exchange (0 for none), what became of it and the messages it holds.  A  *)
(* message is a request, an answer, a cancellation or another note; value  *)
(* stands for what its params echo or its result issues.                   *)
(***************************************************************************)
EXTENDS Integers, Sequences, SequencesExt, FiniteSets, TLC

None == 0

Blank == [k |-> "note", id |-> None, method |-> "", tool |-> "", value |-> None,
          task |-> FALSE, modern |-> FALSE, readOnly |-> {}]

Request(id, method)      == [Blank EXCEPT !.k = "request", !.id = id, !.method = method]
Call(id, tool, value)    == [Request(id, "tools/call") EXCEPT !.tool = tool, !.value = value]
TaskRequest(id, task)    == [Request(id, "tasks/get") EXCEPT !.value = task]
Answer(id, value)        == [Blank EXCEPT !.k = "answer", !.id = id, !.value = value]
Listing(id, tools)       == [Answer(id, None) EXCEPT !.readOnly = tools]
HandsOut(id, task)       == [Answer(id, task) EXCEPT !.task = TRUE]
Cancel(id)               == [Blank EXCEPT !.k = "cancel", !.id = id]
Note                     == Blank
Frame(dir, exch, state, msgs) == [dir |-> dir, exch |-> exch, state |-> state, msgs |-> msgs]
Out(msgs)                == Frame("out", 0, "ok", msgs)
In(msgs)                 == Frame("in", 0, "ok", msgs)

-----------------------------------------------------------------------------
(* answersAfterRequests: an answer of the client with no server request of *)
(* its id open before it moves to just after the next one that no other    *)
(* early answer was moved behind.  Claims[i] is the frame that frame i     *)
(* moves behind, 0 when it stays.                                          *)
Lone(f, k) == f.state = "ok" /\ Len(f.msgs) = 1 /\ f.msgs[1].k = k
Asks(f)    == f.dir = "in" /\ Lone(f, "request")
Replies(f) == f.dir = "out" /\ Lone(f, "answer")

Claim(F, S, i) ==
  LET id == F[i].msgs[1].id
      opened == IF id \in DOMAIN S.open THEN S.open[id] ELSE 0
      next == {j \in i + 1 .. Len(F) : Asks(F[j]) /\ F[j].msgs[1].id = id
                                       /\ \A k \in DOMAIN S.behind : S.behind[k] # j}
  IN  CASE Asks(F[i]) /\ \A k \in DOMAIN S.behind : S.behind[k] # i ->
             [S EXCEPT !.open = (id :> opened + 1) @@ @, !.behind = Append(@, 0)]
        [] Replies(F[i]) /\ opened > 0 ->
             [S EXCEPT !.open = (id :> opened - 1) @@ @, !.behind = Append(@, 0)]
        [] Replies(F[i]) /\ opened = 0 /\ next # {} ->
             [S EXCEPT !.behind = Append(@, CHOOSE j \in next : \A k \in next : j <= k)]
        [] OTHER -> [S EXCEPT !.behind = Append(@, 0)]

ClaimStep(F, S, i) ==
  IF Asks(F[i]) \/ Replies(F[i]) THEN Claim(F, S, i) ELSE [S EXCEPT !.behind = Append(@, 0)]

Claims(F) ==
  FoldLeft(LAMBDA S, i : ClaimStep(F, S, i), [open |-> <<>>, behind |-> <<>>],
           [i \in DOMAIN F |-> i]).behind

AnswersAfterRequests(F) ==
  LET behind == Claims(F)
      stay == SelectSeq([i \in DOMAIN F |-> i], LAMBDA i : behind[i] = 0)
      At(i) == <<F[i]>> \o [n \in 1 .. Cardinality({k \in DOMAIN F : behind[k] = i}) |->
                              F[CHOOSE k \in DOMAIN F :
                                  /\ behind[k] = i
                                  /\ Cardinality({m \in 1 .. k : behind[m] = i}) = n]]
  IN  FlattenSeq([n \in DOMAIN stay |-> At(stay[n])])

-----------------------------------------------------------------------------
(* plan: the state of its one pass over the frames. *)
NoElement == [msg |-> Blank, opens |-> None, cancels |-> None, closes |-> FALSE,
              answers |-> <<>>, ping |-> FALSE]

Planning == [steps |-> <<>>, slots |-> <<>>, pending |-> <<>>, open |-> <<>>,
             byID |-> <<>>, counts |-> <<>>, carried |-> <<>>, els |-> <<>>]

Value(f, x, default) == IF x \in DOMAIN f THEN f[x] ELSE default

(* One message of a client frame becomes an element of its step. *)
ClientMessage(f, S, m) ==
  LET el == [NoElement EXCEPT !.msg = m]
      n  == Len(S.slots) + 1
      cancelled == Value(S.open, m.id, None)
      ref == Value(S.byID, m.id, <<>>)
  IN  CASE m.k = "request" ->
             [S EXCEPT !.slots = Append(@, [msg |-> m, recorded |-> <<>>, skipped |-> FALSE]),
                       !.open = (m.id :> n) @@ @,
                       !.carried = IF f.exch # 0 /\ f.exch \notin DOMAIN @
                                   THEN (f.exch :> n) @@ @ ELSE @,
                       !.els = Append(@, [el EXCEPT !.opens = n])]
        [] m.k = "cancel" -> [S EXCEPT !.els = Append(@, [el EXCEPT !.cancels = cancelled])]
        [] m.k = "answer" /\ ref # <<>> ->
             [S EXCEPT !.els = Append(@, IF ref[1] = "ping" THEN [el EXCEPT !.ping = TRUE]
                                         ELSE [el EXCEPT !.answers = ref])]
        [] OTHER -> [S EXCEPT !.els = Append(@, el)]

(* A client frame waits for what came since the one before it. *)
ClientFrame(S, f) ==
  LET held == Value(S.carried, f.exch, None)
      skip == IF f.state = "left"
              THEN IF held = None THEN "unknown exchange" ELSE ""
              ELSE IF f.state # "ok" THEN f.state ELSE ""
      T == IF f.state = "ok"
           THEN FoldLeft(LAMBDA A, m : ClientMessage(f, A, m), [S EXCEPT !.els = <<>>], f.msgs)
           ELSE [S EXCEPT !.els = IF f.state = "left" /\ held # None
                                  THEN <<[NoElement EXCEPT !.cancels = held, !.closes = TRUE]>>
                                  ELSE <<>>]
  IN  [T EXCEPT !.pending = <<>>,
                !.steps = Append(@, [frame |-> f, els |-> T.els, waits |-> S.pending, skip |-> skip])]

(* The first answer to a slot, and every server request but a ping, is     *)
(* something the next client frame came after.                             *)
ServerMessage(S, m) ==
  LET n == Value(S.open, m.id, None)
      ref == <<m.method, Value(S.counts, m.method, 0) + 1>>
  IN  CASE m.k = "answer" /\ n # None /\ S.slots[n].recorded = <<>> ->
             [S EXCEPT !.slots[n].recorded = <<m>>, !.pending = Append(@, [slot |-> n, ref |-> <<>>])]
        [] m.k = "request" ->
             [S EXCEPT !.counts = (m.method :> ref[2]) @@ @, !.byID = (m.id :> ref) @@ @,
                       !.pending = IF m.method = "ping" THEN @
                                   ELSE Append(@, [slot |-> None, ref |-> ref])]
        [] OTHER -> S

(* Faulty variant: what came before a frame is not waited for. *)
PlanFrameUnordered(S, f) ==
  IF f.dir = "out" THEN ClientFrame([S EXCEPT !.pending = <<>>], f)
  ELSE IF f.state # "ok" THEN S
  ELSE FoldLeft(ServerMessage, S, f.msgs)

PlanFrame(S, f) ==
  IF f.dir = "out" THEN ClientFrame(S, f)
  ELSE IF f.state # "ok" THEN S
  ELSE FoldLeft(ServerMessage, S, f.msgs)

-----------------------------------------------------------------------------
(* recordedReadOnly and markSkipped: the calls to skipped tools are held   *)
(* back, and what only makes sense after one.                              *)
RecordedReadOnly(slots) ==
  UNION {slots[i].recorded[1].readOnly :
           i \in {j \in DOMAIN slots : slots[j].msg.method = "tools/list" /\ slots[j].recorded # <<>>}}

SkippedTools(P, skipTools, readOnly) ==
  skipTools \cup (IF readOnly
                  THEN {P.slots[i].msg.tool : i \in {j \in DOMAIN P.slots : P.slots[j].msg.method = "tools/call"}}
                         \ RecordedReadOnly(P.slots)
                  ELSE {})

SkippedSlot(P, tools, i) ==
  LET Called(j) == P.slots[j].msg.method = "tools/call" /\ P.slots[j].msg.tool \in tools
      tasks == {P.slots[j].recorded[1].value :
                  j \in {k \in DOMAIN P.slots : Called(k) /\ P.slots[k].recorded # <<>>
                                                /\ P.slots[k].recorded[1].task}}
  IN  Called(i) \/ (P.slots[i].msg.method = "tasks/get" /\ P.slots[i].msg.value \in tasks)

SkipsElement(P, tools, el) ==
  \E i \in {el.opens, el.cancels} \ {None} : SkippedSlot(P, tools, i)

MarkSkipped(P, tools) ==
  LET held(st) == {i \in DOMAIN st.els : SkipsElement(P, tools, st.els[i])}
      skip(st) == IF st.skip = "" /\ held(st) # {} THEN "a skipped call" ELSE st.skip
  IN  [P EXCEPT !.slots = [i \in DOMAIN P.slots |->
                             [P.slots[i] EXCEPT !.skipped = SkippedSlot(P, tools, i)]],
                !.steps = [i \in DOMAIN P.steps |-> [P.steps[i] EXCEPT !.skip = skip(P.steps[i])]]]

PlanOf(frames, skipTools, readOnly) ==
  LET P == FoldLeft(PlanFrame, Planning, AnswersAfterRequests(frames))
  IN  MarkSkipped(P, SkippedTools(P, skipTools, readOnly))

-----------------------------------------------------------------------------
(* The mock server, internal/mock/mock.go: the same recording's answers, queued behind the
   requests they answered and given to a client in that order.  Which answer belongs to which
   request the store decides (CallStore): an answer goes to the last request of its id that is
   still open. *)

(* matchKey: the method and the params, whatever the id. *)
(* Faulty variant: the method alone. *)
MatchMethod(m) == <<m.method>>
MatchKey(m) == <<m.method, m.tool, m.value>>

(* build: one pass over the timeline; groups maps a key to its answers. *)
Record(S, f, m) ==
  LET key == S.open[m.id]
  IN  CASE f.dir = "out" /\ m.k = "request" -> [S EXCEPT !.open = (m.id :> MatchKey(m)) @@ @]
        [] f.dir = "in" /\ m.k = "answer" /\ m.id \in DOMAIN S.open ->
             [open   |-> [i \in DOMAIN S.open \ {m.id} |-> S.open[i]],
              groups |-> (key :> Append(Value(S.groups, key, <<>>), m)) @@ S.groups]
        [] OTHER -> S

Build(frames) ==
  FoldLeft(LAMBDA S, f : IF f.state = "ok"
                         THEN FoldLeft(LAMBDA A, m : Record(A, f, m), S, f.msgs) ELSE S,
           [open |-> <<>>, groups |-> <<>>], frames).groups

(* Load refuses what it cannot serve faithfully. *)
Loads(frames) == frames # <<>> /\ \A i \in DOMAIN frames : frames[i].exch = 0

(* serveLine: the next recorded answer under the incoming id, or an error, *)
(* which issues nothing.  Notes and answers draw no reply.                 *)
Serves(groups, used, m) ==
  LET key == MatchKey(m)
      n == Value(used, key, 0) + 1
  IN  IF m.k # "request" THEN <<>>
      ELSE IF key \in DOMAIN groups /\ n <= Len(groups[key])
           THEN <<[groups[key][n] EXCEPT !.id = m.id]>>
           ELSE <<Answer(m.id, None)>>

Used(used, m) ==
  IF m.k = "request" THEN (MatchKey(m) :> Value(used, MatchKey(m), 0) + 1) @@ used ELSE used

=============================================================================
