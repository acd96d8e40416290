-------------------------------- MODULE CallStore --------------------------------
(***************************************************************************)
(* How internal/store correlates the frames of one session into calls:     *)
(* Ingest and the functions it calls to open, answer, park, continue,      *)
(* cancel and fail a call.  One action is one frame.                       *)
(*                                                                         *)
(* Every frame is about some call, and the model knows which.  The store   *)
(* does not: it infers the call from direction, id, connection and         *)
(* exchange, or from what a retry echoes.  The variables posts, over,      *)
(* answered, lost and misled are that truth, kept beside the store's own   *)
(* state, and nothing the store does reads them.                           *)
(*                                                                         *)
(* Abstracted: what a frame only adds a warning, a count of its kind or a  *)
(* time for; capabilities, progress tokens and cache entries, which no     *)
(* decision about a call reads.  Of a listing of tools the model keeps the *)
(* one thing the report of repeated calls reads, which tools may be        *)
(* repeated.  The store is the one New builds, which forgets nothing.      *)
(***************************************************************************)
EXTENDS Integers, Sequences, FiniteSets, SequencesExt

CONSTANTS
  Conn,          \* connections; Stdio is the one of a stdio session
  Stdio,
  Id,            \* JSON-RPC ids
  NullId,        \* the id null, which names no call
  Task,          \* task ids
  Signature,     \* tools with their arguments
  Scene,         \* who is connected and what may be said: see Scenes
  MaxCalls,      \* bound: calls of a session
  MaxPosts       \* bound: HTTP exchanges of a session

NoTask   == "no task"
NoSig    == "no signature"    \* no tool call, or arguments that cannot be compared
Nobody   == 0
Call     == 1 .. MaxCalls
Dir      == {"c2s", "s2c"}

(* closes: the request declares a revision on which closing its stream cancels
   it (cancelByClosingFrom).  task: the task a tasks request is about. *)
Shapes == [dir : Dir, id : Id \cup {NullId}, conn : Conn,
           method : {"tool", "listen", "tasks", "list", "other"},
           sig : Signature \cup {NoSig}, task : Task \cup {NoTask}, closes : BOOLEAN]

(* An answer: its kind, what an InputRequiredResult asks for (a requestState,
   input keys), the task it names and that task's status, where a completed task
   whose result is a tool error is a failed one. *)
Asks    == [state : BOOLEAN, keys : BOOLEAN]
Nothing == [state |-> FALSE, keys |-> FALSE]
Ending  == {"completed", "failed", "cancelled"}
Answers == {a \in [kind : {"result", "error", "toolError", "input", "task"}, ask : Asks,
                   task : Task \cup {NoTask}, status : Ending \cup {"working"}] :
              a.kind = "task" => a.task # NoTask}   \* parseTaskState wants a taskId

Scenes == [client : UNION {[C -> {"A", "B"}] : C \in SUBSET Conn},
           requests : SUBSET Shapes, answers : SUBSET Answers,
           most : 0 .. MaxCalls,   \* bound: calls of a session in this scene
           awaitingKept : Nat \ {0},   \* how many operations await their retry
           reuse : BOOLEAN]        \* whether a client uses an id twice

ASSUME CallStoreAssumption ==
  /\ Scene \subseteq Scenes
  /\ \A s \in Scene : \A q \in s.requests : q.conn \in DOMAIN s.client
  /\ MaxCalls \in Nat /\ MaxPosts \in Nat
  /\ NullId \notin Id /\ NoTask \notin Task /\ NoSig \notin Signature

VARIABLES
  calls,     \* the calls in the order they were opened
  held,      \* sess.calls: the call an id names, by direction and connection
  tasks,     \* sess.tasks: the call a task continues
  attempts,  \* sess.openAttempts
  awaiting,  \* sess.awaiting
  pending,   \* sess.pending
  harmless,  \* what calls a tool the newest listing declares read-only or idempotent
  scene,     \* the scene this session plays in
  posts,     \* the HTTP exchanges: what each carried, and whether it is over
  over,      \* the calls the peers have ended
  answered,  \* those a final answer was sent to
  lost,      \* <<c, how>>: c was ended in a way the store cannot trace to it
  misled     \* <<r, d, conforming>>: a retry of r was taken for one of d

vars  == <<calls, held, tasks, attempts, awaiting, pending, harmless, scene, posts, over,
           answered, lost, misled>>
store == <<calls, held, tasks, attempts, awaiting, pending, harmless>>

Key == Dir \X Id \X Conn

Init ==
  /\ calls = <<>> /\ awaiting = <<>> /\ posts = <<>> /\ pending = 0
  /\ held = [k \in Key |-> Nobody]
  /\ tasks = [t \in Task |-> Nobody]
  /\ attempts = [s \in Signature |-> Nobody] /\ harmless = {}
  /\ scene \in Scene
  /\ over = {} /\ answered = {} /\ lost = {} /\ misled = {}

-----------------------------------------------------------------------------
(* Looking calls up. *)

Known     == DOMAIN calls
Is(c, s)  == calls[c].state = s
Open(c)   == calls[c].state \in {"pending", "streaming"}

(* Faulty variant: a late result is taken as often as it comes. *)
AwaitsLateAgain(c) == Is(c, "cancelled")

AwaitsLate(c) == Is(c, "cancelled") /\ ~calls[c].late
Awaits(c)     == Open(c) \/ AwaitsLate(c)

(* The connection's own call wins, in any state; else the one call that waits
   under the id on another connection. *)
FindCall(dir, id, conn, waiting) ==
  LET own       == held[<<dir, id, conn>>]
      elsewhere == {held[<<dir, id, k>>] : k \in Conn} \cap waiting
  IN  IF own # Nobody \/ conn = Stdio THEN own
      ELSE IF Cardinality(elsewhere) = 1 THEN CHOOSE c \in elsewhere : TRUE
      ELSE Nobody

(* What sess.calls holds: a request whose id is null is kept under its own frame
   number, where no id finds it. *)
(* Faulty variant: a request without an id to find it by is not kept. *)
InMapById == {c \in Known : \E k \in Key : held[k] = c}

InMap == {c \in Known : calls[c].id = NullId \/ \E k \in Key : held[k] = c}

ExchangeRequest(x) ==
  LET waiting == {c \in InMap : calls[c].exch = x /\ calls[c].dir = "c2s" /\ Awaits(c)}
  IN  IF Cardinality(waiting) = 1 THEN CHOOSE c \in waiting : TRUE ELSE Nobody

Forget(cs) == [s \in Signature |-> IF attempts[s] \in cs THEN Nobody ELSE attempts[s]]

(* What the client cannot know the outcome of yet. *)
OutcomeUnknown(c) ==
  \/ Is(c, "pending") /\ calls[c].asked = Nothing
  \/ Is(c, "cancelled") \/ Is(c, "superseded")
  \/ Is(c, "failed") /\ calls[c].failure = "upstream"

-----------------------------------------------------------------------------
(* Requests. *)

SameClient(conn) == {k \in DOMAIN scene.client : scene.client[k] = scene.client[conn]}

(* The exchange a request arrives on: none on stdio, else one of its own, or, in
   a batch, the one of the request before it.  Batches went before closes came. *)
Exchange(q, x) ==
  CASE q.conn = Stdio \/ q.dir = "s2c" -> x = 0
    [] OTHER -> \/ x = Len(posts) + 1 /\ x <= MaxPosts
                \/ /\ x = Len(posts) /\ x > 0 /\ ~q.closes
                   /\ posts[x].conn = q.conn /\ ~posts[x].done
                   /\ posts[x].opened = {Len(calls)}
                   /\ Open(Len(calls)) /\ ~calls[Len(calls)].closes

(* A client with several connections never uses an id on two of them; on one it
   may reuse an id, even in flight. *)
ClientsId(q) ==
  \A k \in SameClient(q.conn) : q.id # NullId /\ held[<<q.dir, q.id, k>>] # Nobody
                                => k = q.conn /\ scene.reuse

Carry(x, conn, O, R) ==
  posts' = IF x = 0 THEN posts
           ELSE IF x \in DOMAIN posts
           THEN [posts EXCEPT ![x].opened = @ \cup O, ![x].continued = @ \cup R]
           ELSE Append(posts, [conn |-> conn, opened |-> O, continued |-> R, done |-> FALSE])

(* The calls after a request took an id: who had it can no longer be named. *)
Renamed(q) ==
  [c \in Known |->
     IF q.id # NullId /\ calls[c].dir = q.dir /\ calls[c].name = <<q.id, q.conn>>
     THEN [calls[c] EXCEPT !.named = FALSE] ELSE calls[c]]

Named(q, c) == IF q.id = NullId THEN held
               ELSE [held EXCEPT ![<<q.dir, q.id, q.conn>>] = c]

Slots(cs) == Cardinality({c \in cs : Is(c, "pending")})

(* noteAttempt: the call the new one repeats, if it repeats one. *)
Repeated(q, displaced) ==
  LET earlier == IF q.sig = NoSig THEN Nobody ELSE attempts[q.sig]
  IN  IF earlier # Nobody /\ (OutcomeUnknown(earlier) \/ earlier \in displaced)
      THEN earlier ELSE Nobody

OpenCall(q, x) ==
  LET c         == Len(calls) + 1
      prev      == IF q.id = NullId THEN Nobody ELSE held[<<q.dir, q.id, q.conn>>]
      displaced == IF prev # Nobody /\ Open(prev) THEN {prev} ELSE {}
      call      == [dir |-> q.dir, id |-> q.id, conn |-> q.conn, exch |-> x,
                    method |-> q.method, sig |-> q.sig, closes |-> q.closes,
                    state |-> IF q.method = "listen" THEN "streaming" ELSE "pending",
                    task |-> IF q.method = "tasks" THEN q.task ELSE NoTask,
                    late |-> FALSE, errored |-> FALSE, failure |-> "none",
                    asked |-> Nothing, retired |-> FALSE,
                    retryOf |-> Repeated(q, displaced),
                    counted |-> 0, name |-> <<q.id, q.conn>>, via |-> x, named |-> TRUE]
  IN /\ c <= scene.most
     /\ calls' = Append([d \in Known |-> IF d \in displaced
                                         THEN [Renamed(q)[d] EXCEPT !.state = "superseded"]
                                         ELSE Renamed(q)[d]], call)
     /\ held' = Named(q, c)
     /\ attempts' = IF q.sig = NoSig THEN attempts ELSE [attempts EXCEPT ![q.sig] = c]
     /\ pending' = pending + (IF q.method = "listen" THEN 0 ELSE 1)
                           - Slots(displaced)
     /\ Carry(x, q.conn, {c}, {})
     /\ UNCHANGED <<tasks, awaiting, harmless>>

Request(q, x) ==
  /\ Exchange(q, x) /\ ClientsId(q)
  /\ OpenCall(q, x)
  /\ UNCHANGED <<scene, over, answered, lost, misled>>

(* matchRetry: an echoed state settles it; else the one parked call of the same
   method that asked for the keys answered, first among those whose having issued
   a state agrees with the echo. *)
Parked == {c \in ToSet(awaiting) : Is(c, "pending")}

OnlyFit(fits) == IF Cardinality(fits) = 1 THEN CHOOSE c \in fits : TRUE ELSE Nobody

MatchRetry(r, method, echo, keys) ==
  LET wide   == {c \in Parked : keys /\ calls[c].asked.keys /\ calls[c].method = method}
      narrow == {c \in wide : calls[c].asked.state = (echo # "none")}
  IN  CASE echo = "exact" /\ r \in Parked /\ calls[r].asked.state -> r
        [] OTHER -> IF OnlyFit(narrow) # Nobody THEN OnlyFit(narrow) ELSE OnlyFit(wide)

Conforms(r, echo, keys) == /\ keys = calls[r].asked.keys
                           /\ echo = IF calls[r].asked.state THEN "exact" ELSE "none"

(* The members of s that are in S, in their order. *)
Kept(s, S) ==
  LET at      == {i \in DOMAIN s : s[i] \in S}
      rank(i) == Cardinality({j \in at : j <= i})
  IN  [n \in 1 .. Cardinality(at) |-> s[CHOOSE i \in at : rank(i) = n]]

Continue(q, x, root) ==
  /\ calls' = [Renamed(q) EXCEPT ![root].asked = Nothing, ![root].via = x,
                                 ![root].name = <<q.id, q.conn>>, ![root].named = TRUE]
  /\ held' = Named(q, root)
  /\ awaiting' = Kept(awaiting, Known \ {root})
  /\ Carry(x, q.conn, {}, {root})
  /\ UNCHANGED <<tasks, attempts, pending, harmless>>

(* The client answers what call r asked, under an id not in flight and in a
   request of its own: batches went before retries came. *)
Retry(r, q, x, echo, keys) ==
  LET root == MatchRetry(r, q.method, echo, keys)
  IN /\ calls[r].asked # Nothing /\ r \notin over
     /\ q.method = calls[r].method /\ q.sig = calls[r].sig /\ q.dir = calls[r].dir
     /\ q.conn \in SameClient(calls[r].conn) /\ q.id # NullId
     /\ \A c \in Known : Open(c) /\ calls[c].dir = q.dir =>
          calls[c].name \notin {<<q.id, k>> : k \in SameClient(q.conn)}
     /\ Exchange(q, x) /\ x \notin DOMAIN posts /\ ClientsId(q)
     /\ IF root = Nobody THEN OpenCall(q, x) ELSE Continue(q, x, root)
     /\ misled' = IF root \in {r, Nobody} THEN misled
                  ELSE misled \cup {<<r, root, Conforms(r, echo, keys)>>}
     /\ UNCHANGED <<scene, over, answered, lost>>

-----------------------------------------------------------------------------
(* Answers. *)

(* Faulty variant: a task's call takes a terminal state more than once. *)
HasCall(cs, t) == tasks[t] # Nobody

HasOpenCall(cs, t) == tasks[t] # Nobody /\ cs[tasks[t]].state = "pending"

(* applyParsedTaskState: the end of task t's call, among calls cs. *)
EndOfTask(cs, t, status) ==
  IF t # NoTask /\ HasOpenCall(cs, t) /\ status \in Ending
  THEN [cs EXCEPT ![tasks[t]].state = IF status = "completed" THEN "completed" ELSE "failed",
                  ![tasks[t]].errored = (status = "failed"),
                  ![tasks[t]].counted = @ + IF status = "failed" THEN 1 ELSE 0]
  ELSE cs

PendingIn(cs) == Cardinality({c \in DOMAIN cs : cs[c].state = "pending"})

HandedOff(c) == calls[c].method = "tool" /\ calls[c].task # NoTask
Errs(a)      == a.kind \in {"error", "toolError"}

(* The task whose state the answer to a tasks request carries. *)
TaskTold(c, a) ==
  IF calls[c].method = "tasks" /\ a.kind = "task" /\ a.task = calls[c].task
  THEN a.task ELSE NoTask

(* pruneAwaiting, after c was parked. *)
Pruned(parked) == Kept(parked, {c \in Known : Is(c, "pending")})
Excess(parked) == IF Len(Pruned(parked)) > scene.awaitingKept
                  THEN Len(Pruned(parked)) - scene.awaitingKept ELSE 0

(* What answerCall returns early on: a second late result, a call that is over, a
   call its task already continued; and the closing answer to a subscription that
   was torn down, which leaves its outcome alone. *)
AnswerIgnored(c) ==
  /\ ~Awaits(c) \/ (Open(c) /\ HandedOff(c)) \/ (Is(c, "cancelled") /\ calls[c].method = "listen")
  /\ UNCHANGED store

(* applyToolsList: what an answer to tools/list says of the tools counts from
   then on, late or not.  A result replaces or extends the listing, or cannot be
   read; an error carries none. *)
Lists(c, a) ==
  IF calls[c].method = "list" /\ a.kind # "error"
  THEN harmless' \in SUBSET Signature ELSE UNCHANGED harmless

AnswerLate(c, a) ==
  /\ AwaitsLate(c) /\ calls[c].method # "listen"
  /\ Lists(c, a)
  /\ LET told == [calls EXCEPT ![c].late = TRUE, ![c].errored = Errs(a),
                               ![c].counted = @ + IF Errs(a) THEN 1 ELSE 0]
     IN /\ calls' = EndOfTask(told, TaskTold(c, a), a.status)
        /\ pending' = pending - (PendingIn(told) - PendingIn(calls'))
  /\ UNCHANGED <<held, tasks, attempts, awaiting>>

IsParked(c) == c \in ToSet(awaiting)

AnswerAsks(c, a) ==
  /\ Open(c) /\ ~HandedOff(c) /\ a.kind = "input"
  /\ LET parked == Append(awaiting, c)
         n      == IF IsParked(c) THEN 0 ELSE Excess(parked)
     IN /\ awaiting' = IF IsParked(c) THEN awaiting
                       ELSE SubSeq(Pruned(parked), n + 1, Len(Pruned(parked)))
        /\ calls' = [d \in Known |->
             [calls[d] EXCEPT !.asked = IF d = c THEN a.ask ELSE @,
                              !.retired = @ \/ \E i \in 1 .. n : Pruned(parked)[i] = d]]
  /\ UNCHANGED <<held, tasks, attempts, pending, harmless>>

AnswerHandsOff(c, a) ==
  /\ Open(c) /\ ~HandedOff(c) /\ a.kind = "task" /\ calls[c].method = "tool"
  /\ calls' = [calls EXCEPT ![c].task = a.task]
  /\ tasks' = [tasks EXCEPT ![a.task] = c]
  /\ attempts' = Forget({c})
  /\ UNCHANGED <<held, awaiting, pending, harmless>>

AnswerSettles(c, a) ==
  /\ Open(c) /\ ~HandedOff(c)
  /\ a.kind # "input" /\ (a.kind = "task" => calls[c].method # "tool")
  /\ Lists(c, a)
  /\ LET settled == [calls EXCEPT ![c].state = IF Errs(a) THEN "failed" ELSE "completed",
                                  ![c].errored = Errs(a),
                                  ![c].counted = @ + IF Errs(a) THEN 1 ELSE 0]
     IN /\ calls' = EndOfTask(settled, TaskTold(c, a), a.status)
        /\ pending' = pending - (IF Is(c, "pending") THEN 1 ELSE 0)
                              - (PendingIn(settled) - PendingIn(calls'))
  /\ attempts' = Forget({c})
  /\ UNCHANGED <<held, tasks, awaiting>>

AnswerCall(c, a) ==
  \/ AnswerIgnored(c) \/ AnswerLate(c, a) \/ AnswerAsks(c, a)
  \/ AnswerHandsOff(c, a) \/ AnswerSettles(c, a)

(* The calls a task's handle was the answer to. *)
CallsOf(t, status) == {c \in Known : HandedOff(c) /\ calls[c].task = t /\ status \in Ending}
EndsCall(r, a)     == a.kind # "input" /\ (a.kind = "task" => calls[r].method # "tool")

(* The peer answers r on any connection of its client.  A task id is handed out
   once, and an exchange on which an answer went is over. *)
Respond(r, conn, a) ==
  LET c == FindCall(calls[r].dir, calls[r].name[1], conn, {d \in Known : Awaits(d)})
      news == EndsCall(r, a) /\ ~HandedOff(r)
  IN /\ calls[r].named /\ calls[r].name[1] # NullId
     /\ conn \in SameClient(calls[r].conn)
     /\ a.kind = "task" /\ calls[r].method = "tool" =>
          \A d \in Known \ {r} : calls[d].task = a.task => calls[d].method # "tool"
     /\ IF c = Nobody THEN UNCHANGED store ELSE AnswerCall(c, a)
     /\ over' = over \cup (IF news THEN {r} ELSE {})
                     \cup (IF news /\ r \notin answered
                           THEN CallsOf(TaskTold(r, a), a.status) ELSE {})
     /\ answered' = IF news THEN answered \cup {r} ELSE answered
     /\ posts' = IF calls[r].via = 0 THEN posts
                 ELSE [posts EXCEPT ![calls[r].via].done = TRUE]
     /\ UNCHANGED <<scene, lost, misled>>

TaskNotice(t, status) ==
  /\ tasks[t] # Nobody   \* of an unknown task nothing is kept
  /\ calls' = EndOfTask(calls, t, status)
  /\ pending' = pending - (PendingIn(calls) - PendingIn(calls'))
  /\ over' = over \cup CallsOf(t, status)
  /\ UNCHANGED <<held, tasks, attempts, awaiting, harmless, scene, posts, answered, lost, misled>>

-----------------------------------------------------------------------------
(* Cancellations and failures. *)

Cancelled(c) ==
  /\ calls' = [calls EXCEPT ![c].state = "cancelled"]
  /\ pending' = pending - IF Is(c, "pending") THEN 1 ELSE 0
  /\ UNCHANGED <<held, tasks, attempts, awaiting, harmless>>

(* closeStreamingCall, which looks in both directions, then cancelCall. *)
CancelTarget(dir, id, conn) ==
  LET stream(d) == FindCall(d, id, conn, {c \in Known : Is(c, "streaming")})
      call      == FindCall(dir, id, conn, {c \in Known : Is(c, "pending")})
      streams   == {d \in Dir : stream(d) # Nobody /\ Is(stream(d), "streaming")}
  IN  IF "c2s" \in streams THEN stream("c2s")
      ELSE IF "s2c" \in streams THEN stream("s2c")
      ELSE IF call # Nobody /\ Is(call, "pending") /\ calls[call].task = NoTask THEN call
      ELSE Nobody

(* The calls a peer ends by something other than an answer.  What is lost is
   what the store keeps no way to trace: a tasks request, which looks to it like
   a call its task continues, and a retry, whose exchange it never noted. *)
Ends(cs, retried, how) ==
  LET ended == {c \in cs : c \notin over /\ ~Is(c, "superseded") /\ ~HandedOff(c)}
  IN /\ over' = over \cup ended
     /\ lost' = lost \cup {<<c, how>> : c \in {d \in ended : calls[d].method = "tasks"
                                                         \/ d \in retried}}

(* Either peer cancels its own request r, and a server may close a subscription,
   with a notification on any connection of the client. *)
CancelNotice(r, dir, conn) ==
  LET c == CancelTarget(dir, calls[r].name[1], conn)
  IN /\ calls[r].named /\ calls[r].name[1] # NullId
     /\ dir = calls[r].dir \/ calls[r].method = "listen"
     /\ conn \in SameClient(calls[r].conn)
     /\ IF c = Nobody THEN UNCHANGED store ELSE Cancelled(c)
     /\ Ends({r}, {}, "cancelled")
     /\ UNCHANGED <<scene, posts, answered, misled>>

Carried(x) == posts[x].opened \cup posts[x].continued
Over(x)    == posts' = [posts EXCEPT ![x].done = TRUE]

(* The client leaves exchange x before the answer. *)
Abandoned(x) ==
  LET c == ExchangeRequest(x)
  IN /\ ~posts[x].done /\ Over(x)
     /\ IF c # Nobody /\ calls[c].closes /\ Open(c) /\ calls[c].task = NoTask
        THEN Cancelled(c) ELSE UNCHANGED store
     /\ Ends({d \in Carried(x) : calls[d].closes}, posts[x].continued, "cancelled")
     /\ UNCHANGED <<scene, answered, misled>>

CarriedBy(x) == {c \in InMap : calls[c].exch = x /\ calls[c].dir = "c2s"}

FailsWith(x) == {c \in CarriedBy(x) : Open(c) /\ calls[c].task = NoTask}

FailExchange(x, why) ==
  LET failed == FailsWith(x)
  IN /\ calls' = [c \in Known |-> IF c \in failed
                    THEN [calls[c] EXCEPT !.state = "failed", !.failure = why,
                                          !.errored = TRUE, !.counted = @ + 1]
                    ELSE calls[c]]
     /\ pending' = pending - Slots(failed)
     /\ attempts' = IF why = "upstream" THEN attempts ELSE Forget(failed)
     /\ UNCHANGED <<held, tasks, awaiting, harmless>>

(* An HTTP status of 400 or more and no JSON-RPC message: a refusal, which is a 4xx
   or mcpsnoop's own status for what it could not deliver, or a 5xx from something
   in front of the server. *)
TransportFailure(x, why) ==
  /\ ~posts[x].done /\ Over(x)
  /\ FailExchange(x, why)
  /\ Ends(Carried(x), posts[x].continued, "failed")
  /\ UNCHANGED <<scene, answered, misled>>

(* An error that names no request.  With a failed HTTP status it answers the whole
   exchange; with none, the one request of it that could still be answered and whose id no
   later one took. *)
IdlessError(x, why) ==
  LET owner  == ExchangeRequest(x)
      waits  == {c \in Carried(x) : c \notin answered /\ calls[c].named}
      meant  == IF Cardinality(waits) = 1 THEN waits ELSE {}
      error  == [kind |-> "error", ask |-> Nothing, task |-> NoTask, status |-> "working"]
  IN /\ ~posts[x].done /\ Over(x)
     /\ CASE why # "none"   -> /\ FailExchange(x, why)
                               /\ Ends(Carried(x), posts[x].continued, "failed")
          [] why = "none" /\ owner = Nobody -> UNCHANGED store /\ Ends(meant, posts[x].continued, "failed")
          [] OTHER          -> /\ AnswerCall(owner, error)
                               /\ over' = over \cup {c \in meant : ~HandedOff(c)}
                               /\ UNCHANGED lost
     /\ answered' = answered \cup (IF why = "none" THEN meant ELSE {})
     /\ UNCHANGED <<scene, misled>>

-----------------------------------------------------------------------------
Next ==
  \/ \E q \in scene.requests, x \in 0 .. MaxPosts :
       \/ Request(q, x)
       \/ \E r \in Known, echo \in {"exact", "changed", "none"}, keys \in BOOLEAN :
            /\ echo # "none" \/ keys
            /\ Retry(r, q, x, echo, keys)
  \/ \E r \in Known, conn \in DOMAIN scene.client :
       \/ \E a \in scene.answers : Respond(r, conn, a)
       \/ \E dir \in Dir : CancelNotice(r, dir, conn)
  \/ \E t \in Task, status \in Ending \cup {"working"} : TaskNotice(t, status)
  \/ \E x \in DOMAIN posts :
       \/ Abandoned(x)
       \/ \E why \in {"refused", "upstream"} : TransportFailure(x, why)
       \/ \E why \in {"none", "refused", "upstream"} : IdlessError(x, why)

Spec == Init /\ [][Next]_vars

-----------------------------------------------------------------------------
State == {"pending", "streaming", "completed", "failed", "cancelled", "superseded"}

LostCalls == {m[1] : m \in lost}

TypeOK ==
  /\ \A c \in Known : /\ calls[c].state \in State /\ calls[c].exch \in 0 .. Len(posts)
                      /\ calls[c].task \in Task \cup {NoTask}
                      /\ calls[c].failure \in {"none", "refused", "upstream"}
                      /\ calls[c].retryOf \in 0 .. c - 1
                      /\ calls[c].asked \in Asks
  /\ held \in [Key -> {Nobody} \cup Known] /\ tasks \in [Task -> {Nobody} \cup Known]
  /\ attempts \in [Signature -> {Nobody} \cup Known]
  /\ ToSet(awaiting) \subseteq Known /\ pending \in Nat /\ harmless \subseteq Signature
  /\ \A x \in DOMAIN posts : Carried(x) \subseteq Known
  /\ over \cup answered \cup LostCalls \subseteq Known

(* The counter of pending calls is the number of pending calls, through reuse of
   ids, batches, streams, tasks and retries, each of which takes and gives back
   slots in a place of its own. *)
PendingExact == pending = PendingIn(calls)

(* Confused: the calls a wrong link joined, whose answers go astray with it. *)
Confused == UNION {{m[1], m[2]} : m \in misled}

(* The store never ends a call that its peers have not ended: no answer,
   cancellation or failure meant for one call settles another, whatever
   connections it travels on and whoever else uses the same id. *)
NothingCrossed ==
  \A c \in Known \ Confused : Open(c) \/ Is(c, "superseded") \/ c \in over

(* And it misses no end: what the peers have ended is not left open, but for the
   ends that reach it on an exchange it cannot trace (RefusedIsSettled). *)
NothingMissed == \A c \in over \ (LostCalls \cup Confused) : ~Open(c)

(* "Before the proxy numbered exchanges a refused call stayed pending for the rest
   of the capture and read as a request the server never answered": what an HTTP
   failure answered is settled, whatever kind of call it is.  Does not hold: see README. *)
RefusedIsSettled == \A m \in lost : m[2] = "failed" => ~Open(m[1])

(* The error count and the calls agree: a call that went wrong was counted on one
   frame, one that did not on none, however many frames answered it. *)
CountedOnce == \A c \in Known : calls[c].counted = IF calls[c].errored THEN 1 ELSE 0

(* What the next identical tool call is compared with is the newest call of its
   signature exactly as long as the client cannot know what became of it. *)
AttemptsExact ==
  \A s \in Signature :
    LET sent == {c \in Known : calls[c].sig = s}
    IN  {attempts[s]} \ {Nobody} =
          {c \in sent : /\ \A d \in sent : d <= c
                        /\ ~HandedOff(c) /\ ~Is(c, "completed")
                        /\ Is(c, "failed") => calls[c].failure = "upstream"}

(* An operation that asked for input is parked once, to be found by its retry,
   unless the cap let go of it, and the list keeps to the cap. *)
ParkedOnce ==
  /\ Len(awaiting) <= scene.awaitingKept
  /\ \A i, j \in DOMAIN awaiting : awaiting[i] = awaiting[j] => i = j
  /\ \A c \in Known : Is(c, "pending") /\ calls[c].asked # Nothing =>
                        c \in ToSet(awaiting) \/ calls[c].retired

(* A retry that echoes what it was given continues the operation it belongs to and
   no other, unless the cap had let go of that one or a request had taken its id. *)
LinksItsOwn == \A m \in misled : m[3] => calls[m[1]].retired \/ Is(m[1], "superseded")

Fate(c) ==
  IF calls[c].failure = "upstream" THEN "unknown"
  ELSE IF calls[c].failure = "refused" THEN "failed"
  ELSE CASE Is(c, "completed") -> "succeeded"
         [] Is(c, "cancelled") /\ calls[c].late -> IF calls[c].errored THEN "unknown" ELSE "succeeded"
         [] Is(c, "failed") -> "failed"
         [] OTHER -> "unknown"

(* A tool call that repeated one whose outcome was unknown did its work twice, once
   the server has answered both with success. *)
AnsweredTwice(c) ==
  LET earlier  == calls[c].retryOf
      answer   == calls[earlier].late \/ Is(earlier, "completed")
  IN  /\ earlier # Nobody
      /\ Is(earlier, "cancelled") \/ ~answer
      /\ Fate(earlier) = "succeeded" /\ Fate(c) = "succeeded"

(* A tool never listed takes the defaults, which say neither read-only nor
   idempotent. *)
MayRepeatEffects(sig) == sig \notin harmless

(* duplicateOf: what the report says. *)
RanTwice(c) == MayRepeatEffects(calls[c].sig) /\ AnsweredTwice(c)

(* Once the report says a tool ran twice, no later frame makes it say otherwise, but
   for an answer to tools/list that declares the tool harmless to repeat: the report
   judges every repeat by the newest listing. *)
VerdictStands ==
  [][\A c \in Known : RanTwice(c) => RanTwice(c)' \/ calls[c].sig \in harmless' \ harmless]_vars

(* Every call is opened once, ends once and keeps its outcome. *)
StatusOf(c) ==
  IF c \notin Known THEN "unseen"
  ELSE CASE Open(c)                              -> "open"
         [] Is(c, "completed")                   -> "succeeded"
         [] Is(c, "failed")                      -> "failed"
         [] Is(c, "superseded")                  -> "displaced"
         [] Is(c, "cancelled") /\ calls[c].late  -> "answered late"
         [] OTHER                                -> "cancelled"

Lifecycle == INSTANCE CallLifecycle WITH status <- [c \in Call |-> StatusOf(c)]
OneEnd    == Lifecycle!Spec

(* An answer, a cancellation, a failure and a retry end or continue the call they are about, and no
   other, however ids, connections, clients and tasks mix (findCall, requestCallKey, retryMatch). *)
ReachesItsOwn == NothingCrossed /\ NothingMissed /\ LinksItsOwn

(* What the store keeps beside its calls agrees with them: the pending slots, the counters, the
   attempts a call is compared with and the list of parked operations. *)
BooksAgree == TypeOK /\ PendingExact /\ CountedOnce /\ AttemptsExact /\ ParkedOnce

(* A call ends once and keeps its outcome, and a tool that ran twice is never said to have run once
   later, unless a later listing declares it harmless to repeat. *)
EndsOnce == OneEnd /\ VerdictStands
=============================================================================
