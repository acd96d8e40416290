-------------------------------- MODULE Correlator --------------------------------
(***************************************************************************)
(* What Store.Ingest tells an observer that follows one session live (the  *)
(* collector feed of internal/otlpsink, the counters of internal/metrics): *)
(* the call a frame is about, as the frame leaves it.  CallStore is the    *)
(* store itself; this is what it comes to for calls that need no retry.    *)
(*                                                                         *)
(* The call a store forgets when it holds too few frames is for the module *)
(* to say whose store is that small (Metrics).                             *)
(*                                                                         *)
(* A call is named by the position of its request, its RequestSeq.         *)
(***************************************************************************)
EXTENDS Integers, Sequences, FiniteSets, FiniteSetsExt, SequencesExt

CONSTANT Ids      \* JSON-RPC ids, each with the direction it was used in

Tools == {"t", "u"}
NotATool == "list"
Nothing == "none"

Request(id, name)    == [kind |-> "request", id |-> id, name |-> name]
Response(id, result) == [kind |-> "response", id |-> id, result |-> result]
Cancel(id)           == [kind |-> "cancel", id |-> id]
TaskUpdate(c, end)   == [kind |-> "task", call |-> c, result |-> end]

(* tool and protocol are the two ways a call fails, task a handle to poll. *)
Results  == {"ok", "tool", "protocol", "task"}
TaskEnds == {"ok", "tool", "protocol", "cancelled"}

Opened(id, name) ==
  [id |-> id, name |-> name, state |-> "pending", late |-> FALSE, err |-> Nothing, task |-> FALSE, taskEnd |-> Nothing]
IsTool(c) == c.name # NotATool
Done(c)   == c.state # "pending"
ErrOf(result) == IF result \in {"tool", "protocol"} THEN result ELSE Nothing

(* An id answers for the last request that used it. *)
Latest(calls, id) ==
  LET used == {i \in DOMAIN calls : calls[i].id = id} IN IF used = {} THEN 0 ELSE Max(used)

(* openCall: a request that reuses an open id supersedes the call. *)
OpenCall(calls, f) ==
  LET i == Latest(calls, f.id)
  IN  Append(IF i # 0 /\ ~Done(calls[i]) THEN [calls EXCEPT ![i].state = "superseded"] ELSE calls, Opened(f.id, f.name))

StartsTask(c, result) == IsTool(c) /\ (c.task \/ result = "task")

AnswerCall(c, result) ==
  CASE c.state = "cancelled" /\ ~c.late -> [c EXCEPT !.late = TRUE, !.err = ErrOf(result)]
    [] c.state = "pending" /\ ~StartsTask(c, result) -> [c EXCEPT !.state = "done", !.err = ErrOf(result)]
    [] c.state = "pending" /\ StartsTask(c, result) -> [c EXCEPT !.task = TRUE]
    [] OTHER -> c

(* A call that a task carries on is not cancelled by its request's id. *)
Cancellable(c) == ~Done(c) /\ ~c.task
CancelCall(c)  == IF Cancellable(c) THEN [c EXCEPT !.state = "cancelled"] ELSE c

(* A task cancelled is no error, and no result either. *)
ApplyTaskState(c, end) ==
  IF Done(c) THEN c ELSE [c EXCEPT !.state = "done", !.err = ErrOf(end), !.taskEnd = end]

(* ev.Call and ev.TaskCall of a frame, by the calls it finds: 0 when there is none.  A second answer
   names the call it repeats, a cancellation only a call it cancels. *)
EventCall(calls, f) ==
  LET i == Latest(calls, f.id)
  IN  CASE f.kind = "request"  -> Len(calls) + 1
        [] f.kind = "response" -> i
        [] f.kind = "cancel" /\ i # 0 /\ Cancellable(calls[i]) -> i
        [] OTHER -> 0
EventTaskCall(f) == IF f.kind = "task" THEN f.call ELSE 0

Ingest(calls, f) ==
  LET i == IF f.kind = "task" THEN f.call ELSE Latest(calls, f.id)
  IN  CASE f.kind = "request" -> OpenCall(calls, f)
        [] f.kind = "response" /\ i # 0 -> [calls EXCEPT ![i] = AnswerCall(@, f.result)]
        [] f.kind = "cancel" /\ i # 0   -> [calls EXCEPT ![i] = CancelCall(@)]
        [] f.kind = "task" /\ i # 0     -> [calls EXCEPT ![i] = ApplyTaskState(@, f.result)]
        [] OTHER -> calls

(* Frames a session whose frames so far made these calls may go on with. *)
NewRequests        == {Request(id, name) : id \in Ids, name \in Tools \cup {NotATool}}
Replies(calls)     == {Response(calls[i].id, r) : i \in DOMAIN calls, r \in Results}
Cancels(calls)     == {Cancel(calls[i].id) : i \in DOMAIN calls}
TaskUpdates(calls) == {TaskUpdate(i, end) : i \in {j \in DOMAIN calls : calls[j].task}, end \in TaskEnds}
Frames(calls)      == NewRequests \cup Replies(calls) \cup Cancels(calls) \cup TaskUpdates(calls)
=============================================================================
