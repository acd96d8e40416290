------------------------------ MODULE MCCallStore ------------------------------
EXTENDS CallStore

req(dir, id, conn, method) ==
  [dir |-> dir, id |-> id, conn |-> conn, method |-> method, sig |-> NoSig,
   task |-> NoTask, closes |-> FALSE]
toolCall(id, conn, s)  == [req("c2s", id, conn, "tool") EXCEPT !.sig = s]
tasksCall(id, conn, t) == [req("c2s", id, conn, "tasks") EXCEPT !.task = t]
closing(q)             == [q EXCEPT !.closes = TRUE]

ans(kind)      == [kind |-> kind, ask |-> Nothing, task |-> NoTask, status |-> "working"]
asks(st, ks)   == [ans("input") EXCEPT !.ask = [state |-> st, keys |-> ks]]
taskIs(t, st)  == [ans("task") EXCEPT !.task = t, !.status = st]
Plain          == {ans("result"), ans("error")}

(* One client on stdio: repeated tool calls, reused and null ids. *)
Repeats ==
  [client   |-> [c \in {"stdio"} |-> "A"], most |-> 3, reuse |-> TRUE, awaitingKept |-> 1,
   requests |-> {toolCall("1", "stdio", "s"), toolCall("2", "stdio", "s"),
                 req("c2s", "1", "stdio", "listen"), req("s2c", "2", "stdio", "other"),
                 req("c2s", NullId, "stdio", "other")},
   answers  |-> Plain \cup {ans("toolError")}]

(* Task handles, and the requests about the task. *)
Tasks ==
  [client   |-> [c \in {"x"} |-> "A"], most |-> 3, reuse |-> TRUE, awaitingKept |-> 1,
   requests |-> {toolCall("1", "x", "s"), tasksCall("3", "x", "t")},
   answers  |-> {ans("error")} \cup
                {taskIs("t", st) : st \in {"working", "failed", "completed"}}]

(* One client on two connections: exchanges, batches, streams that close. *)
TwoConnections ==
  [client   |-> [c \in {"x", "y"} |-> "A"], most |-> 3, reuse |-> FALSE, awaitingKept |-> 1,
   requests |-> {toolCall("1", "x", "s"), closing(toolCall("2", "y", "s")),
                 closing(req("c2s", "3", "x", "listen"))},
   answers  |-> Plain]

NullIds ==
  [client   |-> [c \in {"x", "y"} |-> "A"], most |-> 3, reuse |-> TRUE, awaitingKept |-> 1,
   requests |-> {toolCall("1", "x", "s"), req("c2s", NullId, "x", "other")},
   answers  |-> Plain]

(* Two clients that count their ids from the same number. *)
TwoClients ==
  [client   |-> ("x" :> "A") @@ ("y" :> "B"), most |-> 3, reuse |-> TRUE, awaitingKept |-> 1,
   requests |-> {toolCall("1", "x", "s"), toolCall("1", "y", "s"), req("s2c", "1", "x", "other")},
   answers  |-> Plain]

(* Operations that ask for input, and the retries that bring it. *)
Rounds ==
  [client   |-> [c \in {"stdio"} |-> "A"], most |-> 2, reuse |-> FALSE, awaitingKept |-> 2,
   requests |-> {toolCall(i, "stdio", "s") : i \in {"1", "2", "3"}},
   answers  |-> {ans("result"), asks(TRUE, TRUE), asks(FALSE, TRUE)}]

RetriedOverHTTP ==
  [client   |-> [c \in {"x"} |-> "A"], most |-> 2, reuse |-> TRUE, awaitingKept |-> 1,
   requests |-> {closing(toolCall(i, "x", NoSig)) : i \in {"1", "2"}},
   answers  |-> {ans("result"), asks(TRUE, TRUE)}]

(* Listings of tools between a call and its repeat, and after their answers. *)
Listings ==
  [client   |-> [c \in {"stdio"} |-> "A"], most |-> 3, reuse |-> FALSE, awaitingKept |-> 1,
   requests |-> {toolCall("1", "stdio", "s"), toolCall("2", "stdio", "s"),
                 req("c2s", "3", "stdio", "list")},
   answers  |-> Plain]

AllScenes  == {Listings, Repeats, Tasks, TwoConnections, NullIds, TwoClients, Rounds, RetriedOverHTTP}
TaskScenes == {Tasks}
===============================================================================
