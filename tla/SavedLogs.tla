--------------------------------- MODULE SavedLogs ---------------------------------
(***************************************************************************)
(* Session logs on disk (cmd/mcpsnoop/prune.go, sessionscan.go): prune     *)
(* lists the logs older than an age, waits for a yes and deletes them, and *)
(* a walk reads the newest ones, while shims write logs.  A log is its     *)
(* size and the time it was last written.  Durations are int64: MaxDays    *)
(* days fit in one, and one more day wraps around to a negative one.       *)
(***************************************************************************)
EXTENDS Integers, FiniteSets, SequencesExt

CONSTANTS LogNames,          \* names of .jsonl files, by their rank
          MaxDays,           \* maxAgeDays
          Ages,              \* day counts a user may give
          MaxNow             \* bound on the clock, in days

ASSUME LogsAssumption == MaxDays \in Nat /\ Ages \subseteq Int

VARIABLES logs,              \* name -> [at, size], the files there are
          now,               \* the clock
          prune,             \* the prune command
          walk               \* the last walk: what it read and what it counted

logVars == <<logs, now, prune, walk>>

Wrap64(days) == IF days > MaxDays THEN days - 2 * MaxDays - 1 ELSE days

(* parseAge: a positive number of days that a duration can hold. *)
(* Faulty variant: the product is not checked. *)
Parses(days) == days > 0
ParseAge(days) == days > 0 /\ days <= MaxDays

(* serverIdentity.key: the command and its directory, else the endpoint, else the label. *)
Key(id) ==
  IF id.command # "" THEN <<"stdio", id.cwd, id.command>>
  ELSE IF id.endpoint # "" THEN <<"http", id.endpoint>>
  ELSE <<"label", id.transport, id.label>>

Unstarted == [pc |-> "start", cutoff |-> 0, victims |-> {}, todo |-> {}, removed |-> 0, failed |-> FALSE]
NoWalk == [read |-> <<>>, limit |-> 0, since |-> 0, total |-> 0, empty |-> 0, all |-> <<>>]

LogsInit ==
  /\ logs \in [LogNames -> {[at |-> 0, size |-> 0], [at |-> 0, size |-> 1], [at |-> 1, size |-> 2]}]
  /\ now = 1
  /\ prune = Unstarted
  /\ walk = NoWalk

(* newPruneCmd up to the prompt: the cutoff, then prunableLogs. *)
Lists(days) ==
  /\ prune.pc = "start"
  /\ IF ~ParseAge(days) THEN prune' = [Unstarted EXCEPT !.pc = "refused"]
     ELSE LET cutoff == now - Wrap64(days)
              old == {n \in DOMAIN logs : logs[n].at < cutoff}
          IN  prune' = [pc |-> IF old = {} THEN "done" ELSE "prompt", cutoff |-> cutoff, victims |-> old,
                        todo |-> old, removed |-> 0, failed |-> FALSE]
  /\ UNCHANGED <<logs, now, walk>>

Answers(yes) ==
  /\ prune.pc = "prompt"
  /\ prune' = [prune EXCEPT !.pc = IF yes THEN "remove" ELSE "done"]
  /\ UNCHANGED <<logs, now, walk>>

(* removeLogs: one that is gone or cannot be removed does not stop the rest. *)
RemovesLog(n) ==
  /\ prune.pc = "remove" /\ n \in prune.todo
  /\ logs' = [m \in DOMAIN logs \ {n} |-> logs[m]]
  /\ prune' = [prune EXCEPT !.todo = @ \ {n}, !.removed = @ + IF n \in DOMAIN logs THEN 1 ELSE 0,
                            !.failed = @ \/ n \notin DOMAIN logs,
                            !.pc = IF prune.todo = {n} THEN "done" ELSE @]
  /\ UNCHANGED <<now, walk>>

(* sessionLogs: newest first, the name breaking ties, empty ones only counted. *)
(* Faulty variant: the window is taken before the empty ones are left out. *)
WindowFirst(limit, since) ==
  LET found == {n \in DOMAIN logs : logs[n].at >= since}
      newer(a, b) == logs[a].at > logs[b].at \/ (logs[a].at = logs[b].at /\ a < b)
      order == SetToSortSeq(found, newer)
  IN  SelectSeq(IF limit > 0 /\ Len(order) > limit THEN SubSeq(order, 1, limit) ELSE order,
                LAMBDA n : logs[n].size > 0)
Window(limit, since) ==
  LET found == {n \in DOMAIN logs : logs[n].size > 0 /\ logs[n].at >= since}
      newer(a, b) == logs[a].at > logs[b].at \/ (logs[a].at = logs[b].at /\ a < b)
      order == SetToSortSeq(found, newer)
  IN  IF limit > 0 /\ Len(order) > limit THEN SubSeq(order, 1, limit) ELSE order

Walks(limit, since) ==
  /\ walk = NoWalk
  /\ walk' = [read  |-> Window(limit, since), limit |-> limit, since |-> since, total |-> Cardinality(DOMAIN logs),
              empty |-> Cardinality({n \in DOMAIN logs : logs[n].size = 0}), all |-> logs]
  /\ UNCHANGED <<logs, now, prune>>

(* A shim writes a log, another prune removes one, a day passes. *)
ShimWrites(n) ==
  /\ logs' = [m \in DOMAIN logs \cup {n} |-> IF m = n THEN [at |-> now, size |-> 2] ELSE logs[m]]
  /\ UNCHANGED <<now, prune, walk>>
LogVanishes(n) ==
  /\ n \in DOMAIN logs /\ logs' = [m \in DOMAIN logs \ {n} |-> logs[m]]
  /\ UNCHANGED <<now, prune, walk>>
DayPasses == now < MaxNow /\ now' = now + 1 /\ UNCHANGED <<logs, prune, walk>>

LogsNext ==
  \/ \E d \in Ages : Lists(d)
  \/ \E yes \in BOOLEAN : Answers(yes)
  \/ \E n \in LogNames : RemovesLog(n) \/ ShimWrites(n) \/ LogVanishes(n)
  \/ \E limit \in 0..1, since \in 0..1 : Walks(limit, since)
  \/ DayPasses

-----------------------------------------------------------------------------
(* However large the age, prune lists no log that was written today: a product past the end of a
   duration would put the cutoff in the future and list them all (parseAge). *)
PruneSparesToday ==
  [][prune.pc = "start" /\ prune'.pc = "prompt" => \A n \in prune'.victims : logs[n].at < now]_logVars

(* A bounded walk reads as many logs as its limit and the directory allow, and none it left out holds
   anything and is newer than one it read: empty logs take no place in the window (sessionLogs). *)
WalkReadsNewest ==
  LET useful == {n \in DOMAIN walk.all : walk.all[n].size > 0 /\ walk.all[n].at >= walk.since}
      read == Range(walk.read)
  IN  /\ read \subseteq useful
      /\ \A n \in useful \ read : walk.limit > 0 /\ Len(walk.read) = walk.limit
      /\ \A n \in useful \ read, r \in read : walk.all[n].at <= walk.all[r].at
=============================================================================
