--------------------------------- MODULE Rollups ---------------------------------
(***************************************************************************)
(* The two commands that fold a whole sessions directory: stats (rollUp),  *)
(* one row per server and tool, and inventory (takeInventory), one row per *)
(* server.  Both read the directory and then look at the entries one by    *)
(* one, stats up to three times (stat, head, whole log), while shims       *)
(* append to logs and prune removes them.                                  *)
(*                                                                         *)
(* A log is a list of sessions, empty when nothing was written; one tool,  *)
(* so a session is its server, its label, when it started (0 when that is  *)
(* not known), the definition bytes it listed (0 for none) and how each    *)
(* tool call ended.  A log may break off in a line that is no envelope:    *)
(* "later", or at once, in its first.                                      *)
(***************************************************************************)
EXTENDS Integers, Sequences, FiniteSets, FiniteSetsExt, SequencesExt

CONSTANTS
  LogFiles,      \* file names, in name order
  FirstLogs,     \* what a log may hold to begin with
  MaxAppends     \* bound: calls shims add

Endings  == {"ok", "tool", "protocol", "open"}
Labels   == {"prod", "staging"}
NoLog    == 0
Session(server, label, started, bytes, calls) ==
  [server |-> server, label |-> label, started |-> started, bytes |-> bytes, calls |-> calls]

VARIABLES
  dir,        \* log -> [at: last written, breaks, sessions], the logs there are
  appended,   \* clock of the shims
  stats,      \* the stats command
  taken       \* the inventory command
rollupVars == <<dir, appended, stats, taken>>

Idle == [pc |-> "start"]
RollupInit ==
  /\ dir \in [LogFiles -> FirstLogs]
  /\ appended = 0 /\ stats = Idle /\ taken = Idle

Empty(log) == log.sessions = <<>>

(* readSessionHead gets by with the first envelope, LoadFileTolerant reads the whole log, one that is
   being written as far as it goes. *)
HeadReadable(n) == n \in DOMAIN dir /\ dir[n].breaks # "at once"
Readable(n)     == n \in DOMAIN dir /\ dir[n].breaks = "never"

(* rollUp, as far as selectLogs (clients selects its logs the same way).  limit 0 is none, no labels all. *)
StatsStarts(labels, limit) ==
  /\ stats = Idle
  /\ stats' = [pc |-> "list", labels |-> labels, limit |-> limit, todo |-> SetToSortSeq(DOMAIN dir, <),
               at |-> <<>>, kept |-> <<>>, left |-> 0, entries |-> Cardinality(DOMAIN dir),
               total |-> 0, empty |-> 0, skipped |-> 0, read |-> 0, rows |-> <<>>, costs |-> <<>>, seen |-> <<>>]
  /\ UNCHANGED <<dir, appended, taken>>

StatsAt(pc) == stats.pc = pc /\ stats.todo # <<>>
StatsGoesOn(next) == stats' = [next EXCEPT !.todo = Tail(@)] /\ UNCHANGED <<dir, appended, taken>>

(* sessionLogs: the directory is read once, each entry is then looked at by itself (without --since). *)
StatsLists ==
  /\ StatsAt("list")
  /\ LET n == Head(stats.todo)
     IN  StatsGoesOn(
           CASE n \notin DOMAIN dir -> [stats EXCEPT !.skipped = @ + 1]
             [] n \in DOMAIN dir /\ Empty(dir[n]) -> [stats EXCEPT !.total = @ + 1, !.empty = @ + 1]
             [] OTHER -> [stats EXCEPT !.total = @ + 1, !.kept = Append(@, n), !.at = (n :> dir[n].at) @@ @])

StatsSorts ==
  /\ stats.pc = "list" /\ stats.todo = <<>>
  /\ LET newer(a, b) == stats.at[a] > stats.at[b] \/ (stats.at[a] = stats.at[b] /\ a < b)
         found == SetToSortSeq(ToSet(stats.kept), newer)
     IN  stats' = [stats EXCEPT !.pc = "heads", !.todo = IF stats.labels = {} THEN <<>> ELSE found,
                                !.kept = IF stats.labels = {} THEN found ELSE <<>>]
  /\ UNCHANGED <<dir, appended, taken>>

(* The pre-pass for labels; a log it cannot open never reaches the fold, and is counted here. *)
StatsReadsHead ==
  /\ StatsAt("heads")
  /\ LET n == Head(stats.todo)
     IN  StatsGoesOn(
           CASE ~HeadReadable(n) -> [stats EXCEPT !.skipped = @ + 1]
             [] HeadReadable(n) /\ dir[n].sessions[1].label \in stats.labels -> [stats EXCEPT !.kept = Append(@, n)]
             [] OTHER -> [stats EXCEPT !.left = @ + 1])

(* The newest of them, folded oldest first. *)
StatsSelects ==
  /\ stats.pc = "heads" /\ stats.todo = <<>>
  /\ LET chosen == IF stats.limit = 0 THEN stats.kept ELSE SubSeq(stats.kept, 1, Min({stats.limit, Len(stats.kept)}))
     IN  stats' = [stats EXCEPT !.pc = "fold", !.todo = Reverse(chosen), !.kept = <<>>,
                                !.left = @ + Len(stats.kept) - Len(chosen)]
  /\ UNCHANGED <<dir, appended, taken>>

(* A server is its command and the label it ran under. *)
Key(session) == <<session.server, session.label>>
Row == [calls |-> 0, tool |-> 0, protocol |-> 0, sessions |-> 0, failed |-> 0]
Bump(session, end) == Cardinality({k \in DOMAIN session.calls : session.calls[k] = end})

(* foldSession: the calls join their row, the newest listing of the tool wins. *)
FoldSession(roll, session) ==
  LET key == Key(session)
      row == IF key \in DOMAIN roll.rows THEN roll.rows[key] ELSE Row
      errors == Bump(session, "tool") + Bump(session, "protocol")
  IN  [roll EXCEPT
        !.costs = IF session.bytes = 0 THEN @ ELSE (key :> session.bytes) @@ @,
        !.rows = IF session.calls = <<>> THEN @
                 ELSE (key :> [calls |-> row.calls + Len(session.calls), tool |-> row.tool + Bump(session, "tool"),
                               protocol |-> row.protocol + Bump(session, "protocol"), sessions |-> row.sessions + 1,
                               failed |-> row.failed + (IF errors > 0 THEN 1 ELSE 0)]) @@ @]

(* Faulty variant: only the session the first envelope names. *)
FoldsFirst(roll, log) == FoldSession(roll, log.sessions[1])

FoldsLog(roll, log) == FoldLeft(FoldSession, roll, log.sessions)

StatsReads ==
  /\ StatsAt("fold")
  /\ LET n == Head(stats.todo)
     IN  StatsGoesOn(IF Readable(n) THEN [FoldsLog(stats, dir[n]) EXCEPT !.read = @ + 1, !.seen = @ \o dir[n].sessions]
                     ELSE [stats EXCEPT !.skipped = @ + 1])

-----------------------------------------------------------------------------
InventoryStarts ==
  /\ taken = Idle
  /\ taken' = [pc |-> "fold", todo |-> SetToSortSeq(DOMAIN dir, <), scanned |-> 0, skipped |-> 0, empty |-> 0,
               rows |-> <<>>, heads |-> {}, listed |-> Cardinality(DOMAIN dir)]
  /\ UNCHANGED <<dir, appended, stats>>

(* No timestamp is not an early one. *)
FirstSeen(first, started) == IF started # 0 /\ (first = 0 \/ started < first) THEN started ELSE first

HeadRow(row, n, head) ==
  LET newest == row.runs = 0 \/ head.started > row.last
  IN  [runs |-> row.runs + 1, labels |-> row.labels \cup {head.label},
       first |-> IF row.runs = 0 THEN head.started ELSE FirstSeen(row.first, head.started),
       last |-> IF newest THEN head.started ELSE row.last, newest |-> IF newest THEN n ELSE row.newest, tools |-> "unread"]
NoRow == [runs |-> 0, labels |-> {}, first |-> 0, last |-> 0, newest |-> NoLog, tools |-> "unread"]

InventoryReads ==
  /\ taken.pc = "fold" /\ taken.todo # <<>>
  /\ LET n    == Head(taken.todo)
         rest == [taken EXCEPT !.todo = Tail(@)]
     IN  taken' =
           CASE n \in DOMAIN dir /\ Empty(dir[n]) -> [rest EXCEPT !.empty = @ + 1]
             [] ~HeadReadable(n) -> [rest EXCEPT !.skipped = @ + 1]
             [] OTHER ->
                  LET head == dir[n].sessions[1]
                      row  == IF head.server \in DOMAIN taken.rows THEN taken.rows[head.server] ELSE NoRow
                  IN  [rest EXCEPT !.scanned = @ + 1, !.rows = (head.server :> HeadRow(row, n, head)) @@ @,
                                   !.heads = @ \cup {<<n, head.server, head.started, head.label>>}]
  /\ UNCHANGED <<dir, appended, stats>>

(* countAdvertisedTools, of the newest run of each server only. *)
InventoryCounts(server) ==
  /\ taken.pc = "fold" /\ taken.todo = <<>> /\ server \in DOMAIN taken.rows /\ taken.rows[server].tools = "unread"
  /\ LET n == taken.rows[server].newest
     IN  taken' = [taken EXCEPT !.rows[server].tools =
                     CASE ~Readable(n) -> "unreadable"
                       [] OTHER -> IF dir[n].sessions[1].bytes = 0 THEN "incomplete" ELSE "counted"]
  /\ UNCHANGED <<dir, appended, stats>>

-----------------------------------------------------------------------------
Appends(n, end) ==
  /\ appended < MaxAppends /\ ~Empty(dir[n])
  /\ appended' = appended + 1
  /\ dir' = [dir EXCEPT ![n].at = 10 + appended', ![n].sessions = Front(@) \o <<[Last(@) EXCEPT !.calls = Append(@, end)]>>]
  /\ UNCHANGED <<stats, taken>>
Removes(n) == dir' = Restrict(dir, DOMAIN dir \ {n}) /\ UNCHANGED <<appended, stats, taken>>

(* One of the two commands in a behaviour: neither changes what the other reads. *)
RollupNext ==
  \/ taken = Idle /\ \E labels \in {{}, {"prod"}}, limit \in {0, 1} : StatsStarts(labels, limit)
  \/ StatsLists \/ StatsSorts \/ StatsReadsHead \/ StatsSelects \/ StatsReads
  \/ stats = Idle /\ InventoryStarts
  \/ InventoryReads
  \/ \E server \in {s.server : s \in UNION {ToSet(log.sessions) : log \in FirstLogs}} : InventoryCounts(server)
  \/ \E n \in DOMAIN dir : Removes(n) \/ \E end \in {"tool", "open"} : Appends(n, end)

-----------------------------------------------------------------------------
SeenOf(key) == SelectSeq(stats.seen, LAMBDA s : Key(s) = key)
SumOf(sessions, Value(_)) == FoldLeft(LAMBDA n, s : n + Value(s), 0, sessions)

(* However logs come and go while it lists, looks at heads and reads, stats answers for each entry it
   found once: as empty, as skipped, as read, or as left out by label or limit; a row holds the calls of
   every session that was read of that server under that label, and the cost of the newest listing among
   them (sessionLogs, selectLogs, rollUp, foldSession). *)
StatsExact ==
  stats # Idle =>
    /\ stats.read + stats.skipped + stats.empty + stats.left + Len(stats.kept) + Len(stats.todo) = stats.entries
    /\ stats.read + stats.empty <= stats.total /\ (stats.limit > 0 => stats.read <= stats.limit)
    /\ SumOf(stats.seen, LAMBDA s : Len(s.calls)) = FoldFunction(LAMBDA r, n : r.calls + n, 0, stats.rows)
    /\ \A key \in DOMAIN stats.rows :
         LET row == stats.rows[key]
             called == SelectSeq(SeenOf(key), LAMBDA s : s.calls # <<>>)
         IN  /\ row.calls = SumOf(SeenOf(key), LAMBDA s : Len(s.calls))
             /\ row.tool + row.protocol <= row.calls
             /\ row.sessions = Len(called) /\ row.failed <= row.sessions
    /\ \A key \in DOMAIN stats.costs :
         LET listed == SelectSeq(SeenOf(key), LAMBDA s : s.bytes # 0)
         IN  listed # <<>> /\ stats.costs[key] = Last(listed).bytes

(* A row of the inventory counts each readable log of its server once, dates it by the starts that are
   known, and takes the tools of the run that started last (takeInventory). *)
InventoryExact ==
  taken.pc = "fold" =>
    /\ taken.scanned + taken.skipped + taken.empty + Len(taken.todo) = taken.listed
    /\ \A server \in DOMAIN taken.rows :
         LET row   == taken.rows[server]
             heads == {h \in taken.heads : h[2] = server}
             known == {h[3] : h \in heads} \ {0}
         IN  /\ row.runs = Cardinality(heads) /\ row.labels = {h[4] : h \in heads}
             /\ row.first = (IF known = {} THEN 0 ELSE Min(known))
             /\ \E h \in heads : h[1] = row.newest /\ h[3] = Max({g[3] : g \in heads})
=============================================================================
