-------------------------------- MODULE WrapConfig --------------------------------
(***************************************************************************)
(* mcpsnoop wrap and unwrap (cmd/mcpsnoop/wrap.go): commands that rewrite  *)
(* one server's entry of an MCP client's configuration while the client    *)
(* and other such commands write the same two files, the configuration and *)
(* its backup.  Every write is a temporary file and a rename, one step.    *)
(*                                                                         *)
(* A document is its server entries in file order and whatever else it     *)
(* holds.  form is how an entry is spelled: "user" as its author wrote it, *)
(* "sorted" as encoding leaves it; two documents are the same bytes when   *)
(* they are equal, and the same JSON when they differ in form only.        *)
(***************************************************************************)
EXTENDS Naturals, SequencesExt

CONSTANTS Commands,          \* processes, each one wrap or one unwrap
          Servers,           \* names of server entries
          Words,             \* what a command line is made of
          Documents,         \* configurations the client starts from
          MaxEdits           \* how often the client writes the file

NoArgs == <<"no args key">>
None == [state |-> "missing"]
Entry == [name : Servers, command : Words, args : Seq(Words) \cup {NoArgs}, env : {1, 2},
          form : {"user", "sorted"}, odd : BOOLEAN]
Document == {None, [state |-> "junk"]} \cup
            [state : {"ok"}, section : BOOLEAN, other : {1, 2}, servers : Seq(Entry)]

ASSUME WrapAssumption ==
  Documents \subseteq Document /\ {"--", "mcpsnoop"} \subseteq Words /\ "no args key" \notin Words

VARIABLES config,            \* the client's configuration, or None
          backup,            \* <config>.mcpsnoop.bak, or None
          proc,              \* each command's progress
          edits              \* client edits so far

wrapVars == <<config, backup, proc, edits>>

(* isWrapped: the last path element, whatever its case and without .exe. *)
IsWrapped(command) == command \in {"mcpsnoop", "/opt/bin/mcpsnoop", "C:\\tools\\MCPSNOOP.EXE"}

Arguments(entry) == IF entry.args = NoArgs THEN <<>> ELSE entry.args

(* What follows the first "--": the command line a wrapped entry stands for. *)
Markers(args) == {i \in DOMAIN args : args[i] = "--"}
Behind(args) ==
  IF Markers(args) = {} THEN <<>> ELSE SubSeq(args, Min(Markers(args)) + 1, Len(args))

Wrapped(entry) ==
  [entry EXCEPT !.command = "mcpsnoop", !.args = <<"--", entry.command>> \o Arguments(entry),
                !.form = "sorted"]

Unwrapped(entry) ==
  LET line == Behind(Arguments(entry))
  IN  [entry EXCEPT !.command = Head(line), !.form = "sorted",
                    !.args = IF Len(line) > 1 THEN Tail(line) ELSE NoArgs]

(* The entry of a server; a name that appears twice is refused. *)
Places(doc, s) == {i \in DOMAIN doc.servers : doc.servers[i].name = s}

Unrepeated(doc) == \A i, j \in DOMAIN doc.servers : doc.servers[i].name = doc.servers[j].name => i = j
Readable(doc) == doc.state = "ok" /\ doc.section /\ Unrepeated(doc)

(* resolveTarget: the exit code it refuses with, or 0. *)
Refusal(doc, s) ==
  IF ~Readable(doc) THEN 1
  ELSE IF Places(doc, s) = {} THEN 2
  ELSE IF \E i \in Places(doc, s) : doc.servers[i].odd THEN 1
  ELSE 0

(* spliceMember: every byte outside the entry stays. *)
Splice(doc, s, entry) ==
  [doc EXCEPT !.servers = [i \in DOMAIN @ |-> IF @[i].name = s THEN entry ELSE @[i]]]

Formless(doc) == {[e EXCEPT !.form = "any"] : e \in Range(doc.servers)}

(* sameJSON: formatting and the order of keys aside; a repeated name is an error. *)
SameJSON(a, b) ==
  /\ a.state = "ok" /\ b.state = "ok" /\ Unrepeated(a) /\ Unrepeated(b)
  /\ a.section = b.section /\ a.other = b.other /\ Formless(a) = Formless(b)

(* anyWrapped: what cannot be told counts as wrapped. *)
AnyWrapped(doc) ==
  \/ doc.state # "ok" \/ ~Unrepeated(doc)
  \/ doc.section /\ \E e \in Range(doc.servers) : e.odd \/ IsWrapped(e.command)

-----------------------------------------------------------------------------
Idle == [pc |-> "idle", server |-> "", verb |-> "", read |-> None, new |-> None, restored |-> FALSE,
         code |-> 0, overtaken |-> FALSE, swapped |-> FALSE]

WrapInit ==
  /\ config \in Documents
  /\ backup = None
  /\ proc = [p \in Commands |-> Idle]
  /\ edits = 0

Ended(code) == [Idle EXCEPT !.pc = "done", !.code = code]
Exit(p, code) == proc' = [proc EXCEPT ![p] = Ended(code)]

(* Another command is told that the configuration, or the backup, moved on. *)
Overtakes(P, writer) == [q \in Commands |-> IF q = writer THEN P[q] ELSE [P[q] EXCEPT !.overtaken = TRUE]]
Swaps(P, writer) == [q \in Commands |-> IF q = writer THEN P[q] ELSE [P[q] EXCEPT !.swapped = TRUE]]

Reads(p, verb, s, pc, new) ==
  proc' = [proc EXCEPT ![p] =
             [pc |-> pc, server |-> s, verb |-> verb, read |-> config, new |-> new, restored |-> FALSE,
              code |-> 0, overtaken |-> FALSE, swapped |-> FALSE]]

(* runWrap up to the backup. *)
StartsWrap(p, s, dryRun) ==
  /\ proc[p].pc = "idle"
  /\ UNCHANGED <<config, backup, edits>>
  /\ IF Refusal(config, s) # 0 THEN Exit(p, Refusal(config, s))
     ELSE LET entry == config.servers[CHOOSE i \in Places(config, s) : TRUE]
          IN  IF IsWrapped(entry.command) THEN Exit(p, 0)
              ELSE IF entry.command = "" THEN Exit(p, 2)
              ELSE IF dryRun THEN Exit(p, 0)
              ELSE Reads(p, "wrap", s, "stat", Splice(config, s, Wrapped(entry)))

(* An existing backup is kept: it is the earlier, less-edited snapshot. *)
StatsBackup(p) ==
  /\ proc[p].pc = "stat"
  /\ proc' = [proc EXCEPT ![p].pc = IF backup = None THEN "backup" ELSE "recheck"]
  /\ UNCHANGED <<config, backup, edits>>

BacksUp(p) ==
  /\ proc[p].pc = "backup"
  /\ backup' = proc[p].read
  /\ proc' = Swaps([proc EXCEPT ![p].pc = "recheck"], p)
  /\ UNCHANGED <<config, edits>>

(* runUnwrap up to the comparison with the backup. *)
StartsUnwrap(p, s) ==
  /\ proc[p].pc = "idle"
  /\ UNCHANGED <<config, backup, edits>>
  /\ IF Refusal(config, s) # 0 THEN Exit(p, Refusal(config, s))
     ELSE LET entry == config.servers[CHOOSE i \in Places(config, s) : TRUE]
          IN  IF ~IsWrapped(entry.command) THEN Exit(p, 0)
              ELSE IF Behind(Arguments(entry)) = <<>> THEN Exit(p, 1)
              ELSE Reads(p, "unwrap", s, "compare", Splice(config, s, Unwrapped(entry)))

(* The whole file comes back byte for byte only when the backup says the same. *)
Compares(p, dryRun) ==
  /\ proc[p].pc = "compare"
  /\ UNCHANGED <<config, backup, edits>>
  /\ LET same == backup # None /\ SameJSON(backup, proc[p].new)
     IN  IF dryRun THEN Exit(p, 0)
         ELSE proc' = [proc EXCEPT ![p].pc = "recheck", ![p].restored = same, ![p].swapped = FALSE,
                                   ![p].new = IF same THEN backup ELSE @]

(* writeConfig: refused when the file moved since it was read.                   *)
(* Faulty variant: written whatever the file holds by now. *)
RechecksNothing(p) ==
  /\ proc[p].pc = "recheck"
  /\ proc' = [proc EXCEPT ![p].pc = "rename", ![p].overtaken = FALSE]
  /\ UNCHANGED <<config, backup, edits>>
Rechecks(p) ==
  /\ proc[p].pc = "recheck"
  /\ IF config = proc[p].read
     THEN proc' = [proc EXCEPT ![p].pc = "rename", ![p].overtaken = FALSE]
     ELSE Exit(p, 1)
  /\ UNCHANGED <<config, backup, edits>>

DropsBackup(p) == proc[p].verb = "unwrap" /\ proc[p].restored /\ ~AnyWrapped(proc[p].new)

Renames(p) ==
  /\ proc[p].pc = "rename"
  /\ config' = proc[p].new
  /\ proc' = Overtakes([proc EXCEPT ![p] = IF DropsBackup(p) THEN [@ EXCEPT !.pc = "remove", !.overtaken = FALSE]
                                           ELSE Ended(0)], p)
  /\ UNCHANGED <<backup, edits>>

Removes(p) ==
  /\ proc[p].pc = "remove"
  /\ backup' = None
  /\ proc' = Swaps([proc EXCEPT ![p] = Ended(0)], p)
  /\ UNCHANGED <<config, edits>>

(* A write that fails, or a kill: exit 1 with the rest undone. *)
Fails(p) ==
  /\ proc[p].pc \in {"backup", "rename", "remove"}
  /\ Exit(p, 1)
  /\ UNCHANGED <<config, backup, edits>>

-----------------------------------------------------------------------------
(* The client, or its user, writes the file: another setting, an entry's      *)
(* environment, an entry put back by hand; or deletes the backup.             *)
ClientWrites(new) ==
  /\ edits < MaxEdits /\ edits' = edits + 1
  /\ config' = new
  /\ proc' = [q \in Commands |-> [proc[q] EXCEPT !.overtaken = TRUE]]
  /\ UNCHANGED backup

ClientEdits ==
  /\ config.state = "ok"
  /\ \/ \E v \in {1, 2} : v # config.other /\ ClientWrites([config EXCEPT !.other = v])
     \/ \E i \in DOMAIN config.servers :
          ClientWrites([config EXCEPT !.servers[i].env = 3 - @, !.servers[i].form = "user"])

ClientDeletesBackup ==
  /\ edits < MaxEdits /\ edits' = edits + 1
  /\ backup # None /\ backup' = None
  /\ proc' = [q \in Commands |-> [proc[q] EXCEPT !.swapped = TRUE]]
  /\ UNCHANGED config

WrapNext ==
  \/ \E p \in Commands, s \in Servers :
       (\E dryRun \in BOOLEAN : StartsWrap(p, s, dryRun)) \/ StartsUnwrap(p, s)
  \/ \E p \in Commands, dryRun \in BOOLEAN : Compares(p, dryRun)
  \/ \E p \in Commands :
       StatsBackup(p) \/ BacksUp(p) \/ Rechecks(p) \/ Renames(p) \/ Removes(p) \/ Fails(p)
  \/ ClientEdits
  \/ ClientDeletesBackup

-----------------------------------------------------------------------------
(* Two entries start the same program, one of them perhaps behind a wrapper of its own. *)
Line(entry) == <<entry.command>> \o Arguments(entry)
Shows(entry, line) == IsWrapped(entry.command) /\ Behind(Arguments(entry)) = line
SameProgram(e, f) == Line(e) = Line(f) \/ Shows(e, Line(f)) \/ Shows(f, Line(e))
SameServer(e, f) == e.name = f.name /\ e.env = f.env /\ SameProgram(e, f)

(* Two documents tell the client the same, once mcpsnoop is looked through. *)
SaysTheSame(a, b) ==
  /\ a.other = b.other
  /\ \A e \in Range(a.servers) : \E f \in Range(b.servers) : SameServer(e, f)
  /\ \A f \in Range(b.servers) : \E e \in Range(a.servers) : SameServer(e, f)

Writes(p) == proc[p].pc = "rename" /\ config' = proc[p].new /\ proc'[p].pc # "rename"

(* A command that rewrites the file changes how servers are reached and nothing else: every edit of
   the client, and every argument a server is launched with, is still there, unless the file was
   written between the command's last look and its rename (writeConfig narrows that window). *)
NothingLost ==
  [][\A p \in Commands : Writes(p) /\ config' # config => proc[p].overtaken \/ SaysTheSame(config, config')]_wrapVars

(* The copy of the file as its user wrote it is removed only while the configuration holds those very
   bytes, or somebody wrote one of the two files since this command looked at it (runUnwrap). *)
BackupLivesOn ==
  [][\A p \in Commands : proc[p].pc = "remove" /\ proc'[p].pc = "done" /\ backup # None /\ backup' = None
       => backup = config \/ proc[p].overtaken \/ proc[p].swapped]_wrapVars

(* A file that is still as wrap left it comes back byte for byte (newUnwrapCmd's text).  Does not
   hold: see README. *)
ByteForByte ==
  [][\A p \in Commands :
       /\ Writes(p) /\ proc[p].verb = "unwrap" /\ backup # None /\ ~proc[p].swapped
       /\ \E i \in DOMAIN backup.servers :
            proc[p].read = Splice(backup, proc[p].server, Wrapped(backup.servers[i]))
       => config' = backup]_wrapVars
=============================================================================
