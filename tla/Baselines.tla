--------------------------------- MODULE Baselines ---------------------------------
(***************************************************************************)
(* Trust on first use of tool definitions (internal/toolbaseline).  A      *)
(* process observes, accepts or resets the baseline of one session's       *)
(* server label; the live hub, check and the baseline command may all do   *)
(* so at once on one directory.  A manager's mutex covers one process, so  *)
(* what is atomic between processes is what the file system makes atomic:  *)
(* reading a file, linking a complete one into place, renaming over one,   *)
(* removing one.                                                           *)
(***************************************************************************)
EXTENDS ToolDrift

CONSTANTS Observers,         \* processes
          Labels,            \* server labels
          Captures,          \* sessions: [label, complete, tools]
          Stored             \* what a label's file may hold before anyone runs

ASSUME BaselineAssumption == \A c \in Captures : c.label \in Labels \cup {""}

VARIABLES file,              \* each label's baseline file
          observer,          \* each process: what it does, and what it reports
          trusted            \* ghost: the file each label was last given, and by which verb

baselineVars == <<file, observer, trusted>>

NoFile == [state |-> "missing"]
BaselineVersion == 2

(* versionCoverageGap: the kinds a version has no record of. *)
(* Faulty variant: a version 1 file is compared in full. *)
NoGap(version) == {}
VersionCoverageGap(version) ==
  IF version >= 2 THEN {} ELSE {"title", "output_schema", "annotations", "icons"}

(* normalize: the nameless go, the rest in the order of their names. *)
Normalize(tools) ==
  SetToSortSeq({t \in Range(tools) : t.name # NoName}, LAMBDA a, b : a.name < b.name)

Snapshot(capture) ==
  [state |-> "whole", version |-> BaselineVersion, server |-> capture.label, tools |-> Normalize(capture.tools)]

(* load: what it refuses with, or "" *)
LoadError(label) ==
  LET f == file[label]
  IN  IF f.state = "missing" THEN "not exist"
      ELSE IF f.state = "junk" THEN "corrupt"
      ELSE IF f.server # label THEN "another server's"
      ELSE IF f.version < 1 \/ f.version > BaselineVersion THEN "newer"
      ELSE ""

Waiting == [pc |-> "idle", verb |-> "", capture |-> [label |-> ""], report |-> NoDrift, outcome |-> "",
            against |-> NoFile]

BaselineInit ==
  /\ file \in [Labels -> Stored]
  /\ observer = [p \in Observers |-> Waiting]
  /\ trusted = file

Ends(p, outcome, report, against) ==
  observer' = [observer EXCEPT ![p] = [pc |-> "done", verb |-> @.verb, capture |-> @.capture, report |-> report,
                                       outcome |-> outcome, against |-> against]]

(* sessionDefinitions and sessionLabel: what a command is refused for before any file is looked at. *)
Refuses(verb, capture) == (verb # "reset" /\ ~capture.complete) \/ capture.label = ""

Begins(p, verb, capture) ==
  /\ observer[p].pc = "idle"
  /\ IF Refuses(verb, capture) THEN Ends(p, "refused", NoDrift, NoFile)
     ELSE observer' = [observer EXCEPT ![p] = [pc |-> verb, verb |-> verb, capture |-> capture, report |-> NoDrift,
                                               outcome |-> "", against |-> NoFile]]
  /\ UNCHANGED <<file, trusted>>

CompareWith(p, baseline) ==
  CompareToolDefinitions(baseline.tools, Normalize(observer[p].capture.tools), VersionCoverageGap(baseline.version))

(* Observe up to the link: compare with the file, or prepare a first one. *)
Looks(p) ==
  LET label == observer[p].capture.label
      err == LoadError(label)
  IN  /\ observer[p].pc \in {"observe", "reload"}
      /\ IF err = "not exist" /\ observer[p].pc = "observe"
         THEN observer' = [observer EXCEPT ![p].pc = "link"]
         ELSE IF err # "" THEN Ends(p, err, NoDrift, NoFile)
         ELSE Ends(p, "compared", CompareWith(p, file[label]), file[label])
      /\ UNCHANGED <<file, trusted>>

(* writeNew: link fails when the file exists by now, and the winner is read. *)
(* Faulty variant: the file is renamed into place, whatever is there. *)
RenamesOver(label) == TRUE
LinkFree(label) == file[label] = NoFile
Links(p) ==
  LET label == observer[p].capture.label
  IN  /\ observer[p].pc = "link"
      /\ IF LinkFree(label)
         THEN /\ file' = [file EXCEPT ![label] = Snapshot(observer[p].capture)]
              /\ trusted' = [trusted EXCEPT ![label] = IF @ = NoFile THEN Snapshot(observer[p].capture) ELSE @]
              /\ Ends(p, "created", NoDrift, NoFile)
         ELSE /\ observer' = [observer EXCEPT ![p].pc = "reload"]
              /\ UNCHANGED <<file, trusted>>

Accepts(p) ==
  LET label == observer[p].capture.label
  IN  /\ observer[p].pc = "accept"
      /\ file' = [file EXCEPT ![label] = Snapshot(observer[p].capture)]
      /\ trusted' = [trusted EXCEPT ![label] = Snapshot(observer[p].capture)]
      /\ Ends(p, "accepted", NoDrift, NoFile)

Resets(p) ==
  LET label == observer[p].capture.label
  IN  /\ observer[p].pc = "reset"
      /\ file' = [file EXCEPT ![label] = NoFile]
      /\ trusted' = [trusted EXCEPT ![label] = NoFile]
      /\ Ends(p, "reset", NoDrift, NoFile)

(* ObserveAll: the next session, whatever became of the last. *)
Continues(p) ==
  /\ observer[p].pc = "done" /\ observer[p].verb = "observe"
  /\ observer' = [observer EXCEPT ![p] = Waiting]
  /\ UNCHANGED <<file, trusted>>

BaselineNext ==
  \E p \in Observers :
     \/ \E verb \in {"observe", "accept", "reset"}, capture \in Captures : Begins(p, verb, capture)
     \/ Looks(p) \/ Links(p) \/ Accepts(p) \/ Resets(p) \/ Continues(p)

-----------------------------------------------------------------------------
(* What an operator trusted is what the file holds: the first observation to arrive, or the last
   accept, whatever observers raced for it; no observation replaces it (writeNew). *)
FirstTrustStands == \A label \in Labels : file[label] = trusted[label]

(* A comparison alarms about nothing the baseline has no record of and says what it left out, misses
   no tool that came, went or says something else, and finds nothing between equal lists. *)
ReportsTheTrusted ==
  \A p \in Observers : observer[p].outcome = "compared" =>
     LET f == observer[p].against
         now == Normalize(observer[p].capture.tools)
         r == observer[p].report
         says(list) == {[name |-> t.name, description |-> t.description] : t \in Range(list)}
     IN  /\ f.version = 1 =>
              /\ \A kind \in Range(DriftKinds) : r.changes[kind] # {} =>
                   kind \in {"added", "removed", "description", "input_schema"}
              /\ r.unverified # {}
         /\ f.tools = now => DriftCount(r) = 0
         /\ says(f.tools) # says(now) => DriftCount(r) > 0
=============================================================================
