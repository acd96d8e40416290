------------------------------- MODULE ExportTarget -------------------------------
(***************************************************************************)
(* mcpsnoop export -o: where a rendered session is written (newExportCmd,  *)
(* exportTarget).  Several runs may write to one path, any of them may     *)
(* fail at any step or be killed, and the path may be a file, nothing yet, *)
(* or a device; the directory may refuse a temporary file.                 *)
(***************************************************************************)
EXTENDS Integers

CONSTANT Exporters   \* runs of the command

VARIABLES
  dest,     \* what the path holds: its kind, and the run that wrote it, NoExporter for what was there before,
            \* Several for a mix of what runs wrote in place
  dirOpen,  \* the directory allows a new file
  source,   \* what a run reads from: another file, the path itself, or a pipe from the path
  stage,    \* how far each run is
  temp      \* the temporary file of each run
exportVars == <<dest, dirOpen, source, stage, temp>>

NoExporter == 0
Several    == -1
ASSUME ExportAssumption == NoExporter \notin Exporters /\ Several \notin Exporters

Sources == {"other", "same", "piped"}
Stages  == {"start", "opened", "writing", "part", "written", "done", "failed", "killed"}

ExportInit ==
  /\ dest \in [kind : {"file", "none", "device"}, by : {NoExporter}, whole : {TRUE}]
  /\ dirOpen \in BOOLEAN
  /\ source \in [Exporters -> Sources]
  /\ dest.kind = "none" => \A p \in Exporters : source[p] = "other"
  /\ stage = [p \in Exporters |-> "start"]
  /\ temp = [p \in Exporters |-> "none"]

Goes(p, to) == stage' = [stage EXCEPT ![p] = to]

(* sameSource: a path given, or stdin redirected, from the file to write is refused; a pipe cannot be told. *)
RefusesSource(p) ==
  stage[p] = "start" /\ source[p] = "same" /\ Goes(p, "failed") /\ UNCHANGED <<dest, dirOpen, source, temp>>

(* A device is written as it is, anything else through a temporary file, or in place where the
   directory does not allow one: a file that is there is emptied, and none can be made. *)
OpensTarget(p) ==
  /\ stage[p] = "start" /\ source[p] # "same"
  /\ \/ /\ dest.kind = "device"
        /\ Goes(p, "opened") /\ UNCHANGED <<dest, temp>>
     \/ /\ dest.kind # "device" /\ dirOpen
        /\ temp' = [temp EXCEPT ![p] = "partial"] /\ Goes(p, "opened") /\ UNCHANGED dest
     \/ /\ dest.kind = "file" /\ ~dirOpen
        /\ dest' = [dest EXCEPT !.by = p, !.whole = FALSE] /\ Goes(p, "opened") /\ UNCHANGED temp
     \/ /\ dest.kind = "none" /\ ~dirOpen
        /\ Goes(p, "failed") /\ UNCHANGED <<dest, temp>>
  /\ UNCHANGED <<dirOpen, source>>

(* Faulty variant: the report goes to the path itself. *)
StraightTo(p) == TRUE
InPlace(p) == temp[p] = "none"

(* Export: the source is read to its end, then the report is written.  What is written in place can be
   seen half written, and what two runs write to one file at a time is a mix; a device takes what comes. *)
Renders(p) == stage[p] = "opened" /\ Goes(p, "writing") /\ UNCHANGED <<dest, dirOpen, source, temp>>
WritesPart(p) ==
  /\ stage[p] = "writing" /\ InPlace(p) /\ Goes(p, "part")
  /\ dest' = [dest EXCEPT !.by = IF dest.kind = "device" \/ @ = p THEN p ELSE Several, !.whole = FALSE]
  /\ UNCHANGED <<dirOpen, source, temp>>
WritesAll(p) ==
  /\ \/ /\ stage[p] = "part" /\ InPlace(p) /\ UNCHANGED temp
        /\ dest' = [dest EXCEPT !.by = IF @ = p THEN p ELSE Several, !.whole = dest.by = p]
     \/ /\ stage[p] = "writing" /\ ~InPlace(p) /\ UNCHANGED dest
        /\ temp' = [temp EXCEPT ![p] = "whole"]
  /\ Goes(p, "written") /\ UNCHANGED <<dirOpen, source>>

(* commit: the file closed, and renamed into place. *)
Commits(p) ==
  /\ stage[p] = "written" /\ Goes(p, "done")
  /\ IF InPlace(p) THEN UNCHANGED <<dest, temp>>
     ELSE dest' = [kind |-> "file", by |-> p, whole |-> temp[p] = "whole"] /\ temp' = [temp EXCEPT ![p] = "none"]
  /\ UNCHANGED <<dirOpen, source>>

(* A capture that cannot be read, a write or a close or a rename that fails: the deferred abort removes
   the temporary file. *)
Aborts(p) ==
  /\ stage[p] \in {"opened", "writing", "part", "written"} /\ Goes(p, "failed")
  /\ temp' = [temp EXCEPT ![p] = "none"]
  /\ UNCHANGED <<dest, dirOpen, source>>
Killed(p) ==
  stage[p] \in {"opened", "writing", "part", "written"} /\ Goes(p, "killed") /\ UNCHANGED <<dest, dirOpen, source, temp>>

ExportNext ==
  \E p \in Exporters :
    RefusesSource(p) \/ OpensTarget(p) \/ Renders(p) \/ WritesPart(p) \/ WritesAll(p) \/ Commits(p) \/ Aborts(p) \/ Killed(p)

ExportSpec == ExportInit /\ [][ExportNext]_exportVars

-----------------------------------------------------------------------------
(* Where the directory allows a temporary file, and but for a device, whoever looks finds a whole export or what was there
   before, whatever run failed or was killed and whichever of two ended last; a run that was not killed
   leaves no temporary file; and one that succeeded has put its export, or a later one, in place. *)
ExportsAreWhole ==
  /\ dirOpen /\ dest.kind # "device" => dest.whole
  /\ \A p \in Exporters :
       /\ stage[p] \in {"done", "failed"} => temp[p] = "none"
       /\ (stage[p] = "done" /\ dirOpen) => dest.by # NoExporter
       /\ (dest.by = p /\ dirOpen /\ dest.kind = "file") => stage[p] = "done"

(* Does not hold: see README.  A run that reads the path through a pipe leaves it as it was until it
   has been read to its end ("the source is read in full before the destination is touched"). *)
SourceSurvives ==
  \A p \in Exporters : (source[p] = "piped" /\ stage[p] = "opened" /\ dest.by \in {NoExporter, p}) => dest.whole
=============================================================================
