---------------------------------- MODULE MCScreen ----------------------------------
(***************************************************************************)
(* Small instances of what shows a capture to its reader: the terminal     *)
(* interface, check's verdict, exports, and the commands that fold many    *)
(* logs.  area says which of them a behaviour is about; the others stay at *)
(* rest.                                                                   *)
(***************************************************************************)
EXTENDS StreamView, ReplayDesk, Verdict, ExportTarget, Rollups, ClientProfiles

CONSTANTS a, b, s1, s2      \* sessions
VARIABLE area
screenVars == <<viewVars, replayVars, panelVars, verdictVars, exportVars, rollupVars, profileVars, area>>

MCClientOf == [s \in {s1, s2} |-> "x"]

(* Logs: one nothing was written to, one with an answered call, one of two servers, one whose start is
   early, two that break off. *)
MCFirstLogs ==
  {[at |-> 1, breaks |-> "never", sessions |-> <<>>],
   [at |-> 2, breaks |-> "never", sessions |-> <<Session("x", "prod", 0, 1, <<"ok">>)>>],
   [at |-> 3, breaks |-> "never", sessions |-> <<Session("x", "prod", 2, 0, <<"tool", "open">>), Session("y", "staging", 3, 2, <<>>)>>],
   [at |-> 1, breaks |-> "never", sessions |-> <<Session("x", "staging", 1, 3, <<"protocol">>)>>],
   [at |-> 2, breaks |-> "later", sessions |-> <<Session("y", "prod", 2, 1, <<"ok">>)>>],
   [at |-> 1, breaks |-> "at once", sessions |-> <<Session("x", "prod", 1, 1, <<"ok">>)>>]}
Bare == [at |-> 1, breaks |-> "never", sessions |-> <<>>]

ExportRests == dest.kind = "none" /\ dirOpen
RollupRests == dir = [n \in LogFiles |-> Bare]
ProfileRests == \A s \in Captured : captured[s].listed

ScreenInit ==
  /\ ViewInit /\ ReplayDeskInit /\ PanelInit /\ VerdictInit /\ ExportInit /\ RollupInit /\ ProfilesInit
  /\ area \in {"stream", "replay", "panel", "verdict", "export", "logs", "clients"}
  /\ area # "export" => ExportRests
  /\ area # "logs" => RollupRests
  /\ area # "clients" => ProfileRests

ScreenNext ==
  /\ UNCHANGED area
  /\ \/ area = "stream" /\ ViewNext
     \/ area # "stream" /\ UNCHANGED viewVars
  /\ \/ area = "replay" /\ ReplayDeskNext
     \/ area # "replay" /\ UNCHANGED replayVars
  /\ \/ area = "panel" /\ PanelNext
     \/ area # "panel" /\ UNCHANGED panelVars
  /\ \/ area = "verdict" /\ VerdictNext
     \/ area # "verdict" /\ UNCHANGED verdictVars
  /\ \/ area = "export" /\ ExportNext
     \/ area # "export" /\ UNCHANGED exportVars
  /\ \/ area = "logs" /\ RollupNext
     \/ area # "logs" /\ UNCHANGED rollupVars
  /\ \/ area = "clients" /\ ProfilesNext
     \/ area # "clients" /\ UNCHANGED profileVars

Spec == ScreenInit /\ [][ScreenNext]_screenVars
Symmetry == Permutations(Shown) \cup Permutations(Captured)

(* Every row, frame and search match the keys act on exists, and with rows in file order the inspector
   acts on the frame it shows (refresh, syncInspectIndex, applyOverlaySearch). *)
CursorsHold ==
  CASE area = "stream" -> CursorsInRange /\ InspectorKeepsInOrder
    [] area = "panel"  -> FrameSearchExact
    [] OTHER -> TRUE

(* The exit code, each report and the frames they list agree, a report cut short included; stats,
   inventory and clients answer for each log they read, once and in no particular order, while logs
   come and go. *)
OutputsExact ==
  CASE area = "verdict" -> ReportsTheGate /\ CutKeepsTheFailing
    [] area = "logs"    -> StatsExact /\ InventoryExact
    [] area = "clients" -> ProfilesExact
    [] OTHER -> TRUE
=============================================================================
