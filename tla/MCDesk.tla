----------------------------------- MODULE MCDesk -----------------------------------
(***************************************************************************)
(* Small instances of the commands run beside the capture.  area says      *)
(* which of the machines a behaviour is about; the others stay at rest, so *)
(* that one run checks each of them and not their product.                 *)
(***************************************************************************)
EXTENDS WrapConfig, Baselines, SavedLogs, FiniteSetsExt, TLC

CONSTANTS p1, p2, p3, o1, o2
VARIABLES area, pair
deskVars == <<wrapVars, baselineVars, logVars, area, pair>>

(* Client configurations: two servers; one wrapped by hand; entries that cannot be wrapped; files
   that are refused. *)
Server(n, c, a) == [name |-> n, command |-> c, args |-> a, env |-> 1, form |-> "user", odd |-> FALSE]
Config(s) == [state |-> "ok", section |-> TRUE, other |-> 1, servers |-> s]
MCWords == {"mcpsnoop", "C:\\tools\\MCPSNOOP.EXE", "npx", "uvx", "", "--", "--redact", "x"}
MCDocuments ==
  {Config(<<Server("s1", "npx", <<"x">>), Server("s2", "uvx", NoArgs)>>),
   Config(<<Server("s1", "C:\\tools\\MCPSNOOP.EXE", <<"--redact", "--", "npx">>), Server("s2", "uvx", <<>>)>>),
   Config(<<Server("s1", "mcpsnoop", <<"--", "mcpsnoop", "--", "uvx">>)>>),
   Config(<<Server("s1", "mcpsnoop", <<"--redact">>), Server("s2", "", NoArgs)>>),
   Config(<<Server("s1", "npx", NoArgs), Server("s1", "npx", NoArgs)>>),
   Config(<<[Server("s1", "npx", NoArgs) EXCEPT !.odd = TRUE]>>),
   [Config(<<>>) EXCEPT !.section = FALSE], [state |-> "junk"], None}

(* Tool lists: as trusted; a tool gone; another description and schema; annotations spelled out. *)
Absent == [kind |-> "absent"]
Object(d) == [kind |-> "object", dialect |-> d, body |-> 1]
Plain == Block("absent", Unset, "absent", "")
Spelled == Block("object", [h \in Hints |-> IF HintDefault(h) THEN "true" ELSE "false"], "absent", "")
Loose == Block("object", [Unset EXCEPT !["readOnlyHint"] = "true"], "absent", "")
Tool(n) == [name |-> n, description |-> 1, title |-> 1, input |-> Object("none"), output |-> Absent,
            annotations |-> Plain, icons |-> 1]
ListA == <<Tool(2), Tool(1)>>
ListB == <<Tool(1), [Tool(0) EXCEPT !.title = 2]>>
ListC == <<[Tool(1) EXCEPT !.input = Object("2020-12"), !.annotations = Spelled], [Tool(2) EXCEPT !.description = 2]>>
ListD == <<[Tool(1) EXCEPT !.annotations = Loose, !.title = 2], Tool(2)>>
Capture(l, c, ts) == [label |-> l, complete |-> c, tools |-> ts]
MCCaptures ==
  {Capture("L", TRUE, t) : t \in {ListA, ListB, ListC, ListD}}
  \cup {Capture("M", TRUE, ListA), Capture("L", FALSE, <<>>), Capture("", TRUE, ListA)}
MCStored ==
  {NoFile, [state |-> "junk"]}
  \cup {[state |-> "whole", version |-> v, server |-> "L", tools |-> Normalize(ListA)] : v \in {1, 3}}

(* Annotation blocks and sessions to compare. *)
NoBoolean(h) == {x \in Hints : h[x] \in {"text", "null"}}
MCBlocks ==
  {Block("object", h, "absent", "") :
     h \in {g \in [Hints -> {"absent", "true", "false", "text", "null"}] : Cardinality(NoBoolean(g)) <= 2}}
  \cup {Plain, Block("null", Unset, "absent", ""), Block("other", Unset, "absent", "text")}
MCCalls ==
  {[method |-> "tools/call", isTool |-> TRUE, tool |-> 1, args |-> a, id |-> 1, status |-> s, duration |-> d] :
     a \in 1..2, s \in {"ok", "late_result", "error"}, d \in {NoDuration, 0, 2, 5}}
MCSessions == {<<>>} \cup {<<c>> : c \in MCCalls} \cup
  {<<c, [c EXCEPT !.status = s, !.duration = 5]>> : c \in MCCalls, s \in {"ok", "error"}}
Options(byID) == [threshold |-> 3, ratio |-> 2, byRequestID |-> byID]

AtRest ==
  /\ config = None /\ backup = None /\ proc = [p \in Commands |-> Idle] /\ edits = 0
BaselinesAtRest ==
  /\ file = [l \in Labels |-> NoFile] /\ trusted = file /\ observer = [p \in Observers |-> Waiting]
LogsAtRest == logs = <<>> /\ now = 1 /\ prune = Unstarted /\ walk = NoWalk

Init ==
  \/ area = "wrap" /\ WrapInit /\ BaselinesAtRest /\ LogsAtRest /\ pair = <<>>
  \/ area = "baseline" /\ BaselineInit /\ AtRest /\ LogsAtRest /\ pair = <<>>
  \/ area = "logs" /\ LogsInit /\ AtRest /\ BaselinesAtRest /\ pair = <<>>
  \/ area = "hints" /\ AtRest /\ BaselinesAtRest /\ LogsAtRest /\ pair \in {<<b>> : b \in MCBlocks}
  \/ area = "diff" /\ AtRest /\ BaselinesAtRest /\ LogsAtRest /\ pair \in {<<s>> : s \in MCSessions}

Next ==
  \/ area = "wrap" /\ WrapNext /\ UNCHANGED <<baselineVars, logVars, area, pair>>
  \/ area = "baseline" /\ BaselineNext /\ UNCHANGED <<wrapVars, logVars, area, pair>>
  \/ area = "logs" /\ LogsNext /\ UNCHANGED <<wrapVars, baselineVars, area, pair>>
  \/ /\ Len(pair) = 1 /\ UNCHANGED <<wrapVars, baselineVars, logVars, area>>
     /\ \/ area = "hints" /\ \E b \in MCBlocks : pair' = Append(pair, b)
        \/ area = "diff" /\ \E s \in MCSessions : pair' = Append(pair, s)

Spec == Init /\ [][Next]_deskVars
Symmetry == Permutations(Commands) \cup Permutations(Observers)

(* The comparison reads a null as false, which the reading of one block refuses (hintBool): a hint that
   turns null, or no longer is, passes for unchanged beside a false one.  See README. *)
TakenForFalse(v, h) == v \in {"null", "false"} \/ (v = "absent" /\ ~HintDefault(h))
NullHides(h) ==
  LET there == pair[1].hints[h]
      here  == pair[2].hints[h]
  IN  "null" \in {there, here} /\ TakenForFalse(there, h) /\ TakenForFalse(here, h)

(* What loosens a tool's annotations tightens them when undone and nothing moves both ways; a hint
   whose reading changed, or that turned unreadable, is never hidden by the comparison that decides
   whether the annotations drifted at all, unless a null is on one side and what counts as false on
   the other (CompareToolHints behind comparableAnnotations). *)
LooseningIsSeen ==
  area = "hints" /\ Len(pair) = 2 =>
      LET there == CompareToolHints(pair[1], pair[2])
          back == CompareToolHints(pair[2], pair[1])
          b == ParseToolHints(pair[1])
          a == ParseToolHints(pair[2])
          readable(x) == ~x.notObject /\ x.malformed = {}
      IN  /\ there.loosened \cap there.tightened = {}
          /\ readable(b) /\ readable(a) => there.loosened = back.tightened
          /\ (\E h \in Hints : ~NullHides(h) /\ (b.value[h] # a.value[h] \/ h \in SymDiff(b.malformed, a.malformed))) =>
               ComparableAnnotations(pair[1]) # ComparableAnnotations(pair[2])

(* A change that lets some client trust a tool more is a change CompareToolDefinitions reports; the
   comment on CompareToolHints counts a dropped destructiveHint on a read-only tool among them, and the
   one on comparableAnnotations says it turns no malformed block into something equal to a well-formed
   one.  Does not hold: see README. *)
LooseningNeverHidden ==
  area = "hints" /\ Len(pair) = 2 /\ CompareToolHints(pair[1], pair[2]).loosened # {} =>
     ComparableAnnotations(pair[1]) # ComparableAnnotations(pair[2])

(* A session compared with itself shows nothing; what two sessions differ in does not depend on which
   comes first, and of calls whose outcome or duration moved one direction is the regression (Compare). *)
DiffIsFair ==
  area = "diff" /\ Len(pair) = 2 =>
    \A byID \in BOOLEAN :
      LET there == Compare(pair[1], pair[2], Options(byID))
          back == Compare(pair[2], pair[1], Options(byID))
      IN  /\ pair[1] = pair[2] => Empty(there)
          /\ Empty(there) <=> Empty(back)
          /\ ~Empty(there) /\ (\A s \in there.statuses : StatusRank(s[1]) # StatusRank(s[2])) =>
               HasRegression(there) \/ HasRegression(back)

(* What loosens is seen, what differs is told the same way from both sides, and a comparison with a
   baseline speaks of the one that is trusted, in the words of the version that wrote it
   (CompareToolHints, Compare, CompareToolDefinitions). *)
ComparesFairly == LooseningIsSeen /\ DiffIsFair /\ ReportsTheTrusted

(* Whatever the client writes meanwhile, no edit of its configuration is lost to wrap or unwrap and the
   backup goes only once the file says all it did (writeConfig, unwrapConfig). *)
ConfigSafe == NothingLost /\ BackupLivesOn
=============================================================================
