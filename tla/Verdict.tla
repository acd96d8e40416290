--------------------------------- MODULE Verdict ---------------------------------
(***************************************************************************)
(* mcpsnoop check: one captured session judged against the signals named   *)
(* in --fail-on and the assertions of the other flags, and the three       *)
(* reports that say why (text, junit, sarif).                              *)
(*                                                                         *)
(* The gate counts what Store.Ingest counted while it read the frames.     *)
(* The reports list the frames again, from the timeline.  The check here   *)
(* writes all three reports, one run of the command each.                  *)
(***************************************************************************)
EXTENDS Correlator

CONSTANTS
  FindingsShown,   \* frameFindingsShown
  MaxResults,      \* sarifMaxResults
  MaxLogged        \* bound: frames of the capture

FrameSignals == {"error", "invalid", "warn", "mismatch", "deprecated", "late-result", "pending"}
Signals == FrameSignals \cup {"duplicate", "drift", "loosened", "incomplete", "schema", "annotations"}

NoCall == 0

(* What the tools came to: toolbaseline.ObserveSession's report, and the lists of the other signals. *)
Compared == [error |-> FALSE, created |-> FALSE, changes |-> {}, loosened |-> {}, unverified |-> FALSE, lists |-> {}]
Toolings ==
  {Compared, [Compared EXCEPT !.unverified = TRUE, !.lists = {"schema", "duplicate"}], [Compared EXCEPT !.error = TRUE],
   [Compared EXCEPT !.changes = {"t", "u"}, !.loosened = {"t"}], [Compared EXCEPT !.created = TRUE, !.lists = {"annotations"}]}

(* The command line: the signals to fail on, and the assertions. *)
Asks(signals) == [on |-> signals, expect |-> {}, forbid |-> {}, trips |-> 0, budget |-> FALSE]
Gates ==
  {Asks({"error", "invalid", "warn"}), Asks({"pending", "late-result"}), Asks({"mismatch", "deprecated"}), Asks({"drift"}),
   Asks({"loosened"}), Asks({"incomplete", "schema", "duplicate", "annotations"}),
   [Asks({"mismatch"}) EXCEPT !.expect = {"t"}, !.forbid = {"u"}], [Asks({"invalid"}) EXCEPT !.trips = 1, !.budget = TRUE]}
Arguments == {<<"log">>, <<"-">>, <<"none">>, <<"dir">>, <<"emptydir">>, <<"log", "dir">>, <<"log", "-">>, <<"log", "none">>}

VARIABLES
  logCalls,    \* the store's calls
  timeline,    \* what a frame is to check: kind, call, and what the store noted on it
  counted,     \* session.errors and session.lateResults
  missing,     \* session.missingFrames
  slow,        \* calls whose answer took longer than the budget
  verdict      \* the reports and exit codes, or NotJudged
verdictVars == <<logCalls, timeline, counted, missing, slow, verdict>>

NotJudged == [judged |-> FALSE]
VerdictInit ==
  /\ logCalls = <<>> /\ timeline = <<>> /\ counted = [errors |-> 0, late |-> 0] /\ missing = 0 /\ slow = {}
  /\ verdict = NotJudged

-----------------------------------------------------------------------------
Event(kind, call, errored, late, marks) ==
  [kind |-> kind, call |-> call, errored |-> errored, late |-> late, marks |-> marks]

Notes(st, events, e) ==
  /\ logCalls' = st
  /\ timeline' = Append(events, e)
  /\ counted' = [errors |-> counted.errors + (IF e.errored THEN 1 ELSE 0), late |-> counted.late + (IF e.late THEN 1 ELSE 0)]

Logging == ~verdict.judged /\ Len(timeline) < MaxLogged /\ UNCHANGED <<missing, verdict>>

(* A frame of the protocol, and the error or late answer it adds. *)
Logs(f) ==
  LET st      == Ingest(logCalls, f)
      i       == EventCall(logCalls, f)
      ends    == Max({i, EventTaskCall(f)})
      matched == f.kind \in {"response", "task"} /\ ends # NoCall /\ st[ends] # logCalls[ends]
      c       == st[ends]
  IN  /\ Logging
      /\ Notes(st, timeline, Event(f.kind, i, matched /\ c.err # Nothing,
                                   f.kind = "response" /\ matched /\ c.late, {}))
      /\ slow' \in (IF matched THEN {slow, slow \cup {ends}} ELSE {slow})

(* matchRetry: a request that goes on with a parked call. *)
LogsRetry(i) ==
  Logging /\ IsTool(logCalls[i]) /\ ~Done(logCalls[i]) /\ Notes(logCalls, timeline, Event("request", i, FALSE, FALSE, {})) /\ UNCHANGED slow
(* failExchange: an HTTP failure with no message of its own. *)
LogsFailure(i) ==
  /\ Logging /\ ~Done(logCalls[i]) /\ ~logCalls[i].task
  /\ Notes([logCalls EXCEPT ![i].state = "done", ![i].err = "protocol"], timeline, Event("transport", NoCall, TRUE, FALSE, {}))
  /\ UNCHANGED slow
(* An answer that matches no request. *)
LogsStray(errored) == Logging /\ Notes(logCalls, timeline, Event("response", NoCall, errored, FALSE, {"warn"})) /\ UNCHANGED slow
LogsOther(kind, marks) == Logging /\ Notes(logCalls, timeline, Event(kind, NoCall, FALSE, FALSE, marks)) /\ UNCHANGED slow
Loses == ~verdict.judged /\ missing = 0 /\ missing' = 2 /\ UNCHANGED <<logCalls, timeline, counted, slow, verdict>>

-----------------------------------------------------------------------------
(* The counts a run is judged by: s is a checkSummary. *)
Marked(mark) == Cardinality({k \in DOMAIN timeline : mark \in timeline[k].marks})
Summary(tooling) ==
  [error |-> counted.errors, lateResult |-> counted.late, missing |-> missing, drift |-> tooling,
   pending |-> Cardinality({i \in DOMAIN logCalls : ~Done(logCalls[i])}),
   invalid |-> Cardinality({k \in DOMAIN timeline : timeline[k].kind = "invalid"}),
   warn |-> Marked("warn"), mismatch |-> Marked("mismatch"), deprecated |-> Marked("deprecated")]

DriftUnverified(s) == s.drift.error \/ s.drift.created

LoosenedUnverified(s) == DriftUnverified(s) \/ s.drift.unverified

OneIf(b) == IF b THEN 1 ELSE 0
Count(s, signal) ==
  CASE signal \in {"error", "invalid", "warn", "mismatch", "pending", "deprecated"} -> s[signal]
    [] signal = "late-result" -> s.lateResult
    [] signal = "drift"       -> Cardinality(s.drift.changes) + OneIf(DriftUnverified(s))
    [] signal = "loosened"    -> Cardinality(s.drift.loosened) + OneIf(LoosenedUnverified(s))
    [] signal = "incomplete"  -> s.missing
    [] OTHER                  -> OneIf(signal \in s.drift.lists)
Failed(s, gate) == {signal \in gate.on : Count(s, signal) > 0}

(* checkAssertions.eval: an answer is needed to be slow, none to have asked too often. *)
RoundTrips(i) == Cardinality({k \in DOMAIN timeline : timeline[k].kind = "request" /\ timeline[k].call = i})
Measurable(c) == Done(c) /\ c.state # "superseded" /\ (c.state = "cancelled" => c.late)
AssertionFailures(gate) ==
  LET called == {logCalls[i].name : i \in {j \in DOMAIN logCalls : IsTool(logCalls[j])}}
      tools  == {i \in DOMAIN logCalls : IsTool(logCalls[i])}
  IN  {<<"expected", t>> : t \in gate.expect \ called} \cup {<<"forbidden", t>> : t \in gate.forbid \cap called}
      \cup {<<"slow", "t">> : i \in {j \in tools : gate.budget /\ j \in slow /\ Measurable(logCalls[j])}}
      \cup {<<"trips", "t">> : i \in {j \in tools : gate.trips > 0 /\ RoundTrips(j) > gate.trips}}

-----------------------------------------------------------------------------
(* The first request of a call that is still open. *)
ListsPending(k) ==
  /\ timeline[k].kind = "request" /\ timeline[k].call # NoCall /\ ~Done(logCalls[timeline[k].call])
  /\ \A j \in 1..(k - 1) : timeline[j].kind = "request" => timeline[j].call # timeline[k].call

Finds(k, signal) ==
  CASE signal = "error" -> timeline[k].errored
    [] signal = "invalid" -> timeline[k].kind = "invalid"
    [] signal \in {"warn", "mismatch", "deprecated"} -> signal \in timeline[k].marks
    [] signal = "late-result" -> timeline[k].late
    [] signal = "pending" -> ListsPending(k)
FrameFindings == {<<signal, k>> \in FrameSignals \X DOMAIN timeline : Finds(k, signal)}
Of(findings, signal) == {f \in findings : f[1] = signal}

(* writeFrameFindings: the first few of each failing signal, in timeline order. *)
TextReport(s, gate) ==
  [failed |-> Failed(s, gate), asserted |-> AssertionFailures(gate),
   frames |-> {f \in FrameFindings :
                 /\ f[1] \in Failed(s, gate)
                 /\ Cardinality({g \in Of(FrameFindings, f[1]) : g[2] < f[2]}) < FindingsShown}]

(* One case a signal, one for the assertions, and one that says a baseline was only recorded. *)
JUnitReport(s, gate) ==
  [failures |-> Cardinality(Failed(s, gate)) + OneIf(AssertionFailures(gate) # {}),
   skipped |-> OneIf(s.drift.created)]

Result(rule, level, anchor) == [rule |-> rule, level |-> level, anchor |-> anchor]

(* sarifBuilder.session: every finding, those outside the gate as notes. *)
SarifResults(s, gate) ==
  LET level(signal) == IF signal \in gate.on THEN "error" ELSE "note"
  IN  {Result(f[1], level(f[1]), <<"frame", f[2]>>) : f \in FrameFindings}
      \cup {Result(signal, "error", <<"unverified">>) : signal \in gate.on \cap
              ((IF DriftUnverified(s) THEN {"drift"} ELSE {}) \cup (IF LoosenedUnverified(s) THEN {"loosened"} ELSE {}))}
      \cup (IF s.drift.error THEN {Result("drift", level("drift"), <<"baseline-error">>)} ELSE {})
      \cup {Result("drift", level("drift"), <<"tool", t>>) : t \in s.drift.changes}
      \cup {Result("loosened", level("loosened"), <<"tool", t>>) : t \in s.drift.loosened}
      \cup {Result(signal, level(signal), <<"tool", "t">>) : signal \in s.drift.lists}
      \cup (IF s.missing > 0 THEN {Result("incomplete", level("incomplete"), <<"missing-frames">>)} ELSE {})
      \cup {Result("assertion", "error", a) : a \in AssertionFailures(gate)}

(* Faulty variant: the first results found are kept, whatever their level. *)
CutAnyhow(results) == CHOOSE kept \in SUBSET results : Cardinality(kept) = MaxResults - 1

(* truncate: errors before notes, and room for the one that says the list was cut. *)
Truncate(results) ==
  LET errors == {r \in results : r.level = "error"}
      room   == MaxResults - 1
  IN  IF Cardinality(errors) >= room THEN CHOOSE kept \in SUBSET errors : Cardinality(kept) = room
      ELSE errors \cup CHOOSE kept \in SUBSET (results \ errors) : Cardinality(kept) = room - Cardinality(errors)

SarifReport(s, gate) ==
  LET results == SarifResults(s, gate)
  IN  IF Cardinality(results) <= MaxResults THEN [results |-> results, cut |-> FALSE]
      ELSE [results |-> Truncate(results) \cup {Result("report-truncated", "warning", <<"report-truncated">>)}, cut |-> TRUE]

(* loadCheckSessions: a directory with no capture in it, a path that is not there, and stdin among others are errors. *)
Loads(args) ==
  IF Len(args) = 1 /\ args[1] \notin {"dir", "emptydir"} THEN args[1] # "none"
  ELSE \A k \in DOMAIN args : args[k] \notin {"-", "emptydir", "none"}

Ends(outcome) ==
  ~verdict.judged /\ verdict' = outcome /\ UNCHANGED <<logCalls, timeline, counted, missing, slow>>

(* What cannot be loaded, and a report that cannot be written, is no verdict. *)
Refuses(args, writes) == ~(Loads(args) /\ writes) /\ Ends([judged |-> TRUE, exit |-> 2])
Judges(gate, tooling) ==
  LET s    == Summary(tooling)
      exit == IF Failed(s, gate) # {} \/ AssertionFailures(gate) # {} THEN 1 ELSE 0
  IN  Ends([judged |-> TRUE, exit |-> exit, gate |-> gate, summary |-> s,
            text |-> TextReport(s, gate), junit |-> JUnitReport(s, gate), sarif |-> SarifReport(s, gate)])

-----------------------------------------------------------------------------
VerdictNext ==
  \/ \E f \in Frames(logCalls) : Logs(f)
  \/ \E i \in DOMAIN logCalls : LogsRetry(i) \/ LogsFailure(i)
  \/ \E errored \in BOOLEAN : LogsStray(errored)
  \/ LogsOther("invalid", {}) \/ LogsOther("request", {"warn", "mismatch"}) \/ LogsOther("notification", {"deprecated"})
  \/ Loses
  \/ \E args \in Arguments, writes \in BOOLEAN : Refuses(args, writes)
  \/ \E gate \in Gates, tooling \in Toolings : Judges(gate, tooling)

-----------------------------------------------------------------------------
(* Each report fails exactly when the run does, and lists as many frames of each frame signal as the
   gate counted, retries of one call once; a run that compared nothing with a baseline does not pass
   a gate that asked it to (frameFindings, sarifBuilder.session, driftUnverified). *)
ReportsTheGate ==
  verdict.judged /\ verdict.exit # 2 =>
    LET red == verdict.exit = 1
    IN  /\ red = (verdict.junit.failures > 0)
        /\ red = (\E r \in verdict.sarif.results : r.level = "error")
        /\ \A signal \in FrameSignals : Cardinality(Of(FrameFindings, signal)) = Count(verdict.summary, signal)
        /\ \A signal \in verdict.text.failed \cap FrameSignals : Of(verdict.text.frames, signal) # {}
        /\ ("loosened" \in verdict.gate.on /\ verdict.summary.drift.unverified) => red

(* A report too long for code scanning says so, fits, and leaves a finding the gate failed on out only
   for another such finding (truncate). *)
CutKeepsTheFailing ==
  verdict.judged /\ verdict.exit # 2 =>
    LET dropped == SarifResults(verdict.summary, verdict.gate) \ verdict.sarif.results
    IN  /\ Cardinality(verdict.sarif.results) <= MaxResults
        /\ verdict.sarif.cut = (dropped # {})
        /\ (\E r \in dropped : r.level = "error") => \A r \in verdict.sarif.results : r.level # "note"

(* Does not hold: see README.  Each frame behind a failing signal is listed by the text report or by
   the sarif one ("and %d more, every one listed by --format sarif"; "the text and junit formats
   report all of them"). *)
EveryFindingListed ==
  verdict.judged /\ verdict.exit # 2 =>
    \A f \in FrameFindings :
      f[1] \in verdict.text.failed =>
        f \in verdict.text.frames \/ \E r \in verdict.sarif.results : r.rule = f[1] /\ r.anchor = <<"frame", f[2]>>
=============================================================================
