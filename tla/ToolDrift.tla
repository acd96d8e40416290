--------------------------------- MODULE ToolDrift ---------------------------------
(***************************************************************************)
(* Comparing two tool lists and two sessions (internal/sessiondiff).       *)
(* A tool definition is a record of the fields below; a list is a sequence *)
(* of named ones.  A schema is absent, an object with its top-level        *)
(* dialect and the rest of it, or some other value.  A tool's name stands  *)
(* for its place in byte order, 0 for the empty one.                       *)
(***************************************************************************)
EXTENDS Integers, FiniteSets, Sequences, SequencesExt

(***************************************************************************)
(* What a tool's annotations say of its behaviour, and which way a change  *)
(* of them moves (internal/store/annotations.go).                          *)
(*                                                                         *)
(* A block is absent, null, some other JSON value, or an object: for each  *)
(* hint a value or "absent", and a title.  "placeholder" is what           *)
(* mcpsnoop's own redaction leaves in a value's place.                     *)
(***************************************************************************)
Hints == {"readOnlyHint", "destructiveHint", "idempotentHint", "openWorldHint"}
HintValues == {"absent", "true", "false", "null", "text", "placeholder"}

HintDefault(hint) == hint \in {"destructiveHint", "openWorldHint"}

Block(kind, hints, title, raw) == [kind |-> kind, hints |-> hints, title |-> title, raw |-> raw]
Unset == [h \in Hints |-> "absent"]

Missing(block) == block.kind \in {"absent", "null"}
HintBool(v) == v \in {"true", "false"}
PartlyRedacted(redacted, v) == redacted /\ v = "placeholder"

(* annotationViolations: each value that is not of its type; a value the     *)
(* redaction rewrote is unreadable rather than wrong.                        *)
AnnotationViolations(block, redacted) ==
  CASE Missing(block) -> {}
    [] block.kind = "other" -> IF PartlyRedacted(redacted, block.raw) THEN {} ELSE {"annotations"}
    [] OTHER ->
         {h \in Hints : /\ block.hints[h] # "absent" /\ ~HintBool(block.hints[h])
                        /\ ~PartlyRedacted(redacted, block.hints[h])}
         \cup IF block.title \in {"absent", "text"} \/ PartlyRedacted(redacted, block.title)
              THEN {} ELSE {"title"}

(* analyzeAnnotations *)
AnalyzeAnnotations(block, redacted) ==
  LET present == {h \in Hints : block.hints[h] # "absent"}
      wrong == IF AnnotationViolations(block, redacted) # {} THEN {"malformedAnnotations"} ELSE {}
  IN  CASE Missing(block) -> {"unannotated"}
        [] block.kind = "other" -> wrong
        [] block.kind = "object" /\ present = {} -> wrong \cup {"unannotated"}
        [] OTHER ->
             wrong
             \cup (IF Hints \ {"idempotentHint"} \subseteq present THEN {} ELSE {"implicitHints"})
             \cup IF block.hints["readOnlyHint"] = "true" /\ block.hints["destructiveHint"] = "true"
                  THEN {"contradictoryHints"} ELSE {}

(* AnnotationFindings: one session's tools by kind, the violation left out. *)
ObservationalKinds == {"unannotated", "implicitHints", "contradictoryHints"}
AnnotationFindings(blocks, redacted) ==
  [kind \in ObservationalKinds |-> {t \in DOMAIN blocks : kind \in AnalyzeAnnotations(blocks[t], redacted)}]

(* ParseToolHints: the default stands in for every hint that is no boolean. *)
ParseToolHints(block) ==
  LET readable == block.kind = "object"
      sent(h) == readable /\ HintBool(block.hints[h])
  IN  [value     |-> [h \in Hints |-> IF sent(h) THEN block.hints[h] = "true" ELSE HintDefault(h)],
       explicit  |-> {h \in Hints : sent(h)},
       malformed |-> {h \in Hints : readable /\ block.hints[h] # "absent" /\ ~sent(h)},
       notObject |-> block.kind = "other",
       raw       |-> IF readable THEN block.hints ELSE block.raw]

(* CompareToolHints: which hints let a client trust the tool more than it did, *)
(* and which less.                                                             *)
DestructiveMoves(b, a) ==
  LET h == "destructiveHint"
      ro == "readOnlyHint"
      said(x) == h \in x.explicit /\ x.value[h]
      writable == ~b.value[ro] /\ ~a.value[ro]
      readOnly == b.value[ro] /\ a.value[ro]
  IN  [loosened  |-> (writable /\ b.value[h] /\ ~a.value[h]) \/ (readOnly /\ said(b) /\ ~said(a)),
       tightened |-> (writable /\ ~b.value[h] /\ a.value[h]) \/ (readOnly /\ ~said(b) /\ said(a))]

HintMoves(b, a, h) ==
  LET ro == "readOnlyHint"
      up == ~b.value[h] /\ a.value[h]
      down == b.value[h] /\ ~a.value[h]
      writable == ~b.value[ro] /\ ~a.value[ro]
  IN  CASE h = "destructiveHint" -> DestructiveMoves(b, a)
        [] h = "readOnlyHint" -> [loosened |-> up, tightened |-> down]
        [] h = "idempotentHint" -> [loosened |-> writable /\ up, tightened |-> writable /\ down]
        [] h = "openWorldHint" -> [loosened |-> down, tightened |-> up]

CompareToolHints(before, after) ==
  LET b == ParseToolHints(before)
      a == ParseToolHints(after)
      newlyBad == {h \in a.malformed : h \notin b.malformed \/ b.raw[h] # a.raw[h]}
      kept == Hints \ a.malformed
  IN  IF a.notObject
      THEN [loosened |-> IF b.notObject /\ b.raw = a.raw THEN {} ELSE {"annotations"}, tightened |-> {}]
      ELSE [loosened  |-> newlyBad \cup {h \in kept : HintMoves(b, a, h).loosened},
            tightened |-> {h \in kept : HintMoves(b, a, h).tightened}]

-----------------------------------------------------------------------------
(* Tool definitions and lists of them. *)

NoName == 0
DriftKinds == <<"added", "removed", "description", "input_schema", "title", "output_schema",
                "annotations", "icons">>
RegressionKinds == Range(DriftKinds) \ {"added", "icons"}

(* comparableSchema: spelling out the default dialect changes nothing. *)
ComparableSchema(schema) ==
  IF schema.kind = "object" /\ schema.dialect \in {"2020-12", "2020-12#"}
  THEN [schema EXCEPT !.dialect = "none"] ELSE schema

(* comparableAnnotations: every hint resolved; a null decodes into a bool    *)
(* without error and stays false, every other non-boolean stays itself.      *)
ResolvedHint(h, v) ==
  CASE v = "absent" -> IF HintDefault(h) THEN "true" ELSE "false"
    [] v = "null" -> "false"
    [] OTHER -> v

(* Faulty variant: what is no boolean falls back to the default. *)
ComparableDefaulted(block) ==
  IF block.kind = "other" THEN <<"malformed", block.raw>>
  ELSE <<"resolved", [h \in Hints |-> ResolvedHint(h, IF HintBool(block.hints[h]) THEN block.hints[h] ELSE "absent")],
         block.title>>
ComparableAnnotations(block) ==
  IF block.kind = "other" THEN <<"malformed", block.raw>>
  ELSE <<"resolved", [h \in Hints |-> ResolvedHint(h, block.hints[h])], block.title>>

(* toolDefinitionsByName: the first of a name wins, the nameless are skipped. *)
ByName(list) ==
  LET named == {i \in DOMAIN list : list[i].name # NoName /\ \A j \in 1..(i - 1) : list[j].name # list[i].name}
  IN  [n \in {list[i].name : i \in named} |-> list[CHOOSE i \in named : list[i].name = n]]

Differs(kind, t, o) ==
  CASE kind = "description" -> t.description # o.description
    [] kind = "title" -> t.title # o.title
    [] kind = "input_schema" -> ComparableSchema(t.input) # ComparableSchema(o.input)
    [] kind = "output_schema" -> ComparableSchema(t.output) # ComparableSchema(o.output)
    [] kind = "annotations" -> ComparableAnnotations(t.annotations) # ComparableAnnotations(o.annotations)
    [] kind = "icons" -> t.icons # o.icons

(* CompareToolDefinitions: what the trusted side never recorded is not compared. *)
CompareToolDefinitions(before, after, skip) ==
  LET b == ByName(before)
      a == ByName(after)
      both == DOMAIN b \cap DOMAIN a
      changed(kind) ==
        CASE kind = "added" -> DOMAIN a \ DOMAIN b
          [] kind = "removed" -> DOMAIN b \ DOMAIN a
          [] OTHER -> IF kind \in skip THEN {} ELSE {n \in both : Differs(kind, b[n], a[n])}
  IN  [changes    |-> [kind \in Range(DriftKinds) |-> changed(kind)],
       shifts     |-> [n \in changed("annotations") |-> CompareToolHints(b[n].annotations, a[n].annotations)],
       unverified |-> skip]

NoDrift == [changes |-> [kind \in Range(DriftKinds) |-> {}], shifts |-> <<>>, unverified |-> {}]
DriftCount(drift) == Cardinality(UNION {{<<kind, n>> : n \in drift.changes[kind]} : kind \in Range(DriftKinds)})

-----------------------------------------------------------------------------
(* listedTools: a listing without a cursor starts over; in one listing the first of a name wins. *)
ListedTools(calls) ==
  FoldLeft(LAMBDA tools, c :
             IF c.method # "tools/list" \/ c.page = "unreadable" THEN tools
             ELSE LET start == IF c.cursor THEN tools ELSE <<>>
                      have == {start[i].name : i \in DOMAIN start}
                  IN  start \o SelectSeq(c.page, LAMBDA t : t.name # NoName /\ t.name \notin have),
           <<>>, calls)

(* Calls pair by tool and arguments in the order they were made. *)
Signature(c, byRequestID) == <<c.tool, IF byRequestID THEN c.id ELSE c.args>>
CallsOf(calls, sig, byRequestID) ==
  SelectSeq(calls, LAMBDA c : c.isTool /\ c.tool # NoName /\ Signature(c, byRequestID) = sig)

(* statusRank *)
StatusRank(status) ==
  CASE status = "error" -> 2
    [] status \in {"pending", "call_cancelled", "late_result"} -> 1
    [] OTHER -> 0

(* notableDurationChange, the ratio a whole number. *)
NotableDurationChange(before, after, opts) ==
  LET longer == IF before > after THEN before ELSE after
      shorter == IF before > after THEN after ELSE before
  IN  /\ longer # shorter
      /\ longer - shorter >= opts.threshold
      /\ shorter <= 0 \/ longer >= opts.ratio * shorter

NoDuration == -1

(* Compare *)
Compare(before, after, opts) ==
  LET sigs(calls) == {Signature(calls[i], opts.byRequestID) : i \in {j \in DOMAIN calls : calls[j].isTool /\ calls[j].tool # NoName}}
      pairs(s) == LET b == CallsOf(before, s, opts.byRequestID)
                      a == CallsOf(after, s, opts.byRequestID)
                  IN  {<<b[i], a[i]>> : i \in DOMAIN b \cap DOMAIN a}
      matched == UNION {pairs(s) : s \in sigs(before) \cap sigs(after)}
  IN  [tools     |-> CompareToolDefinitions(ListedTools(before), ListedTools(after), {}),
       statuses  |-> {<<m[1].status, m[2].status>> : m \in {x \in matched : x[1].status # x[2].status}},
       durations |-> {<<m[1].duration, m[2].duration>> :
                        m \in {x \in matched : /\ x[1].duration # NoDuration /\ x[2].duration # NoDuration
                                               /\ NotableDurationChange(x[1].duration, x[2].duration, opts)}}]

(* Report.Empty and HasRegression *)
Empty(report) == DriftCount(report.tools) = 0 /\ report.statuses = {} /\ report.durations = {}
HasRegression(report) ==
  \/ \E kind \in RegressionKinds : report.tools.changes[kind] # {}
  \/ \E s \in report.statuses : StatusRank(s[2]) > StatusRank(s[1])
  \/ \E d \in report.durations : d[2] > d[1]
=============================================================================
