------------------------------- MODULE HeaderRules -------------------------------
(***************************************************************************)
(* The headers of a Streamable HTTP request against its body: which ones a *)
(* tool's schema asks a client for (mcpParamHeaderBindings, ParamHeaders), *)
(* how the store judges the ones that came (Ingest and the functions it    *)
(* calls), and what the shim's redaction leaves of both before the store   *)
(* sees them (Redactor.RedactEnvelope).                                    *)
(*                                                                         *)
(* A text is a name; what tells texts apart is whether a header can carry  *)
(* one as it stands (Awkward) and the integer it spells (Number).  A       *)
(* revision is its rank among the dated ones, zero when not declared.      *)
(* Header names compare without case, so one stands for its spellings.     *)
(***************************************************************************)
EXTENDS Integers, Sequences, FiniteSets, SequencesExt

CONSTANTS
  Awkward,     \* texts a header field cannot hold as they are
  Number,      \* the integers some texts spell
  MaxSafe      \* the largest integer an x-mcp-header may hold

Marker  == "[REDACTED]"
Partly  == "..[REDACTED].."          \* a value a pattern rewrote in place
NoText  == "no text"
Revisions == [legacy |-> 1, versionHeader |-> 2, stateless |-> 4]   \* 2025-03-26, 2025-06-18, 2026-07-28
AtLeastRevision(version, from) == version >= from

-----------------------------------------------------------------------------
(* Values in headers (internal/proxy/header.go). *)

EncodeHeaderValue(text) == [as |-> IF text \in Awkward THEN "base64" ELSE "plain", text |-> text]
DecodeHeaderValue(v) == IF v.as = "broken" THEN NoText ELSE v.text
TravelsAsSent(v) == v.as = "base64" \/ (v.as = "plain" /\ v.text \notin Awkward)

IsInteger(text)   == text \in DOMAIN Number
SafeInteger(text) == IsInteger(text) /\ Number[text] <= MaxSafe /\ Number[text] >= -MaxSafe

-----------------------------------------------------------------------------
(* What a schema asks for.  A schema is the set of its places that carry an x-mcp-header: the
   keywords passed to get there, the annotation, and the type beside it. *)

SingleNamedType(members) ==
  LET named == SelectSeq(members, LAMBDA m : m # "null") IN IF Len(named) = 1 THEN {named[1]} ELSE {}

(* The type a place declares, as a set of at most one. *)
ParamHeaderType(t) ==
  CASE t.form = "one"                          -> {t.members[1]}
    [] t.form \in {"union", "anyOf", "oneOf"}  -> SingleNamedType(t.members)
    [] OTHER                                   -> {}

InstanceKeywords == {"default", "const", "examples", "enum"}
Reachable(place) == \A i \in DOMAIN place.chain : place.chain[i] = "properties"
IsData(place)    == \E i \in DOMAIN place.chain : place.chain[i] \in InstanceKeywords

BrokenAnnotation(place) ==
  \/ place.header \in {"not a string", "empty", "not a token"}
  \/ \E typ \in ParamHeaderType(place.type) : typ \notin {"string", "integer", "boolean"}

(* An annotation that breaks a constraint, a name given twice, or one the walk cannot arrive at. *)
ParamHeaderViolation(schema) ==
  \/ \E p \in schema : Reachable(p) /\ BrokenAnnotation(p)
  \/ \E p, q \in schema : p # q /\ Reachable(p) /\ Reachable(q) /\ p.header = q.header
  \/ \E p \in schema : ~Reachable(p) /\ ~IsData(p)

ParamHeaderBindings(schema) ==
  IF ParamHeaderViolation(schema) THEN {}
  ELSE {[path |-> p.path, header |-> p.header, typ |-> CHOOSE t \in ParamHeaderType(p.type) : TRUE] :
          p \in {q \in schema : Reachable(q) /\ ParamHeaderType(q.type) # {}}}

(* An argument at a path: absent, null, or a leaf.  hidden: the objects redaction put its marker for. *)
Absent == [kind |-> "absent", text |-> NoText]
LookupParamArgument(q, path) ==
  IF Len(path) > 1 /\ path[1] \in q.hidden THEN [leaf |-> Absent, scrubbed |-> TRUE]
  ELSE [leaf |-> q.args[path], scrubbed |-> FALSE]
Given(leaf) == leaf.kind \notin {"absent", "null"}

(* Whether a leaf can be read as the type its binding declares. *)
McpParamPrimitive(leaf, typ) ==
  CASE typ = "string"  -> leaf.kind = "string"
    [] typ = "boolean" -> leaf.kind = "boolean"
    [] typ = "integer" -> leaf.kind = "number" /\ SafeInteger(leaf.text)

(* One spelling for each integer, as FormatInt gives it. *)
McpParamString(leaf) ==
  IF leaf.kind = "number" THEN CHOOSE t \in DOMAIN Number : Number[t] = Number[leaf.text] /\ t \notin Awkward
  ELSE leaf.text

ParamHeaders(schema, q) ==
  {[name |-> b.header, value |-> EncodeHeaderValue(McpParamString(LookupParamArgument(q, b.path).leaf)),
    redacted |-> FALSE] :
     b \in {c \in ParamHeaderBindings(schema) :
              LET leaf == LookupParamArgument(q, c.path).leaf
              IN  Given(leaf) /\ McpParamPrimitive(leaf, c.typ)}}

-----------------------------------------------------------------------------
(* Judging them. *)

Unverifiable(q, a, b) == q.redacted /\ Marker \in {a, b}

McpParamHeaderValuesAgree(spellings, typ) ==
  \A i \in DOMAIN spellings :
    LET first == DecodeHeaderValue(spellings[1])
        next  == DecodeHeaderValue(spellings[i])
    IN  /\ first # NoText /\ next # NoText
        /\ IF typ = "integer" /\ SafeInteger(first)
           THEN SafeInteger(next) /\ Number[next] = Number[first] ELSE next = first

(* The names whose value redaction took: by the flag it sets, or, in a capture older than the flag, by
   the bytes it leaves. *)
ScrubbedHeaders(q) ==
  LET flagged == {q.params[i].name : i \in {j \in DOMAIN q.params : q.params[j].redacted}}
  IN  IF flagged # {} \/ ~q.redacted THEN flagged
      ELSE {q.params[i].name : i \in {j \in DOMAIN q.params : q.params[j].value.text = Marker}}

(* A header without its argument is the client's doing, unless redaction hid the argument. *)
ClientOmits(q, found) == ~(q.redacted /\ found.scrubbed)

ParamHeaderWarning(q, b) ==
  LET of        == SelectSeq(q.params, LAMBDA h : h.name = b.header)
      spellings == [i \in DOMAIN of |-> of[i].value]
      found     == LookupParamArgument(q, b.path)
      leaf      == found.leaf
      text      == IF spellings = <<>> THEN NoText ELSE DecodeHeaderValue(spellings[1])
  IN  IF ~Given(leaf) THEN spellings # <<>> /\ ClientOmits(q, found)
      ELSE IF spellings = <<>> THEN TRUE
      ELSE IF b.header \in ScrubbedHeaders(q) \/ (q.redacted /\ leaf = [kind |-> "string", text |-> Marker]) THEN FALSE
      ELSE IF Len(spellings) > 1 /\ ~McpParamHeaderValuesAgree(spellings, b.typ) THEN TRUE
      ELSE IF text = NoText \/ ~McpParamPrimitive(leaf, b.typ) THEN TRUE
      ELSE IF b.typ = "integer" THEN ~(SafeInteger(text) /\ Number[text] = Number[leaf.text])
      ELSE text # leaf.text

RequestProtocolVersion(q) == IF q.metaVersion # 0 THEN q.metaVersion ELSE q.version
NamedOperation(q) == q.method \in {"tools/call", "resources/read", "prompts/get"}
OperationName(q)  == IF NamedOperation(q) \/ q.method = "resources/subscribe" THEN q.name ELSE NoText

MissingRoutingHeaders(q) ==
  q.version = 0 \/ q.mcpMethod = NoText \/ (NamedOperation(q) /\ q.mcpName.text = NoText)

HandshakeRevision(handshakes) == IF Cardinality(handshakes) = 1 THEN CHOOSE v \in handshakes : TRUE ELSE 0
RequiresLegacyVersionHeader(version) ==
  AtLeastRevision(version, Revisions.versionHeader) /\ ~AtLeastRevision(version, Revisions.stateless)

NameDisagrees(q) ==
  LET header == DecodeHeaderValue(q.mcpName)
  IN  /\ q.mcpName.text # NoText /\ OperationName(q) # NoText
      /\ header # OperationName(q) /\ ~Unverifiable(q, header, OperationName(q))

(* What Ingest sets ev.mismatch for on a request with an id; tools: the listed tools' schemas. *)
HeaderMismatch(q, tools, handshakes) ==
  \/ /\ q.mcpMethod # NoText \/ q.mcpName.text # NoText
     /\ \/ q.batch
        \/ q.mcpMethod # NoText /\ q.mcpMethod # q.method /\ ~Unverifiable(q, q.mcpMethod, q.method)
        \/ NameDisagrees(q)
  \/ q.version # 0 /\ q.metaVersion # 0 /\ q.metaVersion # q.version
  \/ ~q.batch /\ AtLeastRevision(RequestProtocolVersion(q), Revisions.stateless) /\ MissingRoutingHeaders(q)
  \/ /\ ~q.batch /\ q.method # "initialize" /\ q.version = 0 /\ q.metaVersion = 0
     /\ RequiresLegacyVersionHeader(HandshakeRevision(handshakes))
  \/ /\ ~q.batch /\ q.method = "tools/call"
     /\ AtLeastRevision(RequestProtocolVersion(q), Revisions.stateless)
     /\ q.name \in DOMAIN tools
     /\ \E b \in ParamHeaderBindings(tools[q.name]) : ParamHeaderWarning(q, b)

HeadersVerified(q, tools, handshakes) ==
  /\ ~q.batch /\ ~HeaderMismatch(q, tools, handshakes) /\ ~q.redacted
  /\ AtLeastRevision(RequestProtocolVersion(q), Revisions.stateless)
  /\ TravelsAsSent(q.mcpName)
  /\ \A i \in DOMAIN q.params : TravelsAsSent(q.params[i].value)
  /\ q.method = "tools/call" => q.name \in DOMAIN tools

-----------------------------------------------------------------------------
(* Redaction: rules are keys, texts a value pattern rewrites, and paths. *)

Spellings(leaf) ==
  IF leaf.kind = "number" /\ leaf.text \in DOMAIN Number
  THEN {leaf.text, McpParamString(leaf)} ELSE {leaf.text}

ByKeyOrPath(r, path) == path[Len(path)] \in r.keys \/ path \in r.paths
ByPattern(r, leaf)   == leaf.kind = "string" /\ leaf.text \in r.patterns

RedactArgument(r, path, leaf) ==
  IF leaf = Absent THEN leaf
  ELSE IF ByKeyOrPath(r, path) THEN [kind |-> "string", text |-> Marker]
  ELSE IF ByPattern(r, leaf) THEN [leaf EXCEPT !.text = Partly]
  ELSE leaf

MirrorsScrubbed(v, scrubbed, survived) == DecodeHeaderValue(v) \in scrubbed \ survived

RedactParamHeader(r, h, scrubbed, survived) ==
  IF MirrorsScrubbed(h.value, scrubbed, survived) \/ h.name \in r.keys
  THEN [h EXCEPT !.value = [as |-> "plain", text |-> Marker], !.redacted = TRUE]
  ELSE IF h.value.as = "plain" /\ h.value.text \in r.patterns
  THEN [h EXCEPT !.value.text = Partly, !.redacted = TRUE]
  ELSE h

RedactEnvelope(r, q) ==
  LET hides    == {p[1] : p \in {p \in DOMAIN q.args : Len(p) > 1 /\ p[1] \in r.keys /\ q.args[p] # Absent}}
      beneath(p) == Len(p) > 1 /\ p[1] \in hides
      args     == [p \in DOMAIN q.args |->
                     IF beneath(p) THEN Absent ELSE RedactArgument(r, p, q.args[p])]
      name     == IF "name" \in r.keys THEN Marker ELSE IF q.name \in r.patterns THEN Partly ELSE q.name
      scrubbed == UNION {Spellings(q.args[p]) : p \in {p \in DOMAIN q.args : args[p] # q.args[p]}}
                    \cup (IF name # q.name THEN {q.name} ELSE {})
      survived == scrubbed \cap (UNION {Spellings(args[p]) : p \in {p \in DOMAIN args : args[p] # Absent}} \cup {name})
      params   == [i \in DOMAIN q.params |-> RedactParamHeader(r, q.params[i], scrubbed, survived)]
      mcpName  == IF q.mcpName.text # NoText /\ MirrorsScrubbed(q.mcpName, scrubbed, survived)
                  THEN [as |-> "plain", text |-> Marker] ELSE q.mcpName
      after    == [q EXCEPT !.args = args, !.hidden = hides, !.name = name, !.params = params, !.mcpName = mcpName]
  IN  [after EXCEPT !.redacted = after # q]
=============================================================================
