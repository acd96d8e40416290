--------------------------------- MODULE MCSession ---------------------------------
(***************************************************************************)
(* Small instances of one session over HTTP: the exchanges the proxy       *)
(* captures, and what the store tells the session's reader.  area says     *)
(* which part a behaviour is about; the others stay at rest.               *)
(***************************************************************************)
EXTENDS HttpExchange, BoundedStore, HeaderRules, ToolListing, Streams, Chains, TLC

VARIABLES area, case
Rest == <<area, case>>
sessionVars == <<exchangeVars, boundVars, listVars, resultVars, streamVars, chainVars, Rest>>

(* One exchange: empty, a request whose end comes with it or after it, a notification, a batch, and a
   body larger than the cap. *)
MCBody ==
  {[size |-> 0, holds |-> <<"request">>, eofLate |-> FALSE],
   [size |-> 1, holds |-> <<"request">>, eofLate |-> FALSE],
   [size |-> 1, holds |-> <<"request">>, eofLate |-> TRUE],
   [size |-> 1, holds |-> <<"notification">>, eofLate |-> FALSE],
   [size |-> 1, holds |-> <<"notification", "request">>, eofLate |-> TRUE],
   [size |-> 2, holds |-> <<"request">>, eofLate |-> FALSE]}
EmptyBody == CHOOSE b \in MCBody : b.size = 0

(* Schemas: a string and a nested nullable integer; examples that spell an annotation; annotations out
   of reach, given twice, of a type a header cannot hold. *)
Place(chain, path, header, form, members) ==
  [chain |-> chain, path |-> path, header |-> header, type |-> [form |-> form, members |-> members]]
X == Place(<<"properties">>, <<"x">>, "a", "one", <<"string">>)
Y == Place(<<"properties", "properties">>, <<"g", "y">>, "b", "union", <<"integer", "null">>)
MCSchemas ==
  {{}, {X}, {X, Y}, {X, Place(<<"properties", "default">>, <<>>, "c", "one", <<"string">>)},
   {X, Place(<<"properties", "items">>, <<>>, "c", "one", <<"string">>)},
   {X, [Y EXCEPT !.header = "a"]}, {[X EXCEPT !.type.members = <<"number">>]},
   {[X EXCEPT !.type.form = "none"], Y}}
MCNumber == [t \in {"42", "42.0", "2^53"} |-> IF t = "2^53" THEN MaxSafe + 1 ELSE 42]
Paths == {<<"x">>, <<"g", "y">>}
Leaf(k, t) == [kind |-> k, text |-> t]
MCArgs ==
  {[p \in Paths |-> IF p = <<"x">> THEN x ELSE y] :
     x \in {Absent, Leaf("null", NoText), Leaf("string", "v"), Leaf("string", "e'"), Leaf("string", Marker)},
     y \in {Absent, Leaf("number", "42"), Leaf("number", "42.0"), Leaf("number", "2^53"), Leaf("string", "v")}}

(* What a conforming client sends for a call of the tool, and ways to get it wrong. *)
Conforming(schema, args, name) ==
  LET body == [method |-> "tools/call", name |-> name, args |-> args, hidden |-> {}, metaVersion |-> 4,
               redacted |-> FALSE, batch |-> FALSE]
  IN  body @@ [version |-> 4, mcpMethod |-> "tools/call", mcpName |-> EncodeHeaderValue(name),
               params |-> SetToSeq(ParamHeaders(schema, body))]
Wrong(text) == [as |-> "plain", text |-> text]
Tampered(q) ==
  {q, [q EXCEPT !.version = 3], [q EXCEPT !.version = 0], [q EXCEPT !.mcpMethod = "tools/list"],
   [q EXCEPT !.mcpName = Wrong("other")], [q EXCEPT !.mcpName = Wrong(NoText)], [q EXCEPT !.mcpName = Wrong(q.name)],
   [q EXCEPT !.batch = TRUE], [q EXCEPT !.metaVersion = 0],
   [q EXCEPT !.params = Append(@, [name |-> "a", value |-> Wrong("v"), redacted |-> FALSE])]}
  \cup UNION {{[q EXCEPT !.params = RemoveAt(@, i)], [q EXCEPT !.params[i].value = Wrong("w")],
               [q EXCEPT !.params[i].value.as = "broken"], [q EXCEPT !.params[i].value.as = "plain"],
               [q EXCEPT !.params = Append(@, [q.params[i] EXCEPT !.value = Wrong("42.0")])]} :
                i \in DOMAIN q.params}
Rule(keys, patterns, paths) == [keys |-> keys, patterns |-> patterns, paths |-> paths]
MCRules ==
  {Rule({k}, {}, {}) : k \in {"x", "y", "g", "a", "name"}} \cup {Rule({}, {t}, {}) : t \in {"v", "e'", "t"}}
  \cup {Rule({}, {}, {p}) : p \in Paths} \cup {Rule({"y"}, {"v"}, {<<"x">>})}

AddHeaders ==
  /\ area = "headers" /\ Len(case) = 1 /\ UNCHANGED area
  /\ \E args \in MCArgs, name \in {"t", "e'"} :
       \/ \E q \in Tampered(Conforming(case[1], args, name)) : case' = case \o <<args, name, q>>
       \/ \E r \in MCRules : case' = case \o <<args, name, RedactEnvelope(r, Conforming(case[1], args, name))>>

Init ==
  /\ ExchangeInit /\ BoundInit /\ ListingInit /\ ResultsInit /\ StreamsInit /\ ChainsInit
  /\ \/ area \in {"exchange", "memory", "listing", "results", "streams", "chains"} /\ case = <<>>
     \/ area = "headers" /\ case \in {<<s>> : s \in MCSchemas}
  /\ area # "exchange" => \A e \in Exchange : post[e].holds = EmptyBody.holds /\ post[e].size = 0
  /\ area # "streams" => offers = {} /\ \A c \in Client : rev[c] = Modern /\ declares[c] = {}

Next ==
  \/ area = "exchange" /\ ExchangeNext /\ UNCHANGED <<boundVars, listVars, resultVars, streamVars, chainVars, Rest>>
  \/ area = "memory" /\ BoundNext /\ UNCHANGED <<exchangeVars, listVars, resultVars, streamVars, chainVars, Rest>>
  \/ area = "listing" /\ ListingNext /\ UNCHANGED <<exchangeVars, boundVars, resultVars, streamVars, chainVars, Rest>>
  \/ area = "results" /\ ResultsNext /\ UNCHANGED <<exchangeVars, boundVars, listVars, streamVars, chainVars, Rest>>
  \/ area = "streams" /\ StreamsNext /\ UNCHANGED <<exchangeVars, boundVars, listVars, resultVars, chainVars, Rest>>
  \/ area = "chains" /\ ChainsNext /\ UNCHANGED <<exchangeVars, boundVars, listVars, resultVars, streamVars, Rest>>
  \/ AddHeaders /\ UNCHANGED <<exchangeVars, boundVars, listVars, resultVars, streamVars, chainVars>>

Spec == Init /\ [][Next]_sessionVars

(* A client that mirrors every argument its tool's schema asks for is never reported, whatever the
   user's rules took out of the body or the headers (mcpParamHeaderWarnings, RedactEnvelope). *)
ConformingNotAccused ==
  area = "headers" /\ Len(case) = 4 =>
    LET q == case[4] IN
    /\ \A p \in Paths : Given(case[2][p]) =>
         \A b \in ParamHeaderBindings(case[1]) : b.path = p => McpParamPrimitive(case[2][p], b.typ)
    /\ q.redacted \/ q = Conforming(case[1], case[2], case[3])
    /\ \A p \in Paths : case[2][p].kind = "null" => q.args[p] \in {case[2][p], Absent}
    => ~HeaderMismatch(q, [t \in {"t", "e'"} |-> case[1]], {})

(* Headers the store vouches for, so that a server refusing them is the one to blame, are those a
   conforming client sends for that body (headersVerified). *)
VerifiedAgree ==
  area = "headers" /\ Len(case) = 4 =>
    LET q     == case[4]
        right == Conforming(case[1], q.args, q.name)
    IN  HeadersVerified(q, [t \in {"t"} |-> case[1]], {}) =>
          /\ q.version = right.version /\ q.mcpMethod = right.mcpMethod /\ q.mcpName = right.mcpName
          /\ \A b \in ParamHeaderBindings(case[1]) :
               LET sent(x) == {DecodeHeaderValue(x.params[i].value) : i \in {j \in DOMAIN x.params : x.params[j].name = b.header}}
               IN  sent(q) = sent(right) \/ \E t, u \in DOMAIN Number : sent(q) \subseteq {t, u} /\ sent(right) \subseteq {t, u} /\ Number[t] = Number[u]

(* Warnings are fair: results are judged by the schema their call was made under, capabilities and
   progress by what was declared and offered, and a client that does as the tool's schema asks is not
   accused of a header. *)
ReportedFairly ==
  CASE area = "results" -> ResultsJudgedFairly
    [] area = "streams" -> JudgedFairly
    [] area = "headers" -> ConformingNotAccused /\ VerifiedAgree
    [] OTHER -> TRUE

(* An operation's time is the sum of its rounds and its elicitations carry their own answers. *)
OperationsExact == area = "chains" => TimesAddUp /\ AnswersAreTheirs
=============================================================================
