------------------------------- MODULE ToolListing -------------------------------
(***************************************************************************)
(* A session's tools/list: the pages of a listing as applyToolsList folds  *)
(* them, and the caching rules of internal/store/cache.go over the same    *)
(* requests and results.  The peers conform: a server answers a cursor     *)
(* with the page it names, gives one scope to a listing, and announces     *)
(* every change; several clients may list at once.                         *)
(*                                                                         *)
(* A tool is its page and the version of the server's list it was in; what *)
(* a definition says is ToolDrift's and HeaderRules' business.  An entry   *)
(* without a readable name is Nameless.  version, listing, got and mixed   *)
(* are the truth beside the store; nothing it does reads them.             *)
(*                                                                         *)
(* At the end, apart from all that, are the results of the tools listed.   *)
(***************************************************************************)
EXTENDS Integers, Sequences, FiniteSets

CONSTANTS
  Lister,        \* clients of the session
  Pages,         \* pages of a listing
  Ttls,          \* what ttlMs may say, zero for immediately stale
  MaxClock,      \* bound: the clock
  MaxRuns,       \* bound: listings
  MaxChanges     \* bound: changes of the server's list

ASSUME ListingAssumption == Pages \in Nat \ {0} /\ Ttls \subseteq Int

Nameless == <<0, 0>>     \* as a tool: of no version and no page
Public   == "public"
Private  == "private"
NoNote   == "none"

VARIABLES
  advertised,      \* sess.advertisedTools with their definitions
  listSeen, listComplete,
  cacheFresh,      \* by page: when the result came and how long it is fresh
  cacheListScope,  \* by cursor: the scope of the listing that issued it
  note,            \* what the last frame was reported for
  listClock,
  version,         \* of the server's list
  announced,       \* the version the last list_changed was about
  runs,            \* listings so far
  listing,         \* by client: the listing it is in
  got,             \* by page: the last result the store saw, with the announced version then
  mixed            \* the pages held are of listings that overlapped, or with one unseen

listStore == <<advertised, listSeen, listComplete, cacheFresh, cacheListScope>>
listVars  == <<listStore, note, listClock, version, announced, runs, listing, got, mixed>>

(* cursor: the page asked for next, one for none; tools: what the client was given. *)
NotListing == [run |-> 0, cursor |-> 1, waits |-> FALSE, scope |-> Public, tools |-> {}, first |-> 0]
NoEntry    == [at |-> 0, ttl |-> 0, announced |-> 0]

ListingInit ==
  /\ advertised = {} /\ listSeen = FALSE /\ listComplete = FALSE
  /\ cacheFresh = [p \in 1 .. Pages |-> NoEntry] /\ cacheListScope = [k \in {} |-> ""]
  /\ note = NoNote /\ listClock = 0 /\ version = 1 /\ announced = 1 /\ runs = 0
  /\ listing = [c \in Lister |-> NotListing]
  /\ got = [p \in 1 .. Pages |-> NoEntry] /\ mixed = FALSE

PageOf(v, page) == {<<v, page>>} \cup (IF page = 1 THEN {Nameless} ELSE {})

-----------------------------------------------------------------------------
(* Asking. *)

Fresh(entry) == entry.ttl > 0 /\ listClock < entry.at + entry.ttl

CheckCacheStale(page) == IF Fresh(cacheFresh[page]) THEN "re-fetched" ELSE NoNote

AsksListing(c) ==
  LET l == listing[c] IN
  /\ ~l.waits /\ (l.run = 0 => runs < MaxRuns)
  /\ \E scope \in {Public, Private} :
       listing' = [listing EXCEPT ![c] =
         IF l.run = 0 THEN [NotListing EXCEPT !.run = runs + 1, !.waits = TRUE, !.scope = scope]
         ELSE [l EXCEPT !.waits = TRUE]]
  /\ runs' = IF l.run = 0 THEN runs + 1 ELSE runs
  /\ note' = CheckCacheStale(l.cursor)
  /\ UNCHANGED <<listStore, listClock, version, announced, got, mixed>>

-----------------------------------------------------------------------------
(* Answering. *)

(* Faulty variant: a listing is known by its method alone. *)
OneScopePerMethod(l) == <<0, 0>>

(* A cursor belongs to the listing that issued it. *)
CacheScopeKey(l) == <<l.run, l.cursor>>

CheckCacheScope(l) ==
  IF l.cursor > 1 /\ CacheScopeKey(l) \in DOMAIN cacheListScope /\ cacheListScope[CacheScopeKey(l)] # l.scope
  THEN "scope" ELSE NoNote

NextPage(l)  == [l EXCEPT !.cursor = @ + 1]
LastPage(l)  == l.cursor = Pages

(* Faulty variant: a listing begun anew adds to the one before. *)
ExtendsAlways(l, tools) == advertised \cup (tools \ {Nameless})

(* A page without a cursor is a fresh listing; one with a cursor extends it.  Entries whose name
   cannot be read, and names already there, are passed over. *)
ApplyToolsList(l, tools) ==
  (IF l.cursor > 1 THEN advertised ELSE {}) \cup (tools \ {Nameless})

LastToolsPage(l) == LastPage(l)

(* The store sees the page, or only that there was one: a body over the cap is kept out of it. *)
AnswersListing(c) ==
  LET l     == listing[c]
      tools == PageOf(version, l.cursor)
      next  == [l EXCEPT !.waits = FALSE, !.cursor = @ + 1, !.tools = @ \cup (tools \ {Nameless}),
                  !.first = IF l.cursor = 1 THEN version ELSE @]
  IN  /\ l.waits
      /\ listing' = [listing EXCEPT ![c] = IF LastPage(l) THEN [NotListing EXCEPT !.tools = next.tools] ELSE next]
      /\ \/ /\ advertised' = ApplyToolsList(l, tools)
            /\ listSeen' = TRUE /\ listComplete' = LastToolsPage(l)
            /\ note' = CheckCacheScope(l)
            /\ cacheListScope' = IF LastPage(l) THEN cacheListScope
                                 ELSE [k \in DOMAIN cacheListScope \cup {CacheScopeKey(NextPage(l))} |->
                                         IF k = CacheScopeKey(NextPage(l)) THEN l.scope ELSE cacheListScope[k]]
            /\ \E ttl \in Ttls :
                 /\ cacheFresh' = IF ttl > 0 THEN [cacheFresh EXCEPT ![l.cursor] =
                                                    [at |-> listClock, ttl |-> ttl, announced |-> announced]]
                                  ELSE cacheFresh
                 /\ got' = IF ttl > 0 THEN [got EXCEPT ![l.cursor] =
                                              [at |-> listClock, ttl |-> ttl, announced |-> announced]] ELSE got
            /\ mixed' = IF l.cursor = 1 THEN \E d \in Lister \ {c} : listing[d].run # 0 /\ listing[d].cursor > 1
                        ELSE mixed \/ (\E d \in Lister \ {c} : listing[d].run # 0)
         \/ /\ note' = NoNote /\ mixed' = TRUE
            /\ UNCHANGED <<listStore, got>>
      /\ UNCHANGED <<listClock, version, announced, runs>>

-----------------------------------------------------------------------------
(* The server's list changes, and the server says so. *)

ToolsChange ==
  /\ version <= MaxChanges /\ version' = version + 1 /\ note' = NoNote
  /\ UNCHANGED <<listStore, listClock, announced, runs, listing, got, mixed>>

InvalidateCache == [p \in DOMAIN cacheFresh |-> NoEntry]

ListChanged ==
  /\ announced < version /\ announced' = version /\ note' = NoNote
  /\ cacheFresh' = InvalidateCache
  /\ UNCHANGED <<advertised, listSeen, listComplete, cacheListScope, listClock, version, runs, listing, got, mixed>>

TimePasses == listClock < MaxClock /\ listClock' = listClock + 1 /\ note' = NoNote
          /\ UNCHANGED <<listStore, version, announced, runs, listing, got, mixed>>

ListingNext ==
  \/ ToolsChange \/ ListChanged \/ TimePasses
  \/ \E c \in Lister : AsksListing(c) \/ AnswersListing(c)

ListingSpec == ListingInit /\ [][ListingNext]_listVars

-----------------------------------------------------------------------------
(* What readers get: nothing before the last page of a listing. *)

ToolDefinitions == IF listComplete THEN {advertised} ELSE {}
ToolCosts       == IF listSeen THEN {[tools |-> Cardinality(advertised), complete |-> listComplete]} ELSE {}

(* A set handed out as complete is what one listing returned, page by page: every page of it, nothing
   of an older one, with none unseen and no other listing in between (applyToolsList). *)
CompleteIsWhole ==
  ~mixed => \A tools \in ToolDefinitions :
    /\ {t[2] : t \in tools} = 1 .. Pages
    /\ \A page \in 1 .. Pages : Cardinality({t \in tools : t[2] = page}) = 1

(* The same of every listing ("A baseline may only be trusted once the whole list has been seen").
   Does not hold: see README. *)
TrustedIsWhole ==
  \A tools \in ToolDefinitions : {t[2] : t \in tools} = 1 .. Pages

(* A server that gives each listing one scope is never reported for mixing two, however many run at
   once; a re-fetch is noted only while the page last seen is fresh and nothing was announced since
   (checkCacheScopeAcrossPages, checkCacheStale). *)
CachingJudgedFairly ==
  [][/\ note' # "scope"
     /\ note' = "re-fetched" => \E c \in Lister : AsksListing(c) /\
          LET g == got[listing[c].cursor] IN g.announced = announced /\ listClock - g.at < g.ttl]_listVars

-----------------------------------------------------------------------------
(* A tool's results against the outputSchema its listing gave it
   (internal/store/outputschema.go).  The schema is compiled once, under the
   tool's name; a server may change it, and list it anew.  What a schema
   accepts is the validator library's business: a result only stands to a
   schema in one of a few ways.  schemaVersion is the truth; resultVerdict says
   of the last result whether it was reported, whether it was at fault, and
   whether the capture shows enough to tell. *)
CONSTANTS
  Tool,
  MaxVersions    \* bound: how often a tool's schema changes

VARIABLES
  schemaVersion,  \* by tool: of the schema the server has
  listed,       \* by tool: toolDefinitions, the version the newest listing gave, zero for none
  hidden,       \* by tool: whether redaction rewrote that listing
  validators,   \* by tool: the version whose schema was compiled, zero for none
  resultVerdict
resultVars == <<schemaVersion, listed, hidden, validators, resultVerdict>>

NoVerdict == [warned |-> FALSE, fault |-> FALSE, known |-> TRUE, first |-> TRUE]

ResultsInit ==
  /\ schemaVersion = [t \in Tool |-> 1] /\ listed = [t \in Tool |-> 0] /\ hidden = [t \in Tool |-> FALSE]
  /\ validators = [t \in Tool |-> 0] /\ resultVerdict = NoVerdict

(* How a result stands to the outputSchema in force: a schema may be read as 2020-12 or as draft-07,
   and one whose references loop, or that cannot be compiled, says nothing. *)
Standing == {"fits", "breaks as 2020-12", "breaks either way", "cannot be judged"}
NotListed   == 0       \* revisions
NoSchema  == 1       \* before outputSchemaFrom
NoDefault == 2       \* before defaultDialectFrom
ResultsSettled   == 3

(* Faulty variant: the reading a schema has today is the one that counts. *)
BreaksAsToday(standing, declared, revision) == standing \in {"breaks as 2020-12", "breaks either way"}

BreaksSchema(standing, declared, revision) ==
  \/ standing = "breaks either way"
  \/ standing = "breaks as 2020-12" /\ (declared \/ revision = ResultsSettled)

(* A frame whose own result is the answer, not an input request, a task or a tool error. *)
FinalToolResult(r) == r.shape = "final"

DeclaresOutputSchema(t) == listed[t] # 0

OutputValidatorFor(t) == IF validators[t] # 0 THEN validators[t] ELSE listed[t]

JudgedResult(r, t) ==
  /\ ~r.redacted /\ r.revision # NoSchema
  /\ DeclaresOutputSchema(t) /\ ~hidden[t] /\ FinalToolResult(r)

Results == [shape : {"final", "step"}, structured : BOOLEAN, redacted : BOOLEAN, declared : BOOLEAN,
            standing : Standing, revision : {NotListed, NoSchema, NoDefault, ResultsSettled}]

(* A tools/call result; against the schema of another version it breaks. *)
ToolResult(t) ==
  /\ \E r \in Results :
       LET by       == OutputValidatorFor(t)
           standing == IF by = schemaVersion[t] THEN r.standing ELSE "breaks either way"
       IN  /\ resultVerdict' = [
                warned |-> JudgedResult(r, t) /\ (~r.structured \/ BreaksSchema(standing, r.declared, r.revision)),
                fault  |-> r.shape = "final" /\
                             (~r.structured \/ r.standing = "breaks either way" \/
                               (r.standing = "breaks as 2020-12" /\ (r.declared \/ r.revision = ResultsSettled))),
                known  |-> ~r.redacted /\ ~hidden[t] /\ r.revision # NoSchema /\ listed[t] = schemaVersion[t],
                first  |-> validators[t] \in {0, listed[t]}]
           /\ validators' = IF JudgedResult(r, t) /\ r.structured THEN [validators EXCEPT ![t] = by] ELSE validators
  /\ UNCHANGED <<schemaVersion, listed, hidden>>

(* The schema changes; the tool is listed as it is, or left out of a new listing. *)
SchemaChanges(t) ==
  /\ schemaVersion[t] < MaxVersions /\ schemaVersion' = [schemaVersion EXCEPT ![t] = @ + 1]
  /\ resultVerdict' = NoVerdict /\ UNCHANGED <<listed, hidden, validators>>

Lists ==
  /\ \E tools \in SUBSET Tool, redacted \in BOOLEAN :
       /\ listed' = [t \in Tool |-> IF t \in tools THEN schemaVersion[t] ELSE 0]
       /\ hidden' = [t \in Tool |-> redacted]
  /\ resultVerdict' = NoVerdict /\ UNCHANGED <<schemaVersion, validators>>

ResultsNext == Lists \/ \E t \in Tool : SchemaChanges(t) \/ ToolResult(t)

-----------------------------------------------------------------------------
(* While a tool's definition is the one its results were first judged by, a result is reported exactly
   when it leaves out what its outputSchema promises or breaks it under every reading its revision
   leaves open (outputSchemaWarning). *)
ResultsJudgedFairly == resultVerdict.known /\ resultVerdict.first => resultVerdict.warned = resultVerdict.fault

(* The same of a tool listed anew with another schema (applyToolsList: "its response is the server's
   current tool set and supersedes what we had").  Does not hold, as the compiled schema stays:
   see README. *)
ResultsJudgedByListing == resultVerdict.known => resultVerdict.warned = resultVerdict.fault
=============================================================================
