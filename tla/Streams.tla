--------------------------------- MODULE Streams ---------------------------------
(***************************************************************************)
(* What Ingest judges by more than one frame: progress tokens, listen      *)
(* streams, negotiated extensions, the directions 2026-07-28 removed and   *)
(* the input a server may ask for (internal/store/conformance.go,          *)
(* extensions.go, the capabilities of store.go).                           *)
(*                                                                         *)
(* Every client has its own connection and its own revision, which the     *)
(* header of its requests names, as behind the HTTP proxy; one at a time   *)
(* it has a call and a listen stream. Peers may break the rules:           *)
(* streamVerdict says whether the last frame was reported, whether it      *)
(* broke a rule of its own exchange, and whether the capture shows enough  *)
(* to tell. call and listen are that truth; of them the store has what it  *)
(* keeps on the call a frame is matched to.                                *)
(***************************************************************************)
EXTENDS Integers, FiniteSets, Functions

CONSTANTS
  Client,
  Token,          \* progress tokens, which a client may spend again
  MaxIds,         \* bound: requests of a client; ids count up from one, as the SDKs' do
  MaxProgress     \* bound: progress values

Legacy == 3     \* 2025-11-25
Modern == 4     \* 2026-07-28
Unseen == "unseen"

VARIABLES
  progress,        \* by token: the last value, and whether its request is done
  subscriptions,   \* by request id: the filter, and whether it was acknowledged
  caps,            \* what the session shows of either side, the last to say so
  stateless,       \* sess.stateless
  rev, declares,   \* by client: its revision, and the capabilities it declares
  offers,          \* the extensions the server advertises
  ids,             \* by client: requests so far
  call, listen,    \* by client: its call and its stream
  streamVerdict

seenVars   == <<progress, subscriptions, caps, stateless>>
peerVars   == <<rev, declares, offers>>
streamVars == <<seenVars, peerVars, ids, call, listen, streamVerdict>>

NoToken  == "no token"
NoCall   == [state |-> "none", id |-> 0, method |-> "", token |-> NoToken, noted |-> NoToken, at |-> 0, known |-> TRUE]
NoListen == [state |-> "none", id |-> 0, filter |-> {}, acknowledged |-> FALSE]
Quiet    == [warned |-> FALSE, fault |-> FALSE, known |-> TRUE]

StreamsInit ==
  /\ progress = [t \in {} |-> 0] /\ subscriptions = [i \in {} |-> 0]
  /\ caps = [client |-> {Unseen}, server |-> {Unseen}, version |-> 0] /\ stateless = FALSE
  /\ rev \in [Client -> {Legacy, Modern}]
  /\ declares \in [Client -> SUBSET {"elicitation", "tasks"}] /\ offers \in SUBSET {"tasks"}
  /\ ids = [c \in Client |-> 0] /\ call = [c \in Client |-> NoCall] /\ listen = [c \in Client |-> NoListen]
  /\ streamVerdict = Quiet

Judged(warned, fault, known) == streamVerdict' = [warned |-> warned, fault |-> fault, known |-> known]

-----------------------------------------------------------------------------
(* Capabilities and extensions. *)

(* Every request of a stateless client repeats its version and capabilities. *)
ApplyRequestMeta(c) ==
  IF rev[c] = Modern THEN [caps EXCEPT !.client = declares[c], !.version = Modern] ELSE caps

ValueOrDefault(primary, fallback) == IF primary # 0 THEN primary ELSE fallback

(* advertises is three-valued: a declaration nobody saw is no evidence of absence. *)
NotGiven(side, extension) == Unseen \notin side /\ extension \notin side

UnnegotiatedTasks(fromClient, version) ==
  /\ ValueOrDefault(version, caps.version) >= Modern
  /\ NotGiven(IF fromClient THEN caps.server ELSE caps.client, "tasks")

(* A legacy client's handshake, or a modern one's server/discover, answered. *)
Introduces(c) ==
  /\ ids[c] = 0 /\ ids' = [ids EXCEPT ![c] = 1]
  /\ IF rev[c] = Modern
     THEN /\ caps' = [ApplyRequestMeta(c) EXCEPT !.server = offers]
          /\ stateless' = TRUE
     ELSE /\ caps' = [client |-> declares[c], server |-> offers, version |-> Legacy]
          /\ UNCHANGED stateless
  /\ streamVerdict' = Quiet
  /\ UNCHANGED <<progress, subscriptions, peerVars, call, listen>>

-----------------------------------------------------------------------------
(* Calls and their progress. *)

(* A fresh request reopens its token. *)
NoteProgressToken(token) == [t \in DOMAIN progress \ {token} |-> progress[t]]

CloseProgressToken(token) ==
  IF token = NoToken THEN progress
  ELSE [t \in DOMAIN progress \cup {token} |->
          IF t # token THEN progress[t]
          ELSE [value |-> IF t \in DOMAIN progress THEN progress[t].value ELSE 0, done |-> TRUE]]

ProgressWarning(token, value) ==
  token \in DOMAIN progress /\ (progress[token].done \/ value <= progress[token].value)

NoteProgress(token, value) ==
  [t \in DOMAIN progress \cup {token} |->
     IF t # token THEN progress[t]
     ELSE [value |-> value, done |-> t \in DOMAIN progress /\ progress[t].done]]

TaskMethod(m) == m \in {"tasks/get", "tasks/update", "tasks/cancel"}

Calls(c) ==
  /\ call[c].state \in {"none", "done", "unjudged"} /\ ids[c] < MaxIds
  /\ \E method \in {"tools/call", "resources/list", "tasks/get"}, token \in Token \cup {NoToken} :
       /\ call' = [call EXCEPT ![c] = [NoCall EXCEPT !.state = "open", !.id = ids[c] + 1, !.method = method,
                                         !.token = token, !.noted = token]]
       /\ progress' = NoteProgressToken(token)
       /\ Judged(TaskMethod(method) /\ UnnegotiatedTasks(TRUE, rev[c]),
                 TaskMethod(method) /\ rev[c] = Modern /\ "tasks" \notin offers, Unseen \notin caps.server)
  /\ ids' = [ids EXCEPT ![c] = @ + 1]
  /\ caps' = ApplyRequestMeta(c) /\ stateless' = (stateless \/ rev[c] = Modern)
  /\ UNCHANGED <<subscriptions, peerVars, listen>>

(* Progress for the call, or one more after it. *)
Progresses(c) ==
  LET k == call[c] IN
  /\ k.state \in {"open", "done"} /\ k.token # NoToken
  /\ \E value \in 1 .. MaxProgress :
       /\ Judged(ProgressWarning(k.token, value), k.state = "done" \/ value <= k.at, k.known)
       /\ progress' = NoteProgress(k.token, value)
       /\ call' = [call EXCEPT ![c].at = value]
  /\ UNCHANGED <<subscriptions, caps, stateless, peerVars, ids, listen>>

CompletesRequest(c) ==
  /\ call[c].state = "open"
  /\ call' = [call EXCEPT ![c].state = "done"]
  /\ progress' = CloseProgressToken(call[c].noted)
  /\ streamVerdict' = Quiet
  /\ UNCHANGED <<subscriptions, caps, stateless, peerVars, ids, listen>>

(* The server hands a task out instead; its progress goes on for as long as the task does. *)
HandsTaskOver(c) ==
  /\ call[c].state = "open"
  /\ call' = [call EXCEPT ![c].state = "unjudged"]
  /\ Judged(UnnegotiatedTasks(FALSE, 0), rev[c] = Modern /\ "tasks" \notin declares[c], TRUE)
  /\ UNCHANGED <<seenVars, peerVars, ids, listen>>

-----------------------------------------------------------------------------
(* What an InputRequiredResult may ask for. *)

InputRequestMethods == {"elicitation/create", "sampling/createMessage", "roots/list"}
Needs == [m \in InputRequestMethods |->
            CASE m = "elicitation/create" -> "elicitation" [] m = "roots/list" -> "roots" [] OTHER -> "sampling"]
Blanked == "[REDACTED]"

(* Read from the request itself, never from what the session accumulated. *)
DeclaredClientCapabilities(c) == declares[c]

InputRequiredWarning(c, methods, hasState, redacted) ==
  \/ call[c].method # "tools/call"
  \/ methods = {} /\ ~hasState
  \/ \E m \in methods : m \notin InputRequestMethods /\ ~(redacted /\ m = Blanked)
  \/ \E m \in methods \cap InputRequestMethods : Needs[m] \notin DeclaredClientCapabilities(c)

AsksFor(c) ==
  /\ call[c].state = "open" /\ rev[c] = Modern
  /\ \E asked \in SUBSET {"elicitation/create", "sampling/createMessage", "made/up"},
        hasState, redacts \in BOOLEAN :
       LET shown == IF redacts THEN {IF m = "made/up" THEN Blanked ELSE m : m \in asked} ELSE asked
       IN  Judged(InputRequiredWarning(c, shown, hasState, redacts),
                  \/ call[c].method # "tools/call"
                  \/ asked = {} /\ ~hasState
                  \/ \E m \in asked : m = "made/up" \/ Needs[m] \notin declares[c],
                  ~redacts)
  /\ call' = [call EXCEPT ![c].state = "parked"]
  /\ UNCHANGED <<seenVars, peerVars, ids, listen>>

(* The retry is a request of its own, with a token of its own; the store goes by the first one's. *)
RetriesRequest(c) ==
  /\ call[c].state = "parked" /\ ids[c] < MaxIds
  /\ \E token \in Token \cup {NoToken} :
       call' = [call EXCEPT ![c].state = "open", ![c].id = ids[c] + 1, ![c].token = token, ![c].at = 0,
                            ![c].known = FALSE]
  /\ ids' = [ids EXCEPT ![c] = @ + 1] /\ streamVerdict' = Quiet
  /\ UNCHANGED <<seenVars, peerVars, listen>>

-----------------------------------------------------------------------------
(* Listen streams. *)

(* What a filter can name; asked for is one of them or none, for they are judged alike. *)
Kinds == {"tools", "resources"}

Listens(c) ==
  /\ rev[c] = Modern /\ listen[c].state # "open" /\ ids[c] < MaxIds
  /\ \E filter \in {{}, {"tools"}} :
       /\ listen' = [listen EXCEPT ![c] = [state |-> "open", id |-> ids[c] + 1, filter |-> filter, acknowledged |-> FALSE]]
       /\ subscriptions' = [i \in DOMAIN subscriptions \cup {ids[c] + 1} |->   \* noteSubscription
            IF i = ids[c] + 1 THEN [filter |-> filter, acknowledged |-> FALSE] ELSE subscriptions[i]]
  /\ ids' = [ids EXCEPT ![c] = @ + 1] /\ caps' = ApplyRequestMeta(c) /\ stateless' = TRUE /\ streamVerdict' = Quiet
  /\ UNCHANGED <<progress, peerVars, call>>

Acknowledged(id) ==
  IF id \in DOMAIN subscriptions THEN [subscriptions EXCEPT ![id].acknowledged = TRUE] ELSE subscriptions

Acknowledges(c) ==
  /\ listen[c].state = "open" /\ ~listen[c].acknowledged
  /\ listen' = [listen EXCEPT ![c].acknowledged = TRUE]
  /\ subscriptions' = Acknowledged(listen[c].id) /\ streamVerdict' = Quiet
  /\ UNCHANGED <<progress, caps, stateless, peerVars, ids, call>>

SubscriptionWarning(id, kind) ==
  /\ DOMAIN subscriptions # {}
  /\ \/ id = 0
     \/ /\ id \in DOMAIN subscriptions
        /\ ~subscriptions[id].acknowledged \/ kind \notin subscriptions[id].filter

(* A change announced to a client: on its stream, or, as a legacy server does, on none. *)
Announces(c) ==
  /\ \E kind \in Kinds, id \in {0, listen[c].id} :
       /\ id # 0 => listen[c].state = "open"
       /\ id = 0 => ids[c] > 0
       /\ Judged(SubscriptionWarning(id, kind),
                 rev[c] = Modern /\ (id = 0 \/ ~listen[c].acknowledged \/ kind \notin listen[c].filter),
                 listen[c].state # "none")
  /\ UNCHANGED <<seenVars, peerVars, ids, call, listen>>

-----------------------------------------------------------------------------
(* What 2026-07-28 took away. *)

ServerCancelWarning(c, method) == rev[c] >= Modern /\ method # "subscriptions/listen"

ServerCancels(c) ==
  \/ /\ call[c].state = "open"
     /\ call' = [call EXCEPT ![c].state = "unjudged"]
     /\ Judged(ServerCancelWarning(c, call[c].method), rev[c] = Modern, TRUE)
     /\ UNCHANGED <<seenVars, peerVars, ids, listen>>
  \/ /\ listen[c].state = "open"
     /\ listen' = [listen EXCEPT ![c].state = "over"]
     /\ Judged(ServerCancelWarning(c, "subscriptions/listen"), FALSE, TRUE)
     /\ UNCHANGED <<seenVars, peerVars, ids, call>>

WrongDirectionWarning == stateless

(* A request of the server, or its client's answer to one. *)
Backwards(c) ==
  /\ ids[c] > 0
  /\ Judged(WrongDirectionWarning, rev[c] = Modern, TRUE)
  /\ UNCHANGED <<seenVars, peerVars, ids, call, listen>>

StreamsNext ==
  \E c \in Client :
    \/ Introduces(c) \/ Calls(c) \/ Progresses(c) \/ CompletesRequest(c) \/ HandsTaskOver(c)
    \/ AsksFor(c) \/ RetriesRequest(c) \/ Listens(c) \/ Acknowledges(c) \/ Announces(c)
    \/ ServerCancels(c) \/ Backwards(c)

-----------------------------------------------------------------------------
(* Of one client on its own, exactly the frames that break a rule are reported, wherever the capture
   shows what it takes to tell (progressWarning, subscriptionWarnings, unnegotiatedTasksWarning,
   inputRequiredWarnings, serverCancelWarning, wrongDirectionWarning). *)
JudgedFairly == streamVerdict.known => streamVerdict.warned = streamVerdict.fault

(* Nobody is reported for what its own exchange allows, whoever else shares the session ("a connection
   is not a session and two clients may interleave").  Does not hold: see README. *)
NobodyAccused == streamVerdict.warned => streamVerdict.fault
=============================================================================
