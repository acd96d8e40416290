------------------------------ MODULE ClientProfiles ------------------------------
(***************************************************************************)
(* Package clientprofile: what each MCP client did on the wire.  Fold      *)
(* reads one captured session, Merge groups the sessions of one client.    *)
(*                                                                         *)
(* A frame is what Fold reads of it: a request of the client by method and *)
(* whether it carries its version in _meta; an answer, or the end of an    *)
(* exchange that failed; a cancellation, said or by closing the stream; a  *)
(* request of the server.  A tool call keeps its instants.                 *)
(***************************************************************************)
EXTENDS Integers, Sequences, FiniteSets, FiniteSetsExt, SequencesExt

CONSTANTS
  ClientOf,       \* the client of each session
  MaxSent,        \* bound: frames in all of them
  MaxOther        \* bound: those that are neither a tool call nor how one ended

Methods == {"initialize", "server/discover", "tools/list", "tools/call"}
Hinted  == {"reads", "deletes"}     \* tools, by the hints they declare
Captured == DOMAIN ClientOf
NoEnd   == 0

VARIABLES
  instant,   \* the clock the frames are stamped with
  captured   \* session -> [listed: the listing is complete, frames, calls]
profileVars == <<instant, captured>>

ProfilesInit ==
  /\ instant = 1
  /\ captured \in [Captured -> [listed : BOOLEAN, frames : {<<>>}, calls : {<<>>}]]

ClientRequest(method, stateless) == [kind |-> "request", method |-> method, stateless |-> stateless]
Other(kind) == [kind |-> kind]
InAll(Has(_)) == FoldFunction(+, 0, [s \in Captured |-> Cardinality({k \in DOMAIN captured[s].frames : Has(captured[s].frames[k])})])
OfCalls == {"answer", "cancelled", "closed"}
Apart(f) == f.kind \notin OfCalls /\ f # ClientRequest("tools/call", FALSE)
Happens(s, frame, calls) ==
  /\ InAll(LAMBDA f : TRUE) < MaxSent /\ (Apart(frame) => InAll(Apart) < MaxOther)
  /\ captured' = [captured EXCEPT ![s].frames = Append(@, frame), ![s].calls = calls]

Advances == instant' \in {instant, instant + 1}
Puts(s, frame) == Happens(s, frame, captured[s].calls) /\ UNCHANGED instant
Called(tool) == [tool |-> tool, start |-> instant', end |-> NoEnd, state |-> "open"]
CallsTool(s, tool) ==
  Advances /\ Happens(s, ClientRequest("tools/call", FALSE), Append(captured[s].calls, Called(tool)))
Open(s) == {i \in DOMAIN captured[s].calls : captured[s].calls[i].state = "open"}
Ended(s, i, state) == [captured[s].calls EXCEPT ![i].state = state, ![i].end = instant']

(* openCall: a request under the id of a call in flight ends that call, which no answer will find. *)
Supersedes(s, i, tool) ==
  Advances /\ Happens(s, ClientRequest("tools/call", FALSE), Append(Ended(s, i, "superseded"), Called(tool)))
Answers(s, i) == Advances /\ Happens(s, Other("answer"), Ended(s, i, "done"))
GivesUp(s, i, how) ==
  Happens(s, Other(how), [captured[s].calls EXCEPT ![i].state = "cancelled"]) /\ UNCHANGED instant

ProfilesNext ==
  \E s \in Captured :
    \/ \E method \in {"initialize", "server/discover"} : Puts(s, ClientRequest(method, FALSE))
    \/ Puts(s, ClientRequest("tools/list", TRUE)) \/ Puts(s, Other("asked"))
    \/ \E tool \in Hinted : CallsTool(s, tool)
    \/ \E i \in Open(s), tool \in Hinted : Supersedes(s, i, tool)
    \/ \E i \in Open(s) : Answers(s, i) \/ \E how \in {"cancelled", "closed"} : GivesUp(s, i, how)

-----------------------------------------------------------------------------
(* effectOf: every client reads a tool that was not listed, or says nothing, as a destructive write. *)
EffectOf(session, call) ==
  CASE ~session.listed -> "no hints"
    [] session.listed /\ call.tool = "reads" -> "read-only"
    [] OTHER -> "destructive"
Effects == {"read-only", "destructive", "no hints"}
ReadOnly(session, i) == EffectOf(session, session.calls[i]) = "read-only"

(* Every call that ended other than by the client giving up on it. *)
Measured(session) == {i \in DOMAIN session.calls : session.calls[i].state \notin {"open", "cancelled"}}

EdgeBefore(a, b) == a.at < b.at \/ (a.at = b.at /\ ~a.start /\ b.start)

(* callsAtOnce: a sweep over where calls start and end; the first count of the result is of read-only
   tools, the second of all calls while one to another tool is among them. *)
CallsAtOnce(session) ==
  LET edge(i, start) == [at |-> IF start THEN session.calls[i].start ELSE session.calls[i].end,
                         start |-> start, readOnly |-> ReadOnly(session, i), call |-> i]
      before(a, b) == EdgeBefore(a, b) \/ (~EdgeBefore(b, a) /\ a.call < b.call)
      edges == SetToSortSeq({edge(i, start) : i \in Measured(session), start \in BOOLEAN}, before)
      pass(n, e) ==
        LET step     == IF e.start THEN 1 ELSE -1
            readOnly == n.readOnly + (IF e.readOnly THEN step ELSE 0)
            others   == n.others + (IF e.readOnly THEN 0 ELSE step)
        IN  [readOnly |-> readOnly, others |-> others,
             most |-> IF e.start THEN Max({n.most, readOnly}) ELSE n.most,
             beside |-> IF e.start /\ others > 0 THEN Max({n.beside, readOnly + others}) ELSE n.beside]
      swept == FoldLeft(pass, [readOnly |-> 0, others |-> 0, most |-> 0, beside |-> 0], edges)
  IN  <<swept.most, swept.beside>>

Requests(session) == {k \in DOMAIN session.frames : session.frames[k].kind = "request"}
FirstAt(session, method) == {k \in Requests(session) : session.frames[k].method = method}
Stateless(session) == \E k \in Requests(session) : session.frames[k].stateless

(* handshake, from where each way of opening first appears. *)
Handshake(session) ==
  LET discover   == FirstAt(session, "server/discover")
      initialize == FirstAt(session, "initialize")
  IN  CASE discover # {} /\ initialize # {} ->
             IF Min(discover) < Min(initialize) THEN "server/discover, then initialize" ELSE "initialize, then server/discover"
        [] discover = {} /\ initialize # {} -> IF Stateless(session) THEN "initialize and stateless requests" ELSE "initialize"
        [] discover # {} /\ initialize = {} -> "server/discover, then stateless"
        [] OTHER -> IF Stateless(session) THEN "stateless, without server/discover" ELSE "no handshake seen"

Tally(session, kinds) == Cardinality({k \in DOMAIN session.frames : session.frames[k].kind \in kinds})
Fold(s) ==
  LET session == captured[s]
      atOnce  == CallsAtOnce(session)
  IN
  [client |-> ClientOf[s], sessions |-> 1, handshakes |-> {Handshake(session)},
   requests |-> Cardinality(Requests(session)),
   methods |-> [m \in Methods |-> Cardinality(FirstAt(session, m))],
   effects |-> [e \in Effects |-> Cardinality({i \in DOMAIN session.calls : EffectOf(session, session.calls[i]) = e})],
   serverRequests |-> Tally(session, {"asked"}),
   cancellations |-> Tally(session, {"cancelled", "closed"}), closedStreams |-> Tally(session, {"closed"}),
   atOnce |-> atOnce[1], beside |-> atOnce[2]]

(* Merge: counts add up, what is a most is the larger. *)
Added(a, b) == [k \in DOMAIN a |-> a[k] + b[k]]
Join(a, b) ==
  [client |-> a.client, sessions |-> a.sessions + b.sessions, handshakes |-> a.handshakes \cup b.handshakes,
   requests |-> a.requests + b.requests, methods |-> Added(a.methods, b.methods), effects |-> Added(a.effects, b.effects),
   serverRequests |-> a.serverRequests + b.serverRequests, cancellations |-> a.cancellations + b.cancellations,
   closedStreams |-> a.closedStreams + b.closedStreams, atOnce |-> Max({a.atOnce, b.atOnce}), beside |-> Max({a.beside, b.beside})]
Merge(in) ==
  FoldLeft(LAMBDA out, p : IF \E k \in DOMAIN out : out[k].client = p.client
                           THEN [k \in DOMAIN out |-> IF out[k].client = p.client THEN Join(out[k], p) ELSE out[k]]
                           ELSE Append(out, p), <<>>, in)

(* clientsCmd: sessions in which the client sent nothing say nothing about it. *)
Profiles(order) ==
  Merge(SelectSeq([k \in DOMAIN order |-> Fold(order[k])], LAMBDA p : p.requests > 0))

-----------------------------------------------------------------------------
Together(c, d) == c.start < d.end /\ d.start < c.end
(* Of these calls, those of which any two were in flight at one time. *)
Abreast(session, calls) ==
  LET long == {i \in calls : session.calls[i].start < session.calls[i].end}
  IN  {group \in SUBSET long : \A i, j \in group : Together(session.calls[i], session.calls[j])}
MostOf(groups) == Max({Cardinality(g) : g \in groups} \cup {0})

AtOnceAmong(session, calls) ==
  LET alone(group) == \A i \in group : ReadOnly(session, i)
      groups == Abreast(session, calls)
  IN  <<MostOf({g \in groups : alone(g)}), MostOf({g \in groups : ~alone(g)})>>

(* A client is reported to have run side by side as many calls it did not give up on as there are that
   were in flight two by two, read-only ones by themselves and others with whatever they ran beside (a
   call that another superseded was in flight until then), and its profile does not depend on the order
   its sessions were read in (callsAtOnce, Merge). *)
ProfilesExact ==
  /\ \A s \in Captured :
       LET session == captured[s]
       IN  /\ CallsAtOnce(session) = AtOnceAmong(session, Measured(session))
           /\ LET profile == Fold(s) IN FoldFunction(+, 0, profile.effects) = profile.methods["tools/call"]
  /\ LET order == SetToSeq(Captured)
     IN  ToSet(Profiles(order)) = ToSet(Profiles(Reverse(order)))

(* Does not hold: see README.  "Only calls the server answered are measured" (callsAtOnce). *)
OnlyAnsweredMeasured ==
  \A s \in Captured :
    LET answered == {i \in DOMAIN captured[s].calls : captured[s].calls[i].state = "done"}
    IN  CallsAtOnce(captured[s]) = AtOnceAmong(captured[s], answered)
=============================================================================
