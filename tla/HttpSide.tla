---------------------------------- MODULE HttpSide ----------------------------------
(***************************************************************************)
(* A session replay over HTTP (internal/replay/session_http.go): frames    *)
(* posted by goroutines of their own, the session and revision they carry, *)
(* answer streams that are closed to cancel, and how it all starts and     *)
(* stops, with the server it started or one that runs already.             *)
(*                                                                         *)
(* The engine's order is ReplayEngine's business; here a frame waits for   *)
(* what Waits names.  A revision is "" when nobody said one.               *)
(***************************************************************************)
EXTENDS Integers, Sequences, SequencesExt, FiniteSets

CONSTANT Scripts    \* client frames of recordings, whether they had a GET stream, and
                    \* whether the server may stop

VARIABLES
  side,     \* httpSide: where it is, sessionID, version, listening, streams; whether it never started
  posts,    \* the POSTs, and the GET, in the order they began
  eng,      \* the engine: next frame, inflight, answered, closed, missing, negotiated
  host      \* the server: started by the replay, up, listening, its session

sideVars == <<side, posts, eng, host>>

(* A frame the client sent; recorded: the recording holds an answer to it (slot.recorded). *)
ClientFrames == [k : STRING \ {"listen"}, id : Nat, version : STRING, modern : BOOLEAN, recorded : BOOLEAN,
                 waits : SUBSET Nat]
WithAnswer(frames) == {f.id : f \in {g \in ToSet(frames) : g.k = "request" /\ g.recorded}}

(* A client gives each request an id of its own, as MCP requires; 0 is the mark of a note here.  A frame
   waits for what the recording has. *)
ASSUME SideAssumption ==
  \A script \in Scripts :
    /\ script \in [frames : Seq(ClientFrames), listens : BOOLEAN, exits : BOOLEAN]
    /\ \A i, j \in {n \in DOMAIN script.frames : script.frames[n].k = "request"} :
         script.frames[i].id # 0 /\ (script.frames[i].id = script.frames[j].id => i = j)
    /\ \A i \in DOMAIN script.frames : script.frames[i].waits \subseteq WithAnswer(script.frames)

NoSession == 0
Frames == side.script.frames
Item   == Frames[eng.next]

SideInit ==
  /\ \E script \in Scripts : side = [script |-> script, doing |-> "start", sessionID |-> NoSession, version |-> "",
                                     listening |-> FALSE, streams |-> {}, holding |-> FALSE, aborted |-> FALSE]
  /\ posts = <<>>
  /\ eng = [next |-> 1, inflight |-> {}, answered |-> {}, closed |-> {}, waited |-> {}, missing |-> <<>>,
            negotiated |-> ""]
  /\ \E own \in BOOLEAN : host = [own |-> own, up |-> TRUE, listens |-> FALSE, session |-> NoSession, ended |-> {}]

Doing(what) == side.doing = what
Goes(what)  == side' = [side EXCEPT !.doing = what]
Expected == WithAnswer(Frames)
Owed == eng.inflight \ eng.waited

-----------------------------------------------------------------------------
(* startServer, waitListening. *)
StartsSide ==
  /\ Doing("start") /\ host.up /\ host.listens
  /\ Goes("run") /\ UNCHANGED <<posts, eng, host>>

(* The server listens, the proxy in front of it cannot: startHTTP returns without stopServer, and the
   command's context is cancelled by ReplaySession as it returns, which waits for nothing (Interrupted). *)
StartFails ==
  /\ Doing("start") /\ host.up /\ host.listens
  /\ side' = [side EXCEPT !.doing = "over", !.aborted = TRUE] /\ UNCHANGED <<posts, eng, host>>

NothingListens ==
  /\ Doing("start") /\ ~(host.up /\ host.listens)
  /\ Goes("stopServer") /\ UNCHANGED <<posts, eng, host>>

-----------------------------------------------------------------------------
(* send. *)
Post(frame) == [frame |-> frame, at |-> "new", session |-> NoSession, version |-> "", status |-> "", closed |-> FALSE,
                due |-> FALSE]

Ready == Doing("run") /\ eng.next <= Len(Frames) /\ ~side.holding /\ Item.waits \cap Owed = {}

(* await's deadline: what was waited for is missing, though it stays in flight. *)
GivesUpWaiting ==
  /\ Doing("run") /\ eng.next <= Len(Frames) /\ ~side.holding
  /\ \E id \in Item.waits \cap Owed :
       eng' = [eng EXCEPT !.waited = @ \cup {id}, !.missing = Append(@, id)]
  /\ UNCHANGED <<side, posts, host>>

(* A request has a goroutine, and the next frame does not wait for it. *)
SendsRequest ==
  /\ Ready /\ Item.k = "request"
  /\ side' = [side EXCEPT !.streams = @ \cup {Item.id}]
  /\ posts' = Append(posts, Post(Item))
  /\ eng' = [eng EXCEPT !.next = @ + 1, !.inflight = @ \cup {Item.id}]
  /\ UNCHANGED host

(* closeStream and cancel: the stream is closed and what it carried is settled. *)
IsModern(id) == \E i \in DOMAIN Frames : Frames[i].id = id /\ Frames[i].k = "request" /\ Frames[i].modern
ClosesAnswer == Item.k = "left" \/ (Item.k = "cancel" /\ IsModern(Item.id))

CancelsByClosing ==
  /\ Ready /\ ClosesAnswer /\ Item.id \in eng.inflight
  /\ posts' = [p \in DOMAIN posts |->
                 IF posts[p].frame.k = "request" /\ posts[p].frame.id = Item.id
                 THEN [posts[p] EXCEPT !.closed = TRUE] ELSE posts[p]]
  /\ eng' = [eng EXCEPT !.next = @ + 1, !.inflight = @ \ {Item.id}, !.closed = @ \cup {Item.id}]
  /\ UNCHANGED <<side, host>>

(* cancelStillMeant: what was answered is not cancelled. *)
NoLongerMeant ==
  /\ Ready /\ Item.k \in {"left", "cancel"} /\ Item.id \notin eng.inflight
  /\ eng' = [eng EXCEPT !.next = @ + 1] /\ UNCHANGED <<side, posts, host>>

(* Anything else is posted and waited for. *)
SendsNote ==
  /\ Ready /\ Item.k # "request" /\ ~ClosesAnswer /\ (Item.k = "cancel" => Item.id \in eng.inflight)
  /\ posts' = Append(posts, Post(Item))
  /\ side' = [side EXCEPT !.holding = TRUE]
  /\ UNCHANGED <<eng, host>>

(* openListen, once, after the note that ends the handshake was taken. *)
NoteTaken ==
  /\ Doing("run") /\ side.holding
  /\ \A p \in DOMAIN posts : posts[p].frame.k \notin {"request", "listen"} => posts[p].at = "done"
  /\ LET opens == Item.k = "initialized" /\ side.script.listens /\ ~side.listening
     IN  /\ side' = [side EXCEPT !.holding = FALSE, !.listening = @ \/ opens]
         /\ posts' = IF opens THEN Append(posts, Post([k |-> "listen", id |-> 0, version |-> "", modern |-> FALSE,
                                                       recorded |-> FALSE, waits |-> {}]))
                     ELSE posts
  /\ eng' = [eng EXCEPT !.next = @ + 1] /\ UNCHANGED host

(* run is over when every frame went out, or the server it started stopped, and every answer the recording
   has came or was waited for long enough; one that it has not is not waited for. *)
Stopped == Ready /\ host.own /\ ~host.up
WaitsForLast ==
  /\ Doing("run") /\ (eng.next > Len(Frames) \/ Stopped)
  /\ LET late == Owed \cap Expected
     IN  eng' = [eng EXCEPT !.missing = @ \o SetToSeq(late), !.waited = @ \cup late]
  /\ Goes("stop") /\ UNCHANGED <<posts, host>>

-----------------------------------------------------------------------------
(* post, in its goroutine. *)
Moves(p, at) == posts' = [posts EXCEPT ![p].at = at]
Ids(p) == IF posts[p].frame.k = "request" THEN {posts[p].frame.id} ELSE {}

(* requestHeaders: the revision the frame names, else the last one sent, else what was negotiated. *)
Declares(f) == IF f.version # "" THEN f.version ELSE IF f.modern THEN "2026" ELSE ""
Initializes(f) == f.k = "request" /\ f.id = 1 /\ ~f.modern
VersionFor(f) ==
  IF f.k = "listen" THEN side.version
  ELSE IF Declares(f) # "" THEN Declares(f)
  ELSE IF side.version = "" /\ ~Initializes(f) THEN eng.negotiated ELSE side.version

SetsHeaders(p) ==
  /\ posts[p].at = "new"
  /\ LET f == posts[p].frame
     IN  /\ posts' = [posts EXCEPT ![p].at = "sent", ![p].version = VersionFor(f),
                                   ![p].session = IF Initializes(f) THEN NoSession ELSE side.sessionID,
                                   ![p].due = 1 \in eng.answered]
         /\ side' = [side EXCEPT !.version = VersionFor(f)]
  /\ UNCHANGED <<eng, host>>

(* giveUp: what is in flight is settled and missing; so is a note. *)
GiveUp(p) ==
  LET settled == Ids(p) \cap eng.inflight
  IN  eng' = IF settled = {} /\ Ids(p) # {} THEN eng
             ELSE [eng EXCEPT !.inflight = @ \ settled,
                              !.missing = Append(@, IF settled = {} THEN 0 ELSE CHOOSE id \in settled : TRUE)]

(* A stream the replay closed, or the end of the session, is not a POST that failed. *)
PostFailsOn(p) ==
  /\ posts[p].at = "sent" /\ (posts[p].closed \/ ~host.up)
  /\ IF posts[p].closed \/ posts[p].frame.k = "listen" THEN UNCHANGED eng ELSE GiveUp(p)
  /\ Moves(p, "done") /\ UNCHANGED <<side, host>>

(* The server's status and session, kept before anything of the body is read. *)
Responds(p) ==
  /\ posts[p].at = "sent" /\ ~posts[p].closed /\ host.up
  /\ \E status \in {"ok", "refused"} :
       LET assigns == Initializes(posts[p].frame) /\ status = "ok"
       IN  /\ posts' = [posts EXCEPT ![p].at = "open", ![p].status = status]
           /\ host' = IF assigns THEN [host EXCEPT !.session = @ + 1] ELSE host
           /\ side' = IF assigns THEN [side EXCEPT !.sessionID = host.session + 1] ELSE side
  /\ UNCHANGED eng

(* receive: the answer, once; a closed stream carries none. *)
Delivers(p) ==
  /\ posts[p].at = "open" /\ posts[p].frame.k = "request" /\ ~posts[p].closed /\ host.up
  /\ LET id == posts[p].frame.id
     IN  eng' = [eng EXCEPT !.inflight = @ \ {id},
                            !.answered = IF id \in eng.inflight THEN @ \cup {id} ELSE @,
                            !.negotiated = IF Initializes(posts[p].frame) /\ id \in eng.inflight /\ posts[p].status = "ok"
                                           THEN "2025" ELSE @]
  /\ Moves(p, "answered") /\ UNCHANGED <<side, host>>

(* The body ends, or is broken off. *)
PostEnds(p) ==
  /\ posts[p].at \in {"open", "answered"}
  /\ IF posts[p].status = "refused" /\ posts[p].at = "open" /\ posts[p].frame.k # "listen"
     THEN GiveUp(p) ELSE UNCHANGED eng
  /\ Moves(p, "done") /\ UNCHANGED <<side, host>>

-----------------------------------------------------------------------------
(* What startHTTP returns: the streams end, their goroutines are waited for, a session is deleted, and
   a server started here is stopped, by an interrupt or a kill. *)
StopsStreams ==
  /\ Doing("stop")
  /\ posts' = [p \in DOMAIN posts |-> [posts[p] EXCEPT !.closed = TRUE]]
  /\ Goes("join") /\ UNCHANGED <<eng, host>>

StreamsJoined ==
  /\ Doing("join") /\ \A p \in DOMAIN posts : posts[p].at = "done"
  /\ Goes("delete") /\ UNCHANGED <<posts, eng, host>>

EndsSession ==
  /\ Doing("delete")
  /\ host' = IF side.sessionID # NoSession /\ host.up THEN [host EXCEPT !.ended = @ \cup {side.sessionID}] ELSE host
  /\ Goes("stopServer") /\ UNCHANGED <<posts, eng>>

StopsServer ==
  /\ Doing("stopServer")
  /\ host' = IF host.own THEN [host EXCEPT !.up = FALSE] ELSE host
  /\ Goes("over") /\ UNCHANGED <<posts, eng>>

-----------------------------------------------------------------------------
HostListens == Doing("start") /\ host.up /\ ~host.listens /\ host' = [host EXCEPT !.listens = TRUE] /\ UNCHANGED <<side, posts, eng>>
HostExits   == side.script.exits /\ host.up /\ host' = [host EXCEPT !.up = FALSE] /\ UNCHANGED <<side, posts, eng>>
Interrupted == side.aborted /\ host.own /\ host.up /\ host' = [host EXCEPT !.up = FALSE] /\ UNCHANGED <<side, posts, eng>>

ReplaySide ==
  \/ StartsSide \/ StartFails \/ NothingListens \/ GivesUpWaiting \/ SendsRequest \/ CancelsByClosing \/ NoLongerMeant
  \/ SendsNote \/ NoteTaken \/ WaitsForLast
  \/ StopsStreams \/ StreamsJoined \/ EndsSession \/ StopsServer
  \/ \E p \in DOMAIN posts : SetsHeaders(p) \/ PostFailsOn(p)

(* The server: it answers, refuses, breaks off or leaves a stream open. *)
HostNext ==
  \/ \E p \in DOMAIN posts : Responds(p) \/ Delivers(p) \/ PostEnds(p)
  \/ HostListens \/ HostExits \/ Interrupted

SideNext == ReplaySide \/ HostNext

SideSpec == SideInit /\ [][SideNext]_sideVars

(* A stream the replay closed comes to an end; and so does what carries a note. *)
BrokenOff == \E p \in DOMAIN posts : posts[p].closed /\ PostEnds(p)
NoteEnds  == \E p \in DOMAIN posts : posts[p].frame.k \notin {"request", "listen"} /\ (Responds(p) \/ PostEnds(p))

-----------------------------------------------------------------------------
(* What is sent after the handshake was answered carries the session this server assigned, and but for
   the GET a revision, though every POST is a goroutine of its own (post, requestHeaders). *)
SessionKept ==
  \A p \in DOMAIN posts : posts[p].due /\ ~Initializes(posts[p].frame) =>
    /\ posts[p].session = host.session
    /\ host.session # NoSession /\ posts[p].frame.k # "listen" => posts[p].version # ""

(* A call is missing that was waited for in vain or whose POST failed, once each; one that was answered
   in time or that the replay closed is not.  Only what the recording has an answer to is waited for, and
   of those that went out each is accounted for at the end; any other request is missing only because its
   POST came to nothing, and may be left open (await, giveUp, closed, run). *)
SettledOnce ==
  LET missing == ToSet(eng.missing) \ {0}
      settled == missing \cup eng.answered \cup eng.closed
      requests == {p \in DOMAIN posts : posts[p].frame.k = "request"}
      sent == {posts[p].frame.id : p \in requests}
  IN  /\ missing \cap (eng.answered \cup eng.closed) \subseteq eng.waited
      /\ eng.answered \cap eng.closed = {}
      /\ \A id \in missing \ eng.waited : Cardinality({i \in DOMAIN eng.missing : eng.missing[i] = id}) = 1
      /\ eng.waited \subseteq missing \cap Expected
      /\ \A p \in requests : posts[p].frame.id \in missing \ eng.waited => posts[p].at = "done"
      /\ settled \subseteq sent
      /\ Doing("over") => sent \cap Expected \subseteq settled

(* A replay leaves nothing behind: no stream, no session on a server that still runs, and no server it
   started, but for one it could not put its proxy in front of (startHTTP, StartFails). *)
LeavesNothing ==
  /\ Doing("over") => /\ \A p \in DOMAIN posts : posts[p].at = "done"
                      /\ host.own => ~host.up \/ side.aborted
  /\ Doing("stopServer") /\ host.up /\ host.session # NoSession => host.session \in host.ended
=============================================================================
