--------------------------------- MODULE MCReplay ---------------------------------
(* Session replays of small recordings, each against a server that may     *)
(* answer late, reorder, refuse, ask and exit, or against the mock server; *)
(* the HTTP side of one, with its goroutines; and a single call replayed.  *)
(* area says which of the three a behaviour is about.                      *)
EXTENDS ReplayEngine, OneShot, HttpSide

VARIABLE area

Replay(frames) == [frames |-> frames, skip |-> {}, readOnly |-> FALSE, http |-> FALSE,
                   mock |-> FALSE, asks |-> 0, exits |-> FALSE]
Hello == <<Out(<<Request(1, "initialize")>>), In(<<Answer(1, None)>>)>>
Modern26(m)  == [m EXCEPT !.modern = TRUE]
On(e, f)     == [f EXCEPT !.exch = e]
Left(e)      == Frame("out", e, "left", <<>>)
Cut          == Frame("out", 0, "cut", <<>>)

MCScene == <<
  \* two calls at once, answered in turn, and one that sends a value back
  [Replay(Hello \o <<Out(<<Note>>), Out(<<Call(2, "create", None)>>), Out(<<Call(3, "create", None)>>),
          In(<<Answer(3, 7)>>), In(<<Answer(2, 6)>>), Out(<<Call(4, "use", 6)>>), In(<<Answer(4, None)>>)>>)
     EXCEPT !.exits = TRUE],
  \* a request of the server, its answer recorded early, a ping
  [Replay(<<Out(<<Call(2, "ask", None)>>), Out(<<Answer(7, None)>>), In(<<Request(7, "sampling")>>),
          In(<<Request(8, "ping")>>), Out(<<Answer(8, None)>>), In(<<Answer(2, 6)>>),
          In(<<Request(7, "sampling")>>), Out(<<Answer(7, None)>>)>>)
     EXCEPT !.asks = 3],
  \* the same over HTTP, where a cancellation closes a stream
  [Replay(<<On(1, Out(<<Modern26(Call(2, "slow", None))>>)), On(2, Out(<<Call(3, "slow", None)>>)),
          Out(<<Cancel(2)>>), Left(2), In(<<Request(7, "sampling")>>), Out(<<Answer(7, None)>>), Left(9)>>)
     EXCEPT !.asks = 2, !.http = TRUE],
  [Replay(<<On(1, Out(<<Modern26(Call(2, "slow", None))>>)), On(2, Out(<<Call(3, "slow", None)>>)),
          Out(<<Cancel(3)>>), Left(1), Left(2)>>) EXCEPT !.exits = TRUE],
  \* a skipped tool, the task it handed out, and a batch
  [Replay(<<Out(<<Call(2, "list", None)>>), Out(<<Call(3, "write", None)>>), In(<<HandsOut(3, 6)>>),
          Out(<<TaskRequest(4, 6)>>), In(<<Answer(2, 8)>>), Cut, Out(<<Call(5, "list", 8), Note>>),
          In(<<Answer(5, None)>>)>>)
     EXCEPT !.skip = {"write"}, !.http = TRUE],
  \* only the tools listed as read-only, the batch of a skipped one with it
  [Replay(<<Out(<<Request(1, "tools/list")>>), In(<<Listing(1, {"list"})>>),
          Out(<<Call(2, "list", None), Call(3, "write", None)>>), In(<<Answer(2, 6)>>), In(<<Answer(3, 7)>>),
          Out(<<Call(4, "list", None), Cancel(4)>>), Out(<<Cancel(3)>>)>>)
     EXCEPT !.readOnly = TRUE],
  \* the mock server of the recording, two like calls and a note
  [Replay(Hello \o <<Out(<<Note>>), Out(<<Call(2, "create", None)>>), In(<<Answer(2, 6)>>),
          Out(<<Call(3, "use", 6)>>), Out(<<Call(4, "create", None)>>), In(<<Answer(4, 7)>>),
          In(<<Answer(3, 5)>>), Out(<<Call(5, "use", 7)>>)>>)
     EXCEPT !.mock = TRUE] >>

Client(k, id, modern, version, waits) ==
  [k |-> k, id |-> id, modern |-> modern, version |-> version, recorded |-> k = "request", waits |-> waits]
Old(id) == Client("request", id, FALSE, "", {})
New(id) == Client("request", id, TRUE, "", {})
Lost(f) == [f EXCEPT !.recorded = FALSE]    \* the recording has no answer to it
Script(frames, listens, exits) == [frames |-> frames, listens |-> listens, exits |-> exits]
MCScripts == {
  Script(<<Old(1), Client("initialized", 0, FALSE, "", {1}), Old(2)>>, TRUE, FALSE),
  Script(<<Old(2), Client("cancel", 2, FALSE, "2024", {})>>, FALSE, TRUE),
  Script(<<New(2), New(3), Client("cancel", 2, FALSE, "", {3})>>, FALSE, FALSE),
  Script(<<New(2), Client("left", 2, FALSE, "", {})>>, FALSE, TRUE),
  Script(<<Lost(Old(2)), Old(3), Client("note", 0, FALSE, "2024", {3})>>, FALSE, TRUE)}

AnyRequest == CHOOSE r \in Requests : r.via = "stdio" /\ r.object
AnyScript  == CHOOSE script \in Scripts : TRUE

MCInit ==
  /\ area \in {"session", "shot", "side"}
  /\ Init /\ (area # "session" => scene = 1)
  /\ ShotInit /\ (area # "shot" => shot.request = AnyRequest /\ peer.speaks = "modern")
  /\ SideInit /\ (area # "side" => side.script = AnyScript /\ host.own)

MCNext ==
  \/ area = "session" /\ Next /\ UNCHANGED <<shotVars, sideVars, area>>
  \/ area = "shot" /\ ShotNext /\ UNCHANGED <<vars, sideVars, area>>
  \/ area = "side" /\ SideNext /\ UNCHANGED <<vars, shotVars, area>>

allVars == <<vars, shotVars, sideVars, area>>

(* What the program does on its own: it runs on, and a deadline passes. *)
RunsOn ==
  \/ area = "session" /\ Engine /\ UNCHANGED <<shotVars, sideVars, area>>
  \/ area = "shot" /\ ReplaysOnce /\ UNCHANGED <<vars, sideVars, area>>
  \/ area = "side" /\ ReplaySide /\ UNCHANGED <<vars, shotVars, area>>

(* A stream that was closed breaks off; and a note or an answer that was posted is taken or refused, for
   which the code sets no deadline. *)
PostsEnd ==
  \/ area = "session" /\ at.doing = "post" /\ PostReturned /\ UNCHANGED <<shotVars, sideVars, area>>
  \/ area = "side" /\ (BrokenOff \/ NoteEnds) /\ UNCHANGED <<vars, shotVars, area>>

MCSpec == MCInit /\ [][MCNext]_allVars /\ WF_allVars(RunsOn) /\ WF_allVars(PostsEnd)

(* Over HTTP each request is settled once and carries this server's session, a single call shows the
   answer to that call, asked for in the revision the server speaks (readResponse), and no stream,
   session or server outlives its replay. *)
RepliesExact ==
  /\ SettledOnce /\ SessionKept /\ LeavesNothing
  /\ ShownIsTheAnswer /\ LeavesNoServer

(* A replayed frame goes out after the answers and requests it followed in the recording, and carries
   the ids and values of the server under test (waits, carry).  Every request that went out is answered,
   reported missing or given up by its own cancellation, and what was held back never goes out (await,
   giveUp, closed); the mock server answers a request with what the recording answered to its like, each
   recorded answer once (MatchKey). *)
ReplaysFaithfully == EachAfterItsPast /\ SpeaksOfThisServer /\ [](Accounted /\ MockIsFaithful)

(* A replay ends whatever the server does, if each note it posts is taken or refused (await's deadline,
   the timeout of a single call, what startHTTP returns). *)
ReplayEnds == <>(CASE area = "session" -> at.doing = "done"
                   [] area = "shot" -> shot.doing = "over"
                   [] area = "side" -> side.doing = "over")
=============================================================================
