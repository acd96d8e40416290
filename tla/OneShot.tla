---------------------------------- MODULE OneShot ----------------------------------
(***************************************************************************)
(* One captured request sent again: Replay starts a server of its own,     *)
(* finds out by its answer to initialize which revision it speaks, and     *)
(* asks once (internal/replay/replay.go); ReplayHTTP posts to a URL that   *)
(* somebody named (http.go).                                               *)
(*                                                                         *)
(* The server is the environment: a "legacy" one needs the handshake, a    *)
(* "modern" one refuses it and needs every request to describe itself.  It *)
(* may talk besides, use any id for what it asks, stop, or say nothing.    *)
(***************************************************************************)
EXTENDS Integers, Sequences, SequencesExt

CONSTANT MaxTalk    \* lines the server says on its own

VARIABLES
  shot,     \* the replay: what it replays, where it is, what it returns
  stdin,    \* what the server has not read, or the request posted
  stdout,   \* what the replay has not read of the server's lines or events
  peer      \* the server: its revision, whether it runs, what it was told
            \* and what it answered to the request

shotVars == <<shot, stdin, stdout, peer>>

NoAnswer == "nothing"
Line(kind, id, says) == [kind |-> kind, id |-> id, says |-> says]

(* What is replayed: over what, whether its params can take a _meta, what   *)
(* the body names now and named when captured, and a mirrored header.       *)
Requests == [via : {"stdio"}, object : BOOLEAN, named : {"tool"}, captured : {"tool"},
             edited : {FALSE}, header : {"none"}]
            \cup [via : {"http"}, object : BOOLEAN, named : {"none", "tool", "other"}, captured : {"none", "tool"},
                  edited : BOOLEAN, header : {"none", "kept", "redacted"}]

(* What is edited keeps no claim on the capture; what is not, is captured. *)
Sensible(r) == r.edited \/ r.captured = "none" \/ r.named = r.captured

ShotInit ==
  /\ \E r \in Requests : Sensible(r) /\
       shot = [request |-> r, doing |-> "start", stateless |-> FALSE, got |-> NoAnswer, failed |-> FALSE]
  /\ stdin = <<>> /\ stdout = <<>>
  /\ peer \in [speaks : {"legacy", "modern"}, up : {FALSE}, shaken : {FALSE}, asked : {<<>>},
               answer : {NoAnswer}, talk : {0}]
  /\ shot.request.via = "http" => peer.speaks = "modern"

Fails == shot' = [shot EXCEPT !.failed = TRUE, !.doing = "teardown"]
Now(where) == shot.doing = where

-----------------------------------------------------------------------------
(* Replay, over stdio. *)

(* withClientMeta: only an object can take the identity. *)
Described(r) == r.object

(* A line for a server that is gone is an error. *)
Writes(lines) == stdin' = stdin \o lines

(* The server starts, or cannot, and is asked to initialize. *)
StartsServer ==
  /\ Now("start") /\ shot.request.via = "stdio"
  /\ \/ /\ peer' = [peer EXCEPT !.up = TRUE]
        /\ Writes(<<Line("initialize", 1, "")>>) /\ shot' = [shot EXCEPT !.doing = "initialize"]
     \/ /\ shot' = [shot EXCEPT !.failed = TRUE, !.doing = "over"] /\ UNCHANGED <<stdin, peer>>
  /\ UNCHANGED stdout

(* Faulty variant: whatever carries the id is the answer. *)
HasOurID(line, id) == line.id = id

(* readResponse: an answer has no method and carries the id; all else is passed over. *)
IsOurs(line, id) == line.kind = "answer" /\ line.id = id

PassesOver(id) ==
  /\ stdout # <<>> /\ ~IsOurs(Head(stdout), id)
  /\ stdout' = Tail(stdout) /\ UNCHANGED <<shot, stdin, peer>>

ReadsOn == (Now("initialize") /\ PassesOver(1)) \/ (Now("answer") /\ PassesOver(2))

(* An error says that the server knows no handshake. *)
LearnsRevision ==
  /\ Now("initialize") /\ stdout # <<>> /\ IsOurs(Head(stdout), 1)
  /\ IF Head(stdout).says = "neither" THEN Fails
     ELSE LET refused == Head(stdout).says = "error"
          IN  shot' = [shot EXCEPT !.stateless = refused, !.doing = IF refused THEN "ask" ELSE "initialized"]
  /\ stdout' = Tail(stdout) /\ UNCHANGED <<stdin, peer>>

SaysInitialized ==
  /\ Now("initialized")
  /\ IF peer.up THEN Writes(<<Line("initialized", 0, "")>>) /\ shot' = [shot EXCEPT !.doing = "ask"]
     ELSE Fails /\ UNCHANGED stdin
  /\ UNCHANGED <<stdout, peer>>

AsksOnce ==
  /\ Now("ask")
  /\ IF peer.up
     THEN /\ Writes(<<Line("request", 2, IF shot.stateless /\ Described(shot.request) THEN "described" ELSE "bare")>>)
          /\ shot' = [shot EXCEPT !.doing = "answer"]
     ELSE Fails /\ UNCHANGED stdin
  /\ UNCHANGED <<stdout, peer>>

TakesAnswer ==
  /\ Now("answer") /\ stdout # <<>> /\ IsOurs(Head(stdout), 2)
  /\ IF Head(stdout).says = "neither" THEN Fails
     ELSE shot' = [shot EXCEPT !.got = Head(stdout).says, !.doing = "teardown"]
  /\ stdout' = Tail(stdout) /\ UNCHANGED <<stdin, peer>>

(* Nothing more comes of a server that is gone. *)
ReadsEOF ==
  /\ shot.doing \in {"initialize", "answer"} /\ stdout = <<>> /\ ~peer.up
  /\ Fails /\ UNCHANGED <<stdin, stdout, peer>>

(* exec.CommandContext: the deadline kills the server. *)
KillsServer == peer' = [peer EXCEPT !.up = FALSE]

TimeIsUp ==
  /\ shot.request.via = "stdio" /\ shot.doing \in {"initialize", "initialized", "ask", "answer"} /\ peer.up
  /\ KillsServer /\ UNCHANGED <<shot, stdin, stdout>>

(* The deferred stop: stdin closes, the context is cancelled, Wait returns. *)
TearsDown ==
  /\ Now("teardown") /\ shot.request.via = "stdio"
  /\ KillsServer /\ shot' = [shot EXCEPT !.doing = "over"] /\ UNCHANGED <<stdin, stdout>>

-----------------------------------------------------------------------------
(* ReplayHTTP. *)

(* A value that redaction took cannot be sent. *)
Scrubbed(r) == r.header = "redacted"
RefusesRedacted ==
  /\ Now("start") /\ shot.request.via = "http" /\ Scrubbed(shot.request)
  /\ shot' = [shot EXCEPT !.failed = TRUE, !.doing = "over"] /\ UNCHANGED <<stdin, stdout, peer>>

(* mcpName: what the body names, else what the capture carried. *)
McpName(r) == IF r.named # "none" THEN r.named ELSE r.captured

(* applyReplayHeaders. *)
ReplayHeaders(r) ==
  [name |-> McpName(r), mirror |-> IF r.edited THEN "none" ELSE r.header, described |-> Described(r)]

(* It goes to the address that was named and nowhere else, once. *)
Posts ==
  /\ Now("start") /\ shot.request.via = "http" /\ ~Scrubbed(shot.request)
  /\ stdin' = <<ReplayHeaders(shot.request)>> /\ peer' = [peer EXCEPT !.up = TRUE]
  /\ shot' = [shot EXCEPT !.doing = "post"] /\ UNCHANGED stdout

(* The POST fails or times out; a redirect or an error status is not followed up. *)
PostFails ==
  /\ Now("post") /\ peer.up
  /\ Fails /\ stdin' = <<>> /\ peer' = [peer EXCEPT !.up = FALSE] /\ UNCHANGED stdout

(* readSSEResponse: events before the answer are notifications; one JSON body is an event too. *)
IsRPCResponse(event) == event.kind = "answer" /\ event.says # "neither"
ReadsStream ==
  /\ Now("post") /\ stdout # <<>>
  /\ shot' = IF IsRPCResponse(Head(stdout))
             THEN [shot EXCEPT !.got = Head(stdout).says, !.doing = "teardown"] ELSE shot
  /\ stdout' = Tail(stdout) /\ UNCHANGED <<stdin, peer>>

StreamEnds ==
  /\ Now("post") /\ stdin = <<>> /\ stdout = <<>>
  /\ Fails /\ UNCHANGED <<stdin, stdout, peer>>

ClosesBody ==
  /\ Now("teardown") /\ shot.request.via = "http"
  /\ shot' = [shot EXCEPT !.doing = "over"] /\ peer' = [peer EXCEPT !.up = FALSE]
  /\ UNCHANGED <<stdin, stdout>>

-----------------------------------------------------------------------------
(* The server. *)

PeerSays(line) == stdout' = Append(stdout, line)
Sayings == {"result", "toolError", "error", "neither"}

AnswersInitialize ==
  /\ peer.up /\ stdin # <<>> /\ shot.request.via = "stdio" /\ Head(stdin).kind = "initialize"
  /\ PeerSays(Line("answer", 1, IF peer.speaks = "legacy" THEN "result" ELSE "error"))
  /\ stdin' = Tail(stdin) /\ UNCHANGED <<shot, peer>>

HearsInitialized ==
  /\ peer.up /\ stdin # <<>> /\ shot.request.via = "stdio" /\ Head(stdin).kind = "initialized"
  /\ peer' = [peer EXCEPT !.shaken = TRUE] /\ stdin' = Tail(stdin) /\ UNCHANGED <<shot, stdout>>

AnswersRequest ==
  /\ peer.up /\ stdin # <<>> /\ (shot.request.via = "stdio" => Head(stdin).kind = "request")
  /\ \E says \in Sayings :
       /\ peer' = [peer EXCEPT !.asked = <<Head(stdin)>>, !.answer = says]
       /\ PeerSays(Line("answer", IF shot.request.via = "stdio" THEN 2 ELSE 1, says))
  /\ stdin' = Tail(stdin) /\ UNCHANGED shot

(* Notifications, lines of a log, requests whose ids are the server's own. *)
Talks ==
  /\ peer.up /\ peer.talk < MaxTalk /\ (shot.request.via = "stdio" \/ stdin # <<>>)
  /\ \E line \in {Line("note", 0, ""), Line("asks", 1, ""), Line("asks", 2, "")} : PeerSays(line)
  /\ peer' = [peer EXCEPT !.talk = @ + 1] /\ UNCHANGED <<shot, stdin>>

Stops ==
  /\ peer.up /\ shot.request.via = "stdio" /\ KillsServer /\ UNCHANGED <<shot, stdin, stdout>>

ReplaysOnce ==
  \/ StartsServer \/ ReadsOn \/ LearnsRevision \/ SaysInitialized \/ AsksOnce \/ TakesAnswer
  \/ ReadsEOF \/ TimeIsUp \/ TearsDown
  \/ RefusesRedacted \/ Posts \/ PostFails \/ ReadsStream \/ StreamEnds \/ ClosesBody

ShotNext ==
  \/ ReplaysOnce
  \/ AnswersInitialize \/ HearsInitialized \/ AnswersRequest \/ Talks \/ Stops

ShotSpec == ShotInit /\ [][ShotNext]_shotVars

-----------------------------------------------------------------------------
(* What is shown as the result is what the server answered to the request, and a server that keeps to
   its revision was asked in it: after the handshake, or with the identity in the request; over HTTP
   the headers say what the body says (readResponse, withClientMeta, applyReplayHeaders). *)
ShownIsTheAnswer ==
  /\ shot.got # NoAnswer => shot.got = peer.answer /\ ~shot.failed
  /\ peer.asked # <<>> /\ shot.request.via = "stdio" =>
       IF peer.speaks = "legacy" THEN peer.shaken /\ peer.asked[1].says = "bare"
       ELSE ~peer.shaken /\ (shot.request.object => peer.asked[1].says = "described")
  /\ peer.asked # <<>> /\ shot.request.via = "http" =>
       /\ shot.request.named # "none" => peer.asked[1].name = shot.request.named
       /\ peer.asked[1].mirror # "redacted" /\ (shot.request.edited => peer.asked[1].mirror = "none")

(* The server a replay started never outlives it (the deferred stop). *)
LeavesNoServer == Now("over") => ~peer.up
=============================================================================
