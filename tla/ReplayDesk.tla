-------------------------------- MODULE ReplayDesk --------------------------------
(***************************************************************************)
(* Replaying a request from the terminal interface (internal/tui/model.go, *)
(* internal/tui/replay.go): keys start runs and editors, a prompt gates    *)
(* the first run of a session, and what they lead to arrives as messages   *)
(* while the user goes on pressing keys.                                   *)
(*                                                                         *)
(* A request is the frame it was captured in and whether its params were   *)
(* edited; its routing is named by the frame the headers were read from.   *)
(***************************************************************************)
EXTENDS Integers, FiniteSets

CONSTANTS
  StdioFrames,   \* request frames of the session that recorded a command
  HttpFrames,    \* of the one captured over HTTP, whose target the user gave
  MaxRuns,       \* bound: replays started
  MaxEditors     \* bound: editors opened

Nil == "none"
Home(f) == IF f \in StdioFrames THEN "stdio" ELSE "http"
CapturedFrames == StdioFrames \cup HttpFrames
Unedited(f) == [frame |-> f, edited |-> FALSE]
NoReq == Unedited(Nil)

VARIABLES
  stream,      \* streamSessionID
  view, overlay,
  focus,       \* the frame a key acts on
  req,         \* replayReq, replayCaptured and replayEdited
  routing,     \* replayRouting
  replaying, token,
  confirmed,   \* replayConfirmed
  prompt,      \* the run a yes would start
  shown,       \* the run whose result the replay panel shows
  running,     \* runs whose replayDoneMsg is still to come
  editors,     \* editors that have not returned, by what they were opened on
  opened,      \* how many were
  accepted     \* sessions whose command the user has said yes to
asked == <<prompt, confirmed, accepted>>
screen == <<stream, view, overlay, focus, shown>>
replayVars == <<screen, asked, req, routing, replaying, token, running, editors, opened>>

NoPrompt == [req |-> NoReq, routing |-> Nil]
NoRun == [req |-> NoReq, routing |-> Nil, session |-> Nil, token |-> 0]

ReplayDeskInit ==
  /\ stream = Nil /\ view = "sessions" /\ overlay = "none" /\ focus = Nil /\ shown = NoRun
  /\ req = NoReq /\ routing = Nil /\ replaying = FALSE /\ token = 0 /\ confirmed = Nil /\ prompt = NoPrompt
  /\ running = {} /\ editors = {} /\ opened = 0 /\ accepted = {}

-----------------------------------------------------------------------------
(* Moving about: what leaves a screen abandons the run in flight. *)

Keys == prompt = NoPrompt
Navigates == replaying' = FALSE /\ UNCHANGED <<asked, req, routing, token, running, editors, opened>>

EntersStream(s) ==
  /\ Keys /\ overlay = "none" /\ Navigates /\ UNCHANGED <<overlay, shown>>
  /\ stream' = s /\ view' = "stream" /\ \E f \in CapturedFrames : Home(f) = s /\ focus' = f

MovesFocus ==
  /\ Keys /\ overlay = "none" /\ view = "stream"
  /\ \E f \in CapturedFrames : Home(f) = stream /\ focus' = f
  /\ UNCHANGED <<stream, view, overlay, shown, asked, req, routing, replaying, token, running, editors, opened>>

LeavesView == Keys /\ overlay = "none" /\ Navigates /\ view' = "sessions" /\ UNCHANGED <<stream, overlay, focus, shown>>

(* :sessions leaves the stream and nothing else. *)
SessionsCommand ==
  /\ Keys /\ overlay = "none" /\ view' = "sessions"
  /\ UNCHANGED <<stream, overlay, focus, shown, asked, req, routing, replaying, token, running, editors, opened>>

OpensOverlay(mode) ==
  /\ Keys /\ overlay = "none" /\ (mode = "inspector" => view = "stream") /\ Navigates
  /\ overlay' = mode /\ UNCHANGED <<stream, view, focus, shown>>
ClosesOverlay ==
  /\ Keys /\ overlay # "none" /\ Navigates /\ overlay' = "none" /\ UNCHANGED <<stream, view, focus, shown>>

(* The inspected frame left the store's memory: refresh drops the question asked over it as well. *)
FrameLeaves ==
  /\ overlay = "inspector" /\ overlay' = "none" /\ prompt' = NoPrompt /\ replaying' = FALSE
  /\ UNCHANGED <<stream, view, focus, shown, confirmed, accepted, req, routing, token, running, editors, opened>>

-----------------------------------------------------------------------------
(* Running. *)

Focused == view = "stream" \/ overlay = "inspector"

Start(r, headers) ==
  LET run == [req |-> r, routing |-> headers, session |-> stream, token |-> token + 1]
  IN  /\ confirmed' = stream /\ req' = r /\ replaying' = TRUE /\ token' = token + 1
      /\ running' = running \cup {run}

Idles == UNCHANGED <<confirmed, accepted, req, replaying, token, running>>

Confirmed == confirmed = stream

(* runReplay and runHTTPReplay: one in flight at a time, and the first of a session asks. *)
RunReplay(r, headers) ==
  IF replaying \/ token >= MaxRuns THEN prompt' = prompt /\ Idles
  ELSE IF Confirmed THEN Start(r, headers) /\ UNCHANGED <<prompt, accepted>>
  ELSE prompt' = [req |-> r, routing |-> headers] /\ Idles

AnswersPrompt(yes) ==
  /\ ~Keys /\ prompt' = NoPrompt
  /\ IF yes THEN Start(prompt.req, prompt.routing) /\ accepted' = accepted \cup {stream} ELSE Idles
  /\ UNCHANGED <<screen, routing, editors, opened>>

(* r on a request: its routing is taken before anything can refuse the run. *)
StartReplay ==
  /\ Keys /\ overlay \in {"none", "inspector"} /\ Focused
  /\ routing' = focus /\ RunReplay(Unedited(focus), focus) /\ UNCHANGED <<screen, editors, opened>>

(* r on a result. *)
ReplayAgain ==
  /\ Keys /\ overlay = "replay" /\ RunReplay(req, routing) /\ UNCHANGED <<screen, routing, editors, opened>>

(* R: on a result the request sent last, else the focused one. *)
StartEditReplay ==
  /\ Keys /\ ~replaying /\ opened < MaxEditors /\ opened' = opened + 1
  /\ \/ overlay = "replay" /\ editors' = editors \cup {[on |-> req.frame, nth |-> opened']} /\ UNCHANGED routing
     \/ /\ overlay \in {"none", "inspector"} /\ Focused /\ routing' = focus
        /\ editors' = editors \cup {[on |-> focus, nth |-> opened']}
  /\ UNCHANGED <<screen, asked, req, replaying, token, running>>

(* The editor failed, saved nothing new, or saved something that is no object. *)
EditAborted(e) ==
  /\ e \in editors /\ editors' = editors \ {e}
  /\ UNCHANGED <<screen, asked, req, routing, replaying, token, running, opened>>

(* Params that mean what was captured are no edit; the session and the routing are those of now. *)
EditDone(e, edited) ==
  /\ e \in editors /\ editors' = editors \ {e}
  /\ RunReplay([frame |-> e.on, edited |-> edited], routing) /\ UNCHANGED <<screen, routing, opened>>

(* Faulty variant: whatever arrives while a run is awaited is its result. *)
AnyResult(run) == replaying
Awaited(run) == replaying /\ run.token = token

ReplayDone(run) ==
  /\ run \in running /\ running' = running \ {run}
  /\ IF Awaited(run) THEN replaying' = FALSE /\ overlay' = "replay" /\ shown' = run
     ELSE UNCHANGED <<replaying, overlay, shown>>
  /\ UNCHANGED <<stream, view, focus, asked, req, routing, token, editors, opened>>

ReplayDeskNext ==
  \/ \E s \in {"stdio", "http"} : EntersStream(s)
  \/ MovesFocus \/ LeavesView \/ SessionsCommand \/ ClosesOverlay \/ FrameLeaves
  \/ \E mode \in {"inspector", "panel"} : OpensOverlay(mode)
  \/ AnswersPrompt(TRUE) \/ AnswersPrompt(FALSE) \/ StartReplay \/ ReplayAgain \/ StartEditReplay
  \/ \E e \in editors : EditAborted(e) \/ EditDone(e, TRUE) \/ EditDone(e, FALSE)
  \/ \E run \in running : ReplayDone(run)

DeskSpec == ReplayDeskInit /\ [][ReplayDeskNext]_replayVars

-----------------------------------------------------------------------------
(* The panel shows the answer to the request r would send again, however many runs were walked away
   from and whenever their answers come (replayToken). *)
ShownIsTheRequest == overlay = "replay" /\ ~replaying => shown.req = req

(* No session's command is run, nor its target posted to, before the user said yes to that session's
   prompt (replayConfirmed). *)
NothingRunsUnasked == \A run \in running : run.session \in accepted

(* A replay panel shows the answer to the request it would send again, and nothing is run unasked. *)
ReplaysAsShown == ShownIsTheRequest /\ NothingRunsUnasked

(* A request sent again carries the headers of the frame it was captured in, as the first attempt did.
   Does not hold: see README. *)
RepeatsCarryTheirHeaders ==
  [][ReplayAgain => \A run \in running' \ running : run.routing = run.req.frame]_replayVars

(* What was edited goes to the session it was captured in.  Does not hold: see README. *)
EditsGoHome == \A run \in running : Home(run.req.frame) = run.session
=============================================================================
