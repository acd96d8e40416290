------------------------------- MODULE HttpExchange -------------------------------
(***************************************************************************)
(* The recording reverse proxy of internal/proxy/http.go: POST exchanges   *)
(* that share one emitter.  Each exchange has two goroutines of the proxy: *)
(* the transport's, which reads the request body through its tap while it  *)
(* sends it, and the handler's, which waits for the answer, copies it to   *)
(* the client through a tap of its own, closes the request body and says   *)
(* at the end whether the client gave up.                                  *)
(*                                                                         *)
(* A body is its number of pieces and the messages it holds; a frame is    *)
(* what the sink can tell of it.  Net/http, the client and the target are  *)
(* the environment.                                                        *)
(***************************************************************************)
EXTENDS Integers, Sequences, SequencesExt, FiniteSets, TLC

CONSTANTS Exchange,   \* the POST requests of a run
          Body,       \* the bodies they carry: size in pieces, messages, whether the
                      \* end of the body comes with its last piece or after it
          Cap,        \* maxFrameBytes, in pieces
          MaxLines    \* bound: lines of a stream

Message == {"request", "notification"}

(* The messages of a body are told apart by their kinds, so it has one of each at most. *)
ASSUME HttpExchangeAssumption ==
  /\ Body \subseteq [size : Nat, holds : Seq(Message), eofLate : BOOLEAN]
  /\ \A b \in Body : \A i, j \in DOMAIN b.holds : b.holds[i] = b.holds[j] => i = j
  /\ Cap \in Nat /\ MaxLines \in Nat

Part     == {"transport", "handler"}       \* the goroutines of an exchange
BodyFrame == Message \cup {"fragment", "truncated"}
AnswerFrame == {"answer", "status", "failed", "undelivered"}

VARIABLES
  post,      \* post[e]: size and messages of the body, pieces sent, client gone
  tap,       \* tap[e]: the request's bodyTap: started, ended, done, kept, cut, reader, snapshot
  state,     \* state[e]: its exchangeState: request, answered, cutShort
  pc,        \* pc[e][p]: where a goroutine is
  reply,     \* reply[e]: the answer's body and the event its sseTap holds
  out,       \* out[e][p]: the frame a goroutine is emitting, or NoFrame
  seqMu,     \* the goroutine in the emitter and the number it took, or Free
  seq,
  log,       \* the sink
  truth      \* truth[e]: pieces forwarded, drained, forwarded before the answer; how it ended

exchangeVars == <<post, tap, state, pc, reply, out, seqMu, seq, log, truth>>

NoFrame == "none"
Free == [of |-> <<>>, number |-> 0]
NoEvent == [size |-> 0, answers |-> FALSE, cut |-> FALSE]

ExchangeInit ==
  /\ post \in [Exchange -> {[size |-> b.size, holds |-> b.holds, eofLate |-> b.eofLate,
                              sent |-> 0, gone |-> FALSE] : b \in Body}]
  /\ tap = [e \in Exchange |-> [started |-> FALSE, ended |-> FALSE, done |-> FALSE,
                                kept |-> 0, cut |-> FALSE, held |-> "no", seen |-> <<>>]]
  /\ state = [e \in Exchange |-> [request |-> FALSE, answered |-> FALSE, cutShort |-> FALSE]]
  /\ pc = [e \in Exchange |-> [transport |-> "off", handler |-> "trip"]]
  /\ reply = [e \in Exchange |-> [kind |-> "none", lines |-> 0, event |-> NoEvent]]
  /\ out = [e \in Exchange |-> [transport |-> NoFrame, handler |-> NoFrame]]
  /\ seqMu = Free /\ seq = 0 /\ log = <<>>
  /\ truth = [e \in Exchange |-> [forwarded |-> 0, drained |-> 0, before |-> 0, died |-> FALSE,
                                  checked |-> FALSE]]

Goes(e, p, to)   == pc' = [pc EXCEPT ![e][p] = to]
Emits(e, p, f)   == out' = [out EXCEPT ![e][p] = f]
Idle(e, p)       == out[e][p] = NoFrame

-----------------------------------------------------------------------------
(* The client sends its body piece by piece, and may leave at any time. *)
ClientSends(e) ==
  /\ post[e].sent < post[e].size /\ ~post[e].gone
  /\ post' = [post EXCEPT ![e].sent = @ + 1]
  /\ UNCHANGED <<tap, state, pc, reply, out, seqMu, seq, log, truth>>

ClientLeaves(e) ==
  /\ ~post[e].gone /\ pc[e].handler # "end"
  /\ post' = [post EXCEPT ![e].gone = TRUE]
  /\ UNCHANGED <<tap, state, pc, reply, out, seqMu, seq, log, truth>>

-----------------------------------------------------------------------------
(* The emitter: the number is taken and the frame handed to the sink under *)
(* one lock; the first frame brings the meta frame with it.                *)
(* Faulty variant: a number taken without the lock.                        *)
EmitterFreeAlways == TRUE
EmitterFree == seqMu = Free

EmitTakes(e, p) ==
  /\ ~Idle(e, p)
  /\ seqMu.of # <<e, p>>
  /\ EmitterFree
  /\ seq' = seq + IF seq = 0 THEN 2 ELSE 1
  /\ seqMu' = [of |-> <<e, p>>, number |-> seq']
  /\ UNCHANGED <<post, tap, state, pc, reply, out, log, truth>>

MetaFirst(e) == IF seqMu.number = 2 THEN Append(log, [seq |-> 1, ex |-> e, frame |-> "meta"]) ELSE log

EmitHands(e, p) ==
  /\ seqMu.of = <<e, p>>
  /\ log' = Append(MetaFirst(e), [seq |-> seqMu.number, ex |-> e, frame |-> out[e][p]])
  /\ Emits(e, p, NoFrame)
  /\ seqMu' = Free
  /\ UNCHANGED <<post, tap, state, pc, reply, seq, truth>>

-----------------------------------------------------------------------------
(* observeBody and emitFrames of a request body: one frame for a copy that *)
(* was cut, none for an empty body, one per message of a whole one.  A     *)
(* copy that ends early parses as no message.                              *)
Observed(e) ==
  IF tap[e].cut THEN <<"truncated">>
  ELSE IF tap[e].kept = 0 THEN <<>>
  ELSE IF tap[e].kept = post[e].size THEN post[e].holds
  ELSE <<"fragment">>

(* finish: whoever comes first takes a snapshot of the copy under the lock *)
(* and delivers it outside, frame by frame; watch notes a request on its   *)
(* way to the emitter.                                                     *)
MayFinish(e) == ~tap[e].done

Snapshots(e) == tap' = [tap EXCEPT ![e].done = TRUE, ![e].seen = Observed(e)]

MarksBeforeEmit(e, p) ==
  /\ tap[e].seen # <<>>
  /\ state' = [state EXCEPT ![e].request = @ \/ Head(tap[e].seen) = "request"]
  /\ Emits(e, p, Head(tap[e].seen))
  /\ tap' = [tap EXCEPT ![e].seen = Tail(@)]

(* bodyTap.Read by the transport: it holds readMu from before the read     *)
(* until the copy, at the end of the body, is delivered.                   *)
TransportReads(e) ==
  /\ pc[e].transport = "send" /\ tap[e].held = "no"
  /\ Goes(e, "transport", "read")
  /\ tap' = [tap EXCEPT ![e].held = "transport", ![e].started = TRUE]
  /\ UNCHANGED <<post, state, reply, out, seqMu, seq, log, truth>>

Available(e) == post[e].sent > truth[e].forwarded + truth[e].drained
AtEnd(e, n)  == n = post[e].size /\ n = post[e].sent

(* What one piece does to the tap; the end of the body may come with it. *)
Kept(t, e, n) ==
  [t EXCEPT !.kept = IF t.kept < Cap THEN @ + 1 ELSE @,
            !.cut = @ \/ t.kept >= Cap,
            !.ended = AtEnd(e, n) /\ ~post[e].eofLate]

TransportGets(e) ==
  /\ pc[e].transport = "read" /\ ~tap[e].ended /\ Available(e)
  /\ truth' = [truth EXCEPT ![e].forwarded = @ + 1,
                            ![e].before = IF pc[e].handler = "trip" THEN @ + 1 ELSE @]
  /\ LET n == truth[e].forwarded + truth[e].drained + 1
         t == Kept(tap[e], e, n)
     IN IF t.ended
        THEN tap' = [tap EXCEPT ![e] = t] /\ Goes(e, "transport", "finish")
        ELSE tap' = [tap EXCEPT ![e] = [t EXCEPT !.held = "no"]] /\ Goes(e, "transport", "send")
  /\ UNCHANGED <<post, state, reply, out, seqMu, seq, log>>

(* The read ends: nothing follows, the tap knows its end, or the client's  *)
(* connection or the closed body fails it.                                 *)
TransportEnds(e) ==
  /\ pc[e].transport = "read"
  /\ \/ tap[e].ended
     \/ ~Available(e) /\ AtEnd(e, truth[e].forwarded + truth[e].drained)
     \/ post[e].gone
     \/ pc[e].handler \in {"check", "bye", "end"}
  /\ tap' = [tap EXCEPT ![e].ended =
               @ \/ (~post[e].gone /\ AtEnd(e, truth[e].forwarded + truth[e].drained))]
  /\ Goes(e, "transport", "finish")
  /\ UNCHANGED <<post, state, reply, out, seqMu, seq, log, truth>>

TransportFinishes(e) ==
  /\ pc[e].transport = "finish"
  /\ IF MayFinish(e)
     THEN Snapshots(e) /\ Goes(e, "transport", "deliver")
     ELSE tap' = [tap EXCEPT ![e].held = "no"] /\ Goes(e, "transport", "over")
  /\ UNCHANGED <<post, state, reply, out, seqMu, seq, log, truth>>

TransportDelivers(e) ==
  /\ pc[e].transport = "deliver"
  /\ MarksBeforeEmit(e, "transport")
  /\ Goes(e, "transport", "emit")
  /\ UNCHANGED <<post, reply, seqMu, seq, log, truth>>

TransportEmitted(e) ==
  /\ pc[e].transport = "emit" /\ Idle(e, "transport")
  /\ Goes(e, "transport", "deliver")
  /\ UNCHANGED <<post, tap, state, reply, out, seqMu, seq, log, truth>>

TransportReturns(e) ==
  /\ pc[e].transport = "deliver" /\ tap[e].seen = <<>>
  /\ tap' = [tap EXCEPT ![e].held = "no"]
  /\ Goes(e, "transport", "over")
  /\ UNCHANGED <<post, state, reply, out, seqMu, seq, log, truth>>

(* The transport may stop sending: the target hung up, or answered early. *)
TransportStops(e) ==
  /\ pc[e].transport = "send"
  /\ pc[e].handler # "trip"
  /\ Goes(e, "transport", "over")
  /\ UNCHANGED <<post, tap, state, reply, out, seqMu, seq, log, truth>>

-----------------------------------------------------------------------------
(* The handler in RoundTrip. *)
Connects(e) ==
  /\ pc[e].handler = "trip" /\ pc[e].transport = "off"
  /\ Goes(e, "transport", "send")
  /\ UNCHANGED <<post, tap, state, reply, out, seqMu, seq, log, truth>>

(* ModifyResponse: anything but a stream is the whole answer. *)
TargetAnswers(e, kind) ==
  /\ pc[e].handler = "trip" /\ pc[e].transport # "off"
  /\ reply' = [reply EXCEPT ![e].kind = kind]
  /\ state' = [state EXCEPT ![e].answered = @ \/ kind # "stream"]
  /\ Goes(e, "handler", "copy")
  /\ UNCHANGED <<post, tap, out, seqMu, seq, log, truth>>

(* ErrorHandler: a client that left is not a target that failed; what failed *)
(* before the dial was over was not delivered.                               *)
Fails(e) ==
  /\ pc[e].handler = "trip" /\ pc[e].transport # "off"
  /\ reply' = [reply EXCEPT ![e].kind = "failed"]
  /\ state' = [state EXCEPT ![e].answered = TRUE]
  /\ Emits(e, "handler", "failed")
  /\ Goes(e, "handler", "copied")
  /\ UNCHANGED <<post, tap, seqMu, seq, log, truth>>

Cancelled(e) ==
  /\ pc[e].handler = "trip" /\ post[e].gone
  /\ reply' = [reply EXCEPT ![e].kind = "cancelled"]
  /\ Goes(e, "handler", "close")
  /\ UNCHANGED <<post, tap, state, out, seqMu, seq, log, truth>>

(* A refused dial: the transport closes the body first, then reports it. *)
Refused(e) ==
  /\ pc[e].handler = "trip" /\ pc[e].transport = "off"
  /\ reply' = [reply EXCEPT ![e].kind = "refused"]
  /\ Goes(e, "handler", "close")
  /\ UNCHANGED <<post, tap, state, out, seqMu, seq, log, truth>>

ReportsRefusal(e) ==
  /\ pc[e].handler = "report"
  /\ state' = [state EXCEPT ![e].answered = TRUE]
  /\ Emits(e, "handler", "undelivered")
  /\ Goes(e, "handler", "reported")
  /\ UNCHANGED <<post, tap, reply, seqMu, seq, log, truth>>

-----------------------------------------------------------------------------
(* The handler copies a plain body: its tap delivers at the end or when the *)
(* client left, a body with nothing in it as its status; one that is        *)
(* compressed is not observed.                                              *)
PlainFrame(e, whole) ==
  IF reply[e].kind = "opaque" THEN NoFrame
  ELSE IF post[e].holds = <<"notification">> THEN "status"
  ELSE IF whole THEN "answer" ELSE "fragment"

CopiesPlain(e, whole) ==
  /\ pc[e].handler = "copy" /\ reply[e].kind \in {"plain", "opaque"}
  /\ whole \/ post[e].gone
  /\ Emits(e, "handler", PlainFrame(e, whole))
  /\ Goes(e, "handler", "copied")
  /\ UNCHANGED <<post, tap, state, reply, seqMu, seq, log, truth>>

(* sseTap: a data line joins the event, as far as the cap; a blank line ends *)
(* it.  An event that was cut is a fragment, which watch does not parse.     *)
DataLine(ev, answers) ==
  [size    |-> IF ev.size < Cap THEN ev.size + 1 ELSE ev.size,
   answers |-> ev.answers \/ answers,
   cut     |-> ev.cut \/ ev.size >= Cap]

EventFrame(ev) == IF ev.cut THEN "truncated" ELSE IF ev.answers THEN "answer" ELSE "event"

StreamLine(e, answers) ==
  /\ pc[e].handler = "copy" /\ reply[e].kind = "stream" /\ Idle(e, "handler")
  /\ reply[e].lines < MaxLines
  /\ reply' = [reply EXCEPT ![e].lines = @ + 1, ![e].event = DataLine(@, answers)]
  /\ UNCHANGED <<post, tap, state, pc, out, seqMu, seq, log, truth>>

(* What line, at a blank one, and Close deliver of the event held. *)
HeldFrame(e) ==
  IF reply[e].event.size = 0 THEN NoFrame ELSE EventFrame(reply[e].event)

StreamBlank(e) ==
  /\ pc[e].handler = "copy" /\ reply[e].kind = "stream" /\ Idle(e, "handler")
  /\ reply[e].event.size > 0
  /\ state' = [state EXCEPT ![e].answered = @ \/ HeldFrame(e) = "answer"]
  /\ Emits(e, "handler", HeldFrame(e))
  /\ reply' = [reply EXCEPT ![e].event = NoEvent]
  /\ UNCHANGED <<post, tap, pc, seqMu, seq, log, truth>>

(* The stream ends: the server ended it, the client left, or the target's *)
(* connection broke.                                                      *)
StreamEnds(e, how) ==
  /\ pc[e].handler = "copy" /\ reply[e].kind = "stream" /\ Idle(e, "handler")
  /\ how = "client" => post[e].gone
  /\ truth' = [truth EXCEPT ![e].died = (how = "target")]
  /\ Goes(e, "handler", IF how = "server" THEN "closeStream" ELSE "cutStream")
  /\ UNCHANGED <<post, tap, state, reply, out, seqMu, seq, log>>

(* sseTap.Close flushes the partial event, then says whether it was cut. *)
SaysCut(e) == pc[e].handler = "cutStream"

ClosesStream(e) ==
  /\ pc[e].handler \in {"closeStream", "cutStream"}
  /\ LET f == HeldFrame(e)
     IN /\ state' = [state EXCEPT ![e].answered = @ \/ f = "answer",
                                  ![e].cutShort = @ \/ SaysCut(e)]
        /\ Emits(e, "handler", f)
  /\ reply' = [reply EXCEPT ![e].event = NoEvent]
  /\ Goes(e, "handler", "copied")
  /\ UNCHANGED <<post, tap, seqMu, seq, log, truth>>

CopyOver(e) ==
  /\ pc[e].handler = "copied" /\ Idle(e, "handler")
  /\ Goes(e, "handler", "close")
  /\ UNCHANGED <<post, tap, state, reply, out, seqMu, seq, log, truth>>

-----------------------------------------------------------------------------
(* bodyTap.Close by the handler: a body no read has begun on, and nobody   *)
(* holds, is drained as far as the cap, so that the client's request is    *)
(* seen; one that is being read is left to its reader.                     *)
DrainsNothing(e)  == FALSE
Drains(e) == tap[e].held = "no" /\ ~tap[e].started /\ ~tap[e].done

Closes(e) ==
  /\ pc[e].handler = "close"
  /\ IF Drains(e)
     THEN tap' = [tap EXCEPT ![e].held = "handler", ![e].started = TRUE] /\ Goes(e, "handler", "drain")
     ELSE UNCHANGED tap /\ Goes(e, "handler", "finish")
  /\ UNCHANGED <<post, state, reply, out, seqMu, seq, log, truth>>

DrainGets(e) ==
  /\ pc[e].handler = "drain" /\ ~tap[e].ended /\ Available(e) /\ truth[e].drained <= Cap
  /\ LET n == truth[e].forwarded + truth[e].drained + 1
     IN tap' = [tap EXCEPT ![e] = Kept(@, e, n)]
  /\ truth' = [truth EXCEPT ![e].drained = @ + 1]
  /\ UNCHANGED <<post, state, pc, reply, out, seqMu, seq, log>>

DrainEnds(e) ==
  /\ pc[e].handler = "drain"
  /\ \/ tap[e].ended
     \/ truth[e].drained > Cap
     \/ AtEnd(e, truth[e].forwarded + truth[e].drained)
     \/ post[e].gone
  /\ tap' = [tap EXCEPT ![e].held = "no"]
  /\ Goes(e, "handler", "finish")
  /\ UNCHANGED <<post, state, reply, out, seqMu, seq, log, truth>>

AfterClose(e) == IF reply[e].kind = "refused" THEN "report" ELSE "check"

HandlerFinishes(e) ==
  /\ pc[e].handler = "finish"
  /\ IF MayFinish(e)
     THEN Snapshots(e) /\ Goes(e, "handler", "deliver")
     ELSE UNCHANGED tap /\ Goes(e, "handler", AfterClose(e))
  /\ UNCHANGED <<post, state, reply, out, seqMu, seq, log, truth>>

HandlerDelivers(e) ==
  /\ pc[e].handler = "deliver"
  /\ MarksBeforeEmit(e, "handler")
  /\ Goes(e, "handler", "emit")
  /\ UNCHANGED <<post, reply, seqMu, seq, log, truth>>

HandlerEmitted(e) ==
  /\ pc[e].handler = "emit" /\ Idle(e, "handler")
  /\ Goes(e, "handler", "deliver")
  /\ UNCHANGED <<post, tap, state, reply, out, seqMu, seq, log, truth>>

HandlerDelivered(e) ==
  /\ pc[e].handler = "deliver" /\ tap[e].seen = <<>>
  /\ Goes(e, "handler", AfterClose(e))
  /\ UNCHANGED <<post, tap, state, reply, out, seqMu, seq, log, truth>>

RefusalReported(e) ==
  /\ pc[e].handler = "reported" /\ Idle(e, "handler")
  /\ Goes(e, "handler", "check")
  /\ UNCHANGED <<post, tap, state, reply, out, seqMu, seq, log, truth>>

(* Faulty variant: a stream that was cut short does not count as left. *)
AbandonedIfGone(e) == state[e].request /\ ~state[e].answered /\ post[e].gone

(* The deferred check, and the frame it writes. *)
Abandoned(e) == state[e].request /\ ~state[e].answered /\ (post[e].gone \/ state[e].cutShort)

Checks(e) ==
  /\ pc[e].handler = "check"
  /\ Emits(e, "handler", IF Abandoned(e) THEN "abandoned" ELSE NoFrame)
  /\ truth' = [truth EXCEPT ![e].checked =
                 state[e].request /\ (post[e].gone \/ truth[e].died)]
  /\ Goes(e, "handler", "bye")
  /\ UNCHANGED <<post, tap, state, reply, seqMu, seq, log>>

Returns(e) ==
  /\ pc[e].handler = "bye" /\ Idle(e, "handler")
  /\ Goes(e, "handler", "end")
  /\ UNCHANGED <<post, tap, state, reply, out, seqMu, seq, log, truth>>

-----------------------------------------------------------------------------
Peers(e) ==
  \/ ClientSends(e) \/ ClientLeaves(e)
  \/ Connects(e) \/ Fails(e) \/ Refused(e) \/ TransportStops(e)
  \/ \E kind \in {"plain", "opaque", "stream"} : TargetAnswers(e, kind)
  \/ \E answers \in BOOLEAN : StreamLine(e, answers)
  \/ StreamBlank(e)
  \/ \E how \in {"server", "client", "target"} : StreamEnds(e, how)

Transport(e) ==
  \/ TransportReads(e) \/ TransportGets(e) \/ TransportEnds(e)
  \/ TransportFinishes(e) \/ TransportDelivers(e) \/ TransportEmitted(e)
  \/ TransportReturns(e)

Handler(e) ==
  \/ Cancelled(e) \/ ReportsRefusal(e) \/ RefusalReported(e)
  \/ \E whole \in BOOLEAN : CopiesPlain(e, whole)
  \/ ClosesStream(e) \/ CopyOver(e)
  \/ Closes(e) \/ DrainGets(e) \/ DrainEnds(e)
  \/ HandlerFinishes(e) \/ HandlerDelivers(e) \/ HandlerEmitted(e) \/ HandlerDelivered(e)
  \/ Checks(e) \/ Returns(e)

Emitter(e) == \E p \in Part : EmitTakes(e, p) \/ EmitHands(e, p)

ExchangeNext == \E e \in Exchange : Peers(e) \/ Transport(e) \/ Handler(e) \/ Emitter(e)

ExchangeSpec == ExchangeInit /\ [][ExchangeNext]_exchangeVars

-----------------------------------------------------------------------------
AnyFrame  == BodyFrame \cup AnswerFrame \cup {"event", "abandoned"}
Event     == [size : 0 .. Cap, answers : BOOLEAN, cut : BOOLEAN]
ReplyKind == {"none", "plain", "opaque", "stream", "failed", "cancelled", "refused"}
AtSend    == {"off", "send", "read", "finish", "deliver", "emit", "over"}
AtHandle  == {"trip", "copy", "closeStream", "cutStream", "copied", "close", "drain", "finish",
              "deliver", "emit", "report", "reported", "check", "bye", "end"}

Posts   == [size : Nat, holds : Seq(Message), eofLate : BOOLEAN, sent : Nat, gone : BOOLEAN]
Taps    == [started : BOOLEAN, ended : BOOLEAN, done : BOOLEAN, kept : 0 .. Cap, cut : BOOLEAN,
            held : {"no"} \cup Part, seen : Seq(BodyFrame)]
States  == [request : BOOLEAN, answered : BOOLEAN, cutShort : BOOLEAN]
Places  == [transport : AtSend, handler : AtHandle]
Replies == [kind : ReplyKind, lines : 0 .. MaxLines, event : Event]
Truths  == [forwarded : Nat, drained : Nat, before : Nat, died : BOOLEAN, checked : BOOLEAN]
Lines   == [seq : Nat, ex : Exchange, frame : AnyFrame \cup {"meta"}]

ExchangeTypeOK ==
  /\ post \in [Exchange -> Posts] /\ \A e \in Exchange : post[e].sent <= post[e].size
  /\ tap \in [Exchange -> Taps] /\ state \in [Exchange -> States]
  /\ pc \in [Exchange -> Places] /\ reply \in [Exchange -> Replies]
  /\ out \in [Exchange -> [Part -> AnyFrame \cup {NoFrame}]]
  /\ seqMu \in [of : {<<>>} \cup (Exchange \X Part), number : Nat] /\ seq \in Nat
  /\ log \in Seq(Lines) /\ truth \in [Exchange -> Truths]

Logged(e, f) == \E i \in DOMAIN log : log[i].ex = e /\ log[i].frame = f
Once(e, f)   == \A i, j \in DOMAIN log :
                  log[i].ex = e /\ log[j].ex = e /\ log[i].frame = f /\ log[j].frame = f => i = j
Over(e)      == pc[e].handler = "end" /\ pc[e].transport \in {"off", "over"}
Holds(e, f)  == f \in ToSet(post[e].holds)

(* The numbers reach the sink in the order they were taken, the meta frame
   first: concurrent exchanges never leave what a reader takes for a gap. *)
ExchangeInOrder == \A i \in DOMAIN log : log[i].seq = i

(* A body is observed once, whoever ends it: a message never shows twice, one
   that the target got whole before it answered does show, and the drain
   never reads the body beside the transport. *)
ObservedOnce ==
  \A e \in Exchange :
    /\ \A f \in Message : Once(e, f)
    /\ ~(pc[e].transport = "read" /\ pc[e].handler = "drain")
    /\ Over(e) /\ truth[e].before = post[e].size /\ post[e].size \in 1 .. Cap
         => \A f \in Message : Holds(e, f) => Logged(e, f)

(* A request the target refused to take is in the capture before its 502, when
   its client waits for it. *)
RefusedIsSeen ==
  \A e \in Exchange : \A i \in DOMAIN log :
    /\ log[i].ex = e /\ log[i].frame = "undelivered"
    /\ post[e].size \in 1 .. Cap /\ ~post[e].gone
    /\ Holds(e, "request")
    => \E j \in 1 .. i : log[j].ex = e /\ log[j].frame = "request"

(* Each body is in the capture once, in the order the frames took their numbers, and a request nobody
   took is there before the failure it was answered with (bodyTap, emitter). *)
CapturedInOrder == ExchangeTypeOK /\ ExchangeInOrder /\ ObservedOnce /\ RefusedIsSeen

(* An exchange that was answered is not recorded as given up, and one whose
   client was not answered is: nothing the handler knew of stays open. *)
EndsOneWay ==
  \A e \in Exchange :
    /\ ~(Logged(e, "answer") /\ Logged(e, "abandoned"))
    /\ Once(e, "abandoned")
    /\ Logged(e, "abandoned") => ~Logged(e, "failed") /\ ~Logged(e, "undelivered")
    /\ Over(e) /\ truth[e].checked /\ reply[e].kind # "opaque"
         => \E f \in AnswerFrame \cup {"abandoned", "fragment", "truncated"} : Logged(e, f)

(* frame.go says the mark is written when the client left: it is never
   written for a client that stayed.  Does not hold: see README. *)
AbandonedByClient ==
  \A e \in Exchange : Logged(e, "abandoned") => post[e].gone

=============================================================================
