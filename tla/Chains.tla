--------------------------------- MODULE Chains ---------------------------------
(***************************************************************************)
(* One operation that takes several requests: the time each side is        *)
(* charged (markHop), the breakdown Interactions reads back from the       *)
(* frames, and the ledger of what was asked of the user and answered.      *)
(*                                                                         *)
(* That a retry is linked to its operation is CallStore's business: here   *)
(* it always is.  turn, since, spent and rounds are what happened; the     *)
(* store does not read them.  odd says that something happened which the   *)
(* store is known to get wrong: see README.                                *)
(***************************************************************************)
EXTENDS Integers, Sequences, FiniteSets, SequencesExt

CONSTANTS
  Key,        \* inputRequests keys that ask the user (elicitation/create)
  MaxHops,    \* bound: requests of the operation
  MaxHopFrames,  \* bound: its frames
  MaxHopTime     \* bound: the clock

ASSUME ChainsAssumption == IsFiniteSet(Key)

Unanswered == ""

VARIABLES
  op,       \* the call: state, task, times, hops, elicitations and the newest round's first
  hopFrames,   \* the session's frames that point at it
  gone,     \* how many of them a bounded store has let go of
  hopClock,
  turn, since, spent, rounds, odd
chainVars == <<op, hopFrames, gone, hopClock, turn, since, spent, rounds, odd>>

Truth == <<turn, since, spent, rounds, odd>>

ChainsInit ==
  /\ op = [state |-> "pending", task |-> FALSE, late |-> FALSE, serverTime |-> 0, clientTime |-> 0,
           hopMark |-> 0, hops |-> 1, elicitations |-> <<>>, elicitRound |-> 0]
  /\ hopFrames = <<[kind |-> "request", ts |-> 0, asked |-> {}]>> /\ gone = 0 /\ hopClock = 0
  /\ turn = "server" /\ since = 0 /\ spent = [server |-> 0, client |-> 0] /\ rounds = <<>> /\ odd = FALSE

-----------------------------------------------------------------------------
(* Charging time. *)

MarkHop(c, into) ==
  IF hopClock <= c.hopMark THEN c
  ELSE [c EXCEPT ![into] = @ + (hopClock - c.hopMark), !.hopMark = hopClock]

(* What really passed: the turn ends with the first frame that hands it over. *)
HandsOver(to) ==
  /\ spent' = [spent EXCEPT ![turn] = @ + (hopClock - since)]
  /\ since' = hopClock /\ turn' = to

HopFrame(kind, asked) == hopFrames' = Append(hopFrames, [kind |-> kind, ts |-> hopClock, asked |-> asked])

-----------------------------------------------------------------------------
(* Questions. *)

Question(k) == [key |-> k, asked |-> hopClock, action |-> Unanswered, answered |-> 0]
ParseElicitations(keys) == [i \in 1 .. Cardinality(keys) |-> Question(SetToSeq(keys)[i])]

LastRound(c) == SubSeq(c.elicitations, c.elicitRound + 1, Len(c.elicitations))

(* Faulty variant: a repeat of the same questions is a round of its own. *)
NeverSameRound(recorded, parsed) == FALSE

SameElicitRound(recorded, parsed) ==
  /\ recorded # <<>> /\ Len(recorded) = Len(parsed)
  /\ \A i \in DOMAIN recorded : recorded[i].key = parsed[i].key

(* The server answers with questions for the user; asks is empty for one that asks for sampling, for
   roots or for nothing but a retry. *)
Parks(asks) ==
  LET round == ParseElicitations(asks) IN
  op' = IF SameElicitRound(LastRound(op), round) THEN op
        ELSE [MarkHop(op, "serverTime") EXCEPT
                !.elicitRound = Len(op.elicitations), !.elicitations = @ \o round]

AsksInput ==
  /\ op.state = "pending" /\ ~op.task /\ turn = "server" /\ Len(hopFrames) < MaxHopFrames
  /\ \E asks \in SUBSET Key :
       /\ Parks(asks) /\ HopFrame("response", asks)
       /\ rounds' = Append(rounds, [keys |-> asks, at |-> hopClock, said |-> [k \in Key |-> Unanswered], when |-> 0])
       /\ odd' = (odd \/ (rounds # <<>> /\ asks # {} /\ rounds[Len(rounds)].keys = asks))
  /\ HandsOver("client") /\ UNCHANGED <<gone, hopClock>>

(* The same result once more on the same id. *)
Resends ==
  /\ op.state = "pending" /\ turn = "client" /\ Len(hopFrames) < MaxHopFrames
  /\ LET asks == rounds[Len(rounds)].keys
     IN  Parks(asks) /\ HopFrame("response", asks) /\ odd' = (odd \/ asks = {})
  /\ UNCHANGED <<gone, hopClock, turn, since, spent, rounds>>

(* Only the newest round is answered, and what was answered stays so. *)
AnswersRound(c, said) ==
  [i \in DOMAIN c.elicitations |->
     LET e == c.elicitations[i] IN
     IF i <= c.elicitRound \/ e.action # Unanswered \/ said[e.key] = Unanswered THEN e
     ELSE [e EXCEPT !.action = said[e.key], !.answered = hopClock]]

RetriesOp ==
  /\ op.state = "pending" /\ turn = "client" /\ op.hops < MaxHops /\ Len(hopFrames) < MaxHopFrames
  /\ \E said \in [Key -> {Unanswered, "accept"}] :
       /\ \A k \in Key : said[k] # Unanswered => k \in rounds[Len(rounds)].keys
       /\ op' = [MarkHop([op EXCEPT !.elicitations = AnswersRound(op, said)], "clientTime") EXCEPT !.hops = @ + 1]
       /\ rounds' = [rounds EXCEPT ![Len(rounds)].said = said, ![Len(rounds)].when = hopClock]
  /\ HopFrame("request", {}) /\ HandsOver("server") /\ UNCHANGED <<gone, hopClock, odd>>

-----------------------------------------------------------------------------
(* How it ends. *)

CompletesOp ==
  /\ op.state = "pending" /\ ~op.task /\ turn = "server" /\ Len(hopFrames) < MaxHopFrames
  /\ op' = [MarkHop(op, "serverTime") EXCEPT !.state = "completed"]
  /\ HopFrame("response", {}) /\ HandsOver("nobody") /\ UNCHANGED <<gone, hopClock, rounds, odd>>

HandsOpTask ==
  /\ op.state = "pending" /\ ~op.task /\ turn = "server" /\ Len(hopFrames) < MaxHopFrames
  /\ op' = [op EXCEPT !.task = TRUE]
  /\ HopFrame("response", {}) /\ UNCHANGED <<gone, hopClock, Truth>>

(* The notification that ends the task is about the call without pointing at it. *)
TaskEnds ==
  /\ op.state = "pending" /\ op.task
  /\ op' = [MarkHop(op, "serverTime") EXCEPT !.state = "completed"]
  /\ HandsOver("nobody") /\ UNCHANGED <<hopFrames, gone, hopClock, rounds, odd>>

(* Cancelled while the client is asked, the wait goes to the server's account. *)
CancelsOp ==
  /\ op.state = "pending" /\ ~op.task /\ Len(hopFrames) < MaxHopFrames
  /\ op' = [MarkHop(op, "serverTime") EXCEPT !.state = "cancelled"]
  /\ HopFrame("notification", {})
  /\ odd' = (odd \/ turn = "client") /\ HandsOver("server") /\ UNCHANGED <<gone, hopClock, rounds>>

LateResult ==
  /\ op.state = "cancelled" /\ ~op.late /\ Len(hopFrames) < MaxHopFrames
  /\ op' = [MarkHop(op, "serverTime") EXCEPT !.late = TRUE]
  /\ HopFrame("response", {}) /\ HandsOver("nobody") /\ UNCHANGED <<gone, hopClock, rounds, odd>>

Drops  == gone < Len(hopFrames) /\ gone' = gone + 1 /\ UNCHANGED <<op, hopFrames, hopClock, Truth>>
HopTimePasses == hopClock < MaxHopTime /\ hopClock' = hopClock + 1 /\ UNCHANGED <<op, hopFrames, gone, Truth>>

ChainsNext ==
  \/ AsksInput \/ Resends \/ RetriesOp \/ CompletesOp \/ HandsOpTask \/ TaskEnds
  \/ CancelsOp \/ LateResult \/ Drops \/ HopTimePasses

ChainsSpec == ChainsInit /\ [][ChainsNext]_chainVars

-----------------------------------------------------------------------------
(* Reading it back. *)

Held == SubSeq(hopFrames, gone + 1, Len(hopFrames))

(* One pass over the frames: a request opens a hop, the first answer after it closes it. *)
Walk(walk, ev) ==
  LET n == Len(walk.hops) IN
  CASE ev.kind = "request" ->
         [walk EXCEPT !.hops = Append(@, [asked |-> {}, pending |-> TRUE, from |-> ev.ts, server |-> 0,
            client |-> IF walk.last < 0 THEN 0 ELSE ev.ts - walk.last])]
    [] ev.kind = "response" /\ n > 0 ->
         IF ~walk.hops[n].pending THEN walk
         ELSE [hops |-> [walk.hops EXCEPT ![n].pending = FALSE, ![n].server = ev.ts - walk.hops[n].from, ![n].asked = ev.asked],
               last |-> ev.ts]
    [] OTHER -> walk

HopsOf ==
  IF op.hops < 2 THEN <<>>
  ELSE FoldLeft(LAMBDA w, ev : Walk(w, ev), [hops |-> <<>>, last |-> -1], Held).hops

SumOf(side) == FoldLeft(LAMBDA n, hop : n + hop[side], 0, HopsOf)

HopsComplete ==
  op.hops < 2 \/ (Len(HopsOf) = op.hops /\ SumOf("server") = op.serverTime /\ SumOf("client") = op.clientTime)

(* Elicitations finds the operation by a request frame that is still held. *)
Ledger == IF \E i \in DOMAIN Held : Held[i].kind = "request" THEN ToSet(op.elicitations) ELSE {}

-----------------------------------------------------------------------------
(* Each side is charged what it took, however often the operation changes hands (markHop). *)
ChargedRightly ==
  ~odd =>
    /\ turn \in {"client", "nobody"} => op.serverTime = spent.server
    /\ turn \in {"server", "nobody"} /\ op.state # "cancelled" => op.clientTime = spent.client

(* The breakdown calls itself complete whenever every frame is there and the operation ended with one,
   and then it is what happened (interactionsOf). *)
BrokenDown ==
  ~odd =>
    /\ gone = 0 /\ ~op.task /\ op.state = "completed" => HopsComplete
    /\ HopsComplete /\ op.hops > 1 /\ op.state = "completed" =>
         /\ SumOf("server") = spent.server /\ SumOf("client") = spent.client
         /\ \A i \in DOMAIN rounds : HopsOf[i].asked = rounds[i].keys

TimesAddUp == ChargedRightly /\ BrokenDown

(* A row of the ledger is one question of one round, with the answer of the retry that followed it and
   of no other (answerCall, el.answer). *)
RowOf(r, k) == [key |-> k, asked |-> r.at, action |-> r.said[k],
                answered |-> IF r.said[k] = Unanswered THEN 0 ELSE r.when]
RowsAreTheirs == ~odd => Ledger \subseteq UNION {{RowOf(r, k) : k \in r.keys} : r \in ToSet(rounds)}

(* And every question of every round has one. *)
RowsAreAll == ~odd => Len(op.elicitations) = FoldLeft(LAMBDA n, r : n + Cardinality(r.keys), 0, rounds)

AnswersAreTheirs == RowsAreTheirs /\ RowsAreAll

(* "a server resending the same result on one id is not a new hop", whatever it asks for.  Does not
   hold: see README. *)
ResendIsNoHop == [][Resends => UNCHANGED <<op.serverTime, op.clientTime, op.hopMark>>]_chainVars
=============================================================================
