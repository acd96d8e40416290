------------------------------ MODULE CallLifecycle ------------------------------
(***************************************************************************)
(* What a reader of a session may rely on about its calls, however the     *)
(* frames arrive: a call is opened once, ends at most once, and never      *)
(* changes its outcome.  The one thing that may still happen to a          *)
(* cancelled call is that its answer arrives after all, once.              *)
(*                                                                         *)
(* One frame may move several calls: an HTTP failure answers every request *)
(* of a batch, and the answer to a tasks request may end a task's call.    *)
(* CallStore.tla implements this.                                          *)
(***************************************************************************)
EXTENDS Naturals, FiniteSets

CONSTANT Call

VARIABLE status   \* of each call

Status == {"unseen", "open", "succeeded", "failed", "cancelled",
           "answered late", "displaced"}

Edge == {<<"unseen", "open">>, <<"open", "succeeded">>, <<"open", "failed">>,
         <<"open", "cancelled">>, <<"open", "displaced">>,
         <<"cancelled", "answered late">>}

Init == status = [c \in Call |-> "unseen"]

Moved(s) == {c \in Call : status[c] # s /\ status'[c] = s}

(* A frame opens one call at most, and only a request displaces one. *)
Frame ==
  /\ status' \in [Call -> Status]
  /\ \A c \in Call : status'[c] = status[c] \/ <<status[c], status'[c]>> \in Edge
  /\ Cardinality(Moved("open")) <= 1
  /\ Cardinality(Moved("answered late")) <= 1
  /\ Cardinality(Moved("displaced")) <= Cardinality(Moved("open"))

Spec == Init /\ [][Frame]_status
=============================================================================
