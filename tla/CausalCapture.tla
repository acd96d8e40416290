------------------------------ MODULE CausalCapture ------------------------------
(***************************************************************************)
(* What a capture promises its readers, whatever the recorder does to      *)
(* achieve it.  Lines cross between two peers; a line may answer one that  *)
(* crossed before it.  The capture lists the lines that crossed, each at   *)
(* most once, and never lists an answer before the line it answers.        *)
(* Recorder.tla is shown to implement this specification.                  *)
(***************************************************************************)
EXTENDS Naturals, Sequences

CONSTANTS Line, NoLine

VARIABLES crossed,   \* the lines whose bytes reached the other peer
          cause,     \* cause[x]: the line x answers, or NoLine
          capture    \* the lines recorded so far, in order

vars == <<crossed, cause, capture>>

Captured == {capture[i] : i \in DOMAIN capture}

Init == /\ crossed = {}
        /\ cause = [x \in Line |-> NoLine]
        /\ capture = <<>>

(* A line comes into being; what it answers has already crossed. *)
Compose(x, c) == /\ x \notin crossed
                 /\ c \in crossed \cup {NoLine}
                 /\ cause' = [cause EXCEPT ![x] = c]
                 /\ UNCHANGED <<crossed, capture>>

Cross(x) == /\ x \notin crossed
            /\ crossed' = crossed \cup {x}
            /\ UNCHANGED <<cause, capture>>

(* A last line without a terminator is whole only once it has crossed. *)
ComposeAndCross(x, c) == /\ x \notin crossed
                         /\ c \in crossed \cup {NoLine}
                         /\ cause' = [cause EXCEPT ![x] = c]
                         /\ crossed' = crossed \cup {x}
                         /\ UNCHANGED capture

Record(x) == /\ x \in crossed
             /\ x \notin Captured
             /\ cause[x] \in Captured \cup {NoLine}
             /\ capture' = Append(capture, x)
             /\ UNCHANGED <<crossed, cause>>

Next == \/ \E x \in Line, c \in Line \cup {NoLine} :
              Compose(x, c) \/ ComposeAndCross(x, c)
        \/ \E x \in Line : Cross(x) \/ Record(x)

Spec == Init /\ [][Next]_vars
=============================================================================
