---------------------------------- MODULE MCHub ----------------------------------
(* The hub with four logs, one more than the dedup map holds, and two shims that
   are still running: the oldest session, with two frames, and the next. *)
EXTENDS Hub

MCFrames == <<2, 1, 1, 1>>
MCShims  == {1}

(* The map of marks stays within its bound, and the gate turns away only what was handed on before
   (sweepSeen, emitFrom). *)
MarksExact == TypeOK /\ OnlySeenRefused

(* A hub that serves hands on what its shims send, and one that is cancelled returns (Run, accept). *)
RunsItsCourse == LiveFramesHandled /\ ShutsDown
=============================================================================
