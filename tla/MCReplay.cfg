\* Replays: a session, its HTTP side, a single call.
CONSTANTS
  Scene <- MCScene
  Scripts <- MCScripts
  MaxTalk = 2
SPECIFICATION MCSpec
INVARIANTS
  RepliesExact
PROPERTIES
  ReplaysFaithfully
  ReplayEnds
CHECK_DEADLOCK FALSE
