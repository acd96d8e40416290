CONSTANTS
  Emitter = {e1, e2}
  Closer = {c1, c2}
  Buffer = 1
  MaxEmits = 3
SPECIFICATION FairSpec
INVARIANTS
  ExactAccount
  NothingLeftBehind
PROPERTIES
  NobodyHangs
CHECK_DEADLOCK FALSE
