CONSTANTS
  Frames <- MCFrames
  Shims <- MCShims
  BackfillLimit = 0
  SeenCap = 3
SPECIFICATION FairSpec
INVARIANTS
  OnceInOrder
  MarksExact
PROPERTIES
  RunsItsCourse
CHECK_DEADLOCK FALSE
