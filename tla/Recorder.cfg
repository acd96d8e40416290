CONSTANT MaxPlaces = 4
SPECIFICATION FairSpec
INVARIANTS
  InTurn
  PassedOverOnlyWhenLetGo
  NothingInTurnWaits
  CompleteAtClose
PROPERTIES
  CapturesCausally
  RecordsAndReturns
CHECK_DEADLOCK FALSE
