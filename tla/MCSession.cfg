\* One session over HTTP, one part at a time.
CONSTANTS
  Exchange = {e1}
  Body <- MCBody
  Cap = 1
  MaxLines = 2
  Session = {s1, s2}
  PayloadLimit = 3
  FrameLimit = 2
  Sizes = {1, 3}
  AwaitingKept = 1
  MaxFrames = 4
  MaxTime = 2
  Awkward = {"e'"}
  Number <- MCNumber
  MaxSafe = 1000
  Lister = {c1, c2}
  Pages = 2
  Ttls = {0, 2}
  MaxClock = 2
  MaxRuns = 2
  MaxChanges = 1
  Tool = {"s", "t"}
  MaxVersions = 2
  Client = {"c"}
  Token = {"t"}
  MaxIds = 3
  MaxProgress = 2
  Key = {"k", "l"}
  MaxHops = 3
  MaxHopFrames = 6
  MaxHopTime = 2
SPECIFICATION Spec
INVARIANTS
  CapturedInOrder
  EndsOneWay
  MemoryExact
  CompleteIsWhole
  ReportedFairly
  OperationsExact
PROPERTIES
  CachingJudgedFairly
CHECK_DEADLOCK FALSE
