\* The commands run beside the capture, one machine at a time.
CONSTANTS
  p1 = p1  p2 = p2  p3 = p3
  o1 = o1  o2 = o2
  Commands = {p1, p2, p3}
  Servers = {"s1", "s2"}
  MaxEdits = 2
  Words <- MCWords
  Documents <- MCDocuments
  Observers = {o1, o2}
  Labels = {"L", "M"}
  Captures <- MCCaptures
  Stored <- MCStored
  LogNames = {1, 2}
  MaxDays = 2
  Ages = {0, 1, 2, 3}
  MaxNow = 3
SPECIFICATION Spec
SYMMETRY Symmetry
INVARIANTS
  FirstTrustStands
  WalkReadsNewest
  ComparesFairly
PROPERTIES
  ConfigSafe
  PruneSparesToday
CHECK_DEADLOCK FALSE
