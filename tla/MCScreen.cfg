\* What shows a capture to its reader, one part at a time.
CONSTANTS
  a = a  b = b  s1 = s1  s2 = s2
  Shown = {a, b}
  HeldFrames = 2
  MaxArrivals = 3
  StdioFrames = {"p"}
  HttpFrames = {"f", "g"}
  MaxRuns = 2
  MaxEditors = 1
  HeldBlocks = 2
  MaxBlocks = 3
  Ids = {1}
  FindingsShown = 1
  MaxResults = 3
  MaxLogged = 3
  Exporters = {1, 2}
  LogFiles = {1, 2}
  FirstLogs <- MCFirstLogs
  MaxAppends = 1
  ClientOf <- MCClientOf
  MaxSent = 4
  MaxOther = 1
SPECIFICATION Spec
SYMMETRY Symmetry
INVARIANTS
  CursorsHold
  ReplaysAsShown
  ExportsAreWhole
  OutputsExact
PROPERTIES
  DeletesWhatWasAsked
CHECK_DEADLOCK FALSE
