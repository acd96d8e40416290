SPECIFICATION Spec
CONSTANTS
  Conn = {"stdio", "x", "y"}
  Stdio = "stdio"
  Id = {"1", "2", "3"}
  NullId = "null"
  Task = {"t"}
  Signature = {"s"}
  Scene <- AllScenes
  MaxCalls = 3
  MaxPosts = 3
INVARIANTS
  ReachesItsOwn
  BooksAgree
PROPERTIES
  EndsOnce
\* The peers may fall silent, and nothing but a frame moves the store.
CHECK_DEADLOCK FALSE
