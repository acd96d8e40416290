\* What carries frames onward while they are captured, one part at a time.
CONSTANTS
  Buffer = 2
  Wire = 2
  MaxEmits = 4
  h1 = h1  h2 = h2  h3 = h3  h4 = h4
  Hubs <- MCHubs
  NoSocket = NoSocket
  Overlap = "fresh"
  Ids <- MCIds
  Limit = 1
  MaxAttempts = 2
  MaxFrames = 5
  MaxSeries = 1
  MaxCancelled = 1
  MaxObserved = 4
SPECIFICATION LiveSpec
INVARIANTS LiveFeedExact SettledAreSent MetricsExact
PROPERTIES OnceAndWhole FeedRecovers
CHECK_DEADLOCK FALSE
