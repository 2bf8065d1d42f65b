SPECIFICATION FairSpec
CONSTANTS
  Attempts = {a1, a2}
  None = None
  MaxTokens = 2
  PollLimit = 2
  MaxFailures = 1
  MaxCrashes = 1
  MaxNoise = 1
INVARIANTS OnlyItsLoginCounts StoredTokenIsLive
PROPERTIES ClearedOnlyUseless AttemptsEnd
CHECK_DEADLOCK FALSE
