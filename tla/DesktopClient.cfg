CONSTANTS
  Connecting = a1
  Preparing = a2
  Attempts = {a1, a2}
  NoAttempt = NoAttempt
  MaxRetries = 1
  Offered <- TwoOfKinds
SPECIFICATION LiveSpec
ACTION_CONSTRAINT Scenarios
CHECK_DEADLOCK FALSE
INVARIANT FailedAttemptsLeaveNoConnection
INVARIANT EstablishedConnectionIsKept
INVARIANT EndIsReported
INVARIANT PairHonoursEarlyCancel
PROPERTY AttemptsKeepContract
