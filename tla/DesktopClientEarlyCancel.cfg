CONSTANTS
  Connecting = a1
  Preparing = a2
  Attempts = {a1, a2}
  NoAttempt = NoAttempt
  MaxRetries = 0
  Offered <- DirectOrPrepare
SYMMETRY Symmetry
SPECIFICATION Spec
CHECK_DEADLOCK FALSE
INVARIANT EarlyCancelIsNotLost
