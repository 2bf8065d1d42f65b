SPECIFICATION FairSpec
CONSTANTS
  Throttle = 2
  Health = 3
  MaxBackoff = 2
  MaxConnect = 1
  MaxAttempt = 2
  MaxGeneration = 2
  MaxQueue = 1
  MaxEvents = 2
INVARIANTS LinkIsTrue SettingsSurvive UpdatesAreSpaced
PROPERTIES NewestIsShown
CHECK_DEADLOCK FALSE
