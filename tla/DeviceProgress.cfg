SPECIFICATION DeviceSpec
CONSTANTS
  Platforms = {"android", "ios"}
  RetryOffered = FALSE
  Failures = {TRUE, FALSE}
  MaxAttempts = 2
  MaxEvents = 3
  MaxStarts = 2
  MaxStops = 2
  MaxRevokes = 0
  CloseMayFail = TRUE
  NoConfig = NoConfig
  NoWallet = NoWallet
PROPERTIES
  CallsReturn
  StopTakesEffect
  OpeningEnds
  StopSettles
CHECK_DEADLOCK FALSE
