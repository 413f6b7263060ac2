SPECIFICATION SessionSpec
CONSTANTS
  Platforms = {"android", "ios"}
  RetryOffered = TRUE
  Failures = {FALSE}
  MaxAttempts = 2
  MaxEvents = 4
INVARIANTS
  DirectStopsMesh
CHECK_DEADLOCK FALSE
