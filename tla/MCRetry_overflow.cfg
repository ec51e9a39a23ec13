CONSTANTS
  PolicyAttempts = 0
  PolicyInitial = 0
  PolicyMax = 0
  DefaultAttempts = 5
  DefaultInitial = 2
  DefaultMax = 120
  Second = 4
  Half = 1048576
  Headers <- OverflowHeaders
  Millis <- NoMillisOnly
SPECIFICATION Spec
INVARIANT RetryAfterHonored
CHECK_DEADLOCK FALSE
