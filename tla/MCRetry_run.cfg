CONSTANTS
  PolicyAttempts = 0
  PolicyInitial = 0
  PolicyMax = 9
  DefaultAttempts = 5
  DefaultInitial = 2
  DefaultMax = 120
  Second = 4
  Half = 1048576
  Headers <- MCHeaders
  Millis <- MCMillis
SPECIFICATION FairSpec
INVARIANTS TypeOK TotalBounded RetryAfterHonored NeverHot BackoffDoubles
PROPERTY RunEnds
CHECK_DEADLOCK FALSE
