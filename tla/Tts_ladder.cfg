CONSTANTS
  d1 = d1
  d2 = d2
  d3 = d3
  a = a
  b = b
  Delivery = {d1, d2, d3}
  Content = {a, b}
  Text <- Repeated
  Slots = 1
  Prefetch = 2
  MAX_RETRIES = 3
  MaxCrashes = 1
  MaxFaults = 2
  MaxLosses = 1
  Scenario <- Scenarios
SPECIFICATION LadderFairSpec
INVARIANTS
  HitHasAudio
  SingleFlight
  WaitersOutlastWinner
  OldLockHarmless
PROPERTY
  Settled
CHECK_DEADLOCK FALSE
