CONSTANTS
  Quakes = {q1}
  Stale = 1
  CanaryEvery = 2
  RetiredAt = 5
  Misses <- MissesVal
  MaxTime = 7
  MaxTrouble = 3
SPECIFICATION Spec
INVARIANTS TypeOK NoCaptureLost SilenceIsEvidence DeadListenerIsTold
CHECK_DEADLOCK FALSE
