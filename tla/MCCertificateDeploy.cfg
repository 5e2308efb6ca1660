CONSTANTS
  Public = {pub}
  Canaries = {can}
  Listings <- ListingsVal
  RestartBlind = 1
  BeforeStart = 1
  RollbackAfter = 2
  DegradedMin = 1
  FailMin = 2
  SeenPart = 2
  SeenOf = 3
  DayStart = 1
  Day = 5
  MaxWork = 3
  MaxEvents = 2
SPECIFICATION DaySpec
INVARIANT DeployExcusesItsRestartOnly
CHECK_DEADLOCK FALSE
