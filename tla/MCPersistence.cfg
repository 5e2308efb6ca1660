CONSTANTS
  Changes = {c1, c2, c3}
  MaxFailures = 2
  MaxCrashes = 2
  Sensors = {s1}
  Public = {s1}
  StaleAfter = 1
  Grace = 1
  MaxClock = 4
  MaxRestarts = 2
SPECIFICATION PartSpec
INVARIANTS TypeOK Durable WorksIsFresh
PROPERTIES ImplementsStore RetriesSucceed
CHECK_DEADLOCK FALSE
