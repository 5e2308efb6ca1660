CONSTANTS
  t1 = t1
  t2 = t2
  Tokens = {t1, t2}
  Limit = 1
  MaxCalls = 5
  MaxFailures = 1
  MaxRestarts = 1
SPECIFICATION Spec
INVARIANTS TypeOK RegisteredIsKept TelemetryIsKept
SYMMETRY TokenSymmetry
CHECK_DEADLOCK FALSE
