CONSTANTS
  Degraded = 1
  Fail = 2
  TailLength = 3
  Limit = 1
  MaxPages = 2
  Day = 2
  MaxTime = 5
  MaxRecords = 2
  MaxTrouble = 1
SPECIFICATION Spec
CHECK_DEADLOCK FALSE
INVARIANTS TypeOK ToldOncePerOutage LongOutageIsTold NoEvidenceSkipped FailuresToldOnce DayIsCertified
