CONSTANTS
  e1 = e1
  e2 = e2
  p1 = p1
  p2 = p2
  s1 = s1
  s2 = s2
  t1 = t1
  t2 = t2
  Sensors = {s1, s2}
  Tokens = {t1}
  Endpoints = {}
  Events = {e1, e2}
  SensorOf <- PairSensorOf
  OriginOf <- PairOriginOf
  ExpiryOf <- PairExpiryOf
  Weak = {e2}
  EnvOf <- ProductionOnly
  SameQuakeWindow = 1
  MaxFuture = 2
  MaxExpiry = 2
  SeenTTL = 5
  MaxSubscriptions = 1
  KillSwitches = {TRUE, FALSE}
  Mortal = {t1}
  MaxRounds = 2
  Lanes = 1
  MaxClock = 6
  MaxCalls = 2
  MaxRestarts = 1
SPECIFICATION Spec
INVARIANTS TypeOK OneRingPerQuake ClaimsAreBacked
CHECK_DEADLOCK FALSE
