CONSTANTS
  e1 = e1
  e2 = e2
  s1 = s1
  s2 = s2
  t1 = t1
  t2 = t2
  p1 = p1
  p2 = p2
  Sensors = {s1}
  Tokens = {t1}
  Endpoints = {p1}
  Events = {e1}
  SensorOf <- SingleSensorOf
  OriginOf <- SingleOriginOf
  ExpiryOf <- SingleExpiryOf
  Weak = {}
  EnvOf <- SandboxOnly
  SameQuakeWindow = 1
  MaxFuture = 2
  MaxExpiry = 2
  SeenTTL = 5
  MaxSubscriptions = 1
  KillSwitches = {FALSE}
  Mortal = {t1, p1}
  MaxRounds = 2
  Lanes = 1
  MaxClock = 2
  MaxCalls = 3
  MaxRestarts = 1
SPECIFICATION FairSpec
PROPERTY SandboxTokenKept
CHECK_DEADLOCK FALSE
