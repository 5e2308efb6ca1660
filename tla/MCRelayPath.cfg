\* One step of time is about three minutes: a capture is good for one step, an
\* alert for less than two after the quake, and an id is remembered for two.
SPECIFICATION Spec
CONSTANTS
  w = w
  v = v
  Alerts = {w, v}
  Timed = {w}
  TTL = 1
  MaxExpiry = 2
  SeenTTL = 2
  Attempts = 2
  MaxClock = 3
  MaxPosts = 2
  MaxBreaks = 1
INVARIANT TypeOK
INVARIANT AcceptedOncePerProcess
INVARIANT YoungWarningsAreHeld
CHECK_DEADLOCK FALSE
