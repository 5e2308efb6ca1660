CONSTANTS
  t1 = t1
  t2 = t2
  Tokens = {t1}
  KillSwitches = {FALSE}
  Failing = {"push", "save"}
  MaxFlips = 2
  MaxRegistrations = 2
  MaxRestarts = 1
SPECIFICATION FairSpec
INVARIANTS TypeOK NobodyLeftBehind
PROPERTIES NewsAlternates LossReachesPhones
