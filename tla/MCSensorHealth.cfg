CONSTANTS
  MaxAge = 9
  NudgeAfter = 5
  UnknownAfter = 6
  FailedRetry = 6
  Leg = 4
  BootWindow = 4
  FeedWindow = 3
  RebootInterval = 6
  HostSpacing = 4
  ProblemRuns = 2
  KeeperChoices = {TRUE, FALSE}
  Cap = 11
  MaxTrouble = 2
SPECIFICATION FairSpec
INVARIANTS TypeOK OkIsTrue AwayBriefly
PROPERTIES TripConfirmedIsMade RebootsSpaced UsableAgain
