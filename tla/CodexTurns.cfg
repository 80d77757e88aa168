SPECIFICATION FairSpec
CONSTANTS
  MaxChildren = 2
  MaxRequests = 4
  Runs = {1, 2}
  MaxTurns = 2
INVARIANTS
  RunningIsReal
  EndReportedOnce
  TurnIsFollowed
PROPERTIES
  StoppedHasEnded
  CallsEnd
CHECK_DEADLOCK FALSE
