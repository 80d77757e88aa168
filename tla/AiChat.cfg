SPECIFICATION FairSpec
CONSTANTS
  MaxCalls = 2
  MaxRuns = 2
  MaxEpochs = 2
INVARIANTS
  RunningIsWatched
  FilesAreInUse
  TurnsMatchRuns
PROPERTIES
  FinishedStays
  InterruptEnds
CHECK_DEADLOCK FALSE
