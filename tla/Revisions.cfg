SPECIFICATION FairSpec
CONSTANTS
  MaxRevision = 3
INVARIANTS
  LiveIsCurrent
  ViewIsKnown
PROPERTIES
  GoesLive
  PollCatchesUp
