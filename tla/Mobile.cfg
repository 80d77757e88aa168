SPECIFICATION FairSpec
CONSTANTS
  MaxChallenges = 1
  MaxSessions = 3
  MaxStreams = 1
  MaxAttempts = 2
  Phones = {p1}
  Desks = {d1, d2}
INVARIANTS
  UsedOnce
  RemovedStaysOut
  VoidedIsUseless
  StreamsAreUsable
PROPERTIES
  PausedIsClosed
