SPECIFICATION Spec
CONSTANTS
  Tasks = {t1}
  NoTask = NoTask
  MaxRuns = 2
  MaxFollowups = 1
  Requests = {q1, q2}
  HandMoves = {"in_review"}
  Destinations = {"none"}
  Setups <- MCRaces
SYMMETRY MCSymmetry
INVARIANTS
  OneActiveRun
  PendingSteerHasJob
  QuietWhileUp
