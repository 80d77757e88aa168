SPECIFICATION Spec
CONSTANTS
  Tasks = {t1}
  NoTask = NoTask
  MaxRuns = 2
  MaxFollowups = 1
  Requests = {q1}
  HandMoves = {"in_review"}
  Destinations = {"none"}
  Setups <- MCArchive
INVARIANTS
  ArchivedIsQuiet
