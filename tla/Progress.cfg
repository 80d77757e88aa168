SPECIFICATION FairSpec
CONSTANTS
  Tasks = {t1, t2}
  NoTask = NoTask
  MaxRuns = 2
  MaxFollowups = 1
  Requests = {q1}
  HandMoves = {"in_review"}
  Destinations = {"none"}
  Setups <- MCProgress
INVARIANTS
  TypeOK
PROPERTIES
  SteersSettle
  UpdatesApplied
  RequestsAnswered
  KeepsLedger
