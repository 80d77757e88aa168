SPECIFICATION Spec
CONSTANTS
  Tasks = {t1}
  NoTask = NoTask
  MaxRuns = 2
  MaxFollowups = 2
  Requests = {q1}
  HandMoves = {"in_review"}
  Destinations = {"none", "todo"}
  Setups <- MCRuns
INVARIANTS
  LiveRunsWork
  ParkedIsIdle
  AtMostOnce
  EndedRunKeepsNoQueue
PROPERTIES
  StoppedGetsNoMessage
