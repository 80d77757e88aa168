SPECIFICATION FairSpec
CONSTANTS
  Tasks = {1, 2}
  Projects = {"p"}
  ProjectOf <- MCOneProject
  Settings <- MCSettings
  Assigned <- MCFirstClaude
  Dependencies <- MCDependencies
  HandMoves = {"done"}
  Assignments = {"person"}
  Flaky = {"claude"}
INVARIANTS
  ClosedIsQuiet
PROPERTIES
  ClaimsAreCurrent
  FrontIsClaimed
