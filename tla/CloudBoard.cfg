SPECIFICATION Spec
CONSTANTS
  Tasks = {1, 2, 3}
  Projects = {"p", "q"}
  Comments = {c1, c2}
  Files = {f1, f2, f3}
  Requests = {q1, q2, q3}
  Types = {"parent", "blocks", "blocked_by", "related"}
  NoTask = 0
  NoProject = "none"
  NoComment = NoComment
  NoFile = NoFile
  Starts <- MCStarts
SYMMETRY MCSymmetry
INVARIANTS
  ParentsAreTrees
  RowsHaveObjects
  ObjectsAreOwned
  CursorMissesNothing
PROPERTIES
  KeepsBoard
CHECK_DEADLOCK FALSE
