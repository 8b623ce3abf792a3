SPECIFICATION FairSpec
CONSTANTS
  p1 = p1
  p2 = p2
  p3 = p3
  r1 = r1
  r2 = r2
  r3 = r3
  Projects = {p1, p2, p3}
  Runs = {r1, r2, r3}
  Edits = {e1}
  MaxActive = 2
  PoolSize = 2
  Pauses = {}
  None = None
ACTION_CONSTRAINT
  Narrow
INVARIANTS
  OneOperationPerProject
  AtMostMaxActive
  TablesAgree
PROPERTIES
  TerminalRowsFinal
  ProjectsGetFree
  ImplementsOperations
