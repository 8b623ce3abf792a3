SPECIFICATION Spec
CONSTANTS
  Projects = {p1, p2}
  Origin = p1
  Codes = {c1, c2}
  Values = {v1, v2}
  Slots = {s1, s2}
  Plans <- MCPlans
  MaxOps = 4
  None = None
SYMMETRY Symmetry
INVARIANTS
  ProjectsWhole
PROPERTIES
  DataKept
  ImportedAsExported
CHECK_DEADLOCK FALSE
