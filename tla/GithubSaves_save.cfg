SPECIFICATION Spec
CONSTANTS
  Paths = {"README.md", "app"}
  Values = {v, w}
  Readme = "README.md"
  AutoInit = "auto"
  v = v
  w = w
  MaxCommits = 4
  Absent = Absent
  None = None
SYMMETRY Symmetry
INVARIANTS
  BaselineTrue
PROPERTIES
  ForeignKept
  SavedAsReviewed
