SPECIFICATION Spec
CONSTANTS
  c1 = c1
  c2 = c2
  Codes = {c1, c2}
  FirstCode = c1
  Requests = {q1}
  Checks = 2
  MaxOps = 3
  Edits <- CodeEdits
  Empty = Empty
  Missing = Missing
  None = None
INVARIANTS
  WorkSaved
  ReportVouches
  ReleasedWasValidated
  AppliedToReviewed
CHECK_DEADLOCK FALSE
