SPECIFICATION Spec
CONSTANTS
  N = 2
  Limits = {2, 3}
  Estimates = {1, 2}
  Excess = 1
  Attempts = 2
  MaxSteps = 2
  MaxStarts = 3
INVARIANTS
  BillSafe
  WithinBudget
  NoReplay
PROPERTIES
  CompletedStays
CHECK_DEADLOCK FALSE
