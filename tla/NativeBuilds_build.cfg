SPECIFICATION BuildSpec
CONSTANTS
  Builds = {b1, b2}
  Codes = {c1, c2}
  Readers = {d1}
  Available <- MCAvailable
  MaxCrashes = 1
  MaxDamages = 1
  Unset = Unset
SYMMETRY Symmetry
INVARIANTS
  FilesSound
  OutcomeShown
  CancelledLeavesNothing
CHECK_DEADLOCK FALSE
