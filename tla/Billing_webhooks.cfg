SPECIFICATION Spec
CONSTANTS
  Orders = {o1}
  Calls = {c1, c2}
  Amount = 2
  Ids = {i1, i2}
  Window = 1
  Lag = 1
  Retention = 3
  MaxSessions = 2
  MaxTime = 3
  None = None
INVARIANTS
  OneSession
  OrderTruth
PROPERTIES
  Recorded
CHECK_DEADLOCK FALSE
