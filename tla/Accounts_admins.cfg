SPECIFICATION Spec
CONSTANTS
  Users = {ann, bob}
  Cookies = {k1, k2}
  Calls = {c1, c2}
  LinkLife = 1
  SessionLife = 2
  IdleLife = 1
  MaxLinks = 2
  MaxTime = 2
  None = None
SYMMETRY Symmetric
CHECK_DEADLOCK FALSE
INVARIANTS
  SessionsHonest
PROPERTIES
  AdminRemains
  ByLiveLink
