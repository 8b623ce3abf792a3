SPECIFICATION QueueSpec
CONSTANTS
  Entries = {e1, e2}
  Workers = {w1, w2}
  Admins = {a1}
  MaxAttempts = 2
  Lease = 0
  Backoff <- MCBackoff
  SendWindow = 1
  CallLag = 1
  KeyLife = 3
  Keep = 1
  LastEnqueue = 1
  LastTime = 3
  Nobody = Nobody
INVARIANTS
  DeliveredOnce
PROPERTIES
  SentStays
  AllSettle
CHECK_DEADLOCK FALSE
