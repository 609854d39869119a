SPECIFICATION Spec
CONSTANTS
  i1 = i1
  i2 = i2
  w1 = w1
  w2 = w2
  Ids = {i1, i2}
  Poison = {}
  Workers = {w1}
  BatchSize = 1
  MaxAttempts = 2
  RefreshK = 0
  MaxWrites = 2
  MaxJobs = 1
  MaxFailures = 0
  MaxCrashes = 0
INVARIANTS
  SyncedIsCurrent
CHECK_DEADLOCK FALSE
