SPECIFICATION FairSpec
CONSTANTS
  i1 = i1
  i2 = i2
  w1 = w1
  w2 = w2
  Ids = {i1, i2}
  Poison = {}
  Workers = {w1, w2}
  BatchSize = 1
  MaxAttempts = 2
  RefreshK = 1
  MaxWrites = 2
  MaxJobs = 1
  MaxFailures = 1
  MaxCrashes = 1
INVARIANTS
  TypeOK
  SyncedIsStored
PROPERTIES
  ImplementsTable
  LossNeedsOverlap
  RegressNeedsOvertaking
  DirtyIsFlushed
CHECK_DEADLOCK FALSE
