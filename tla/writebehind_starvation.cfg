SPECIFICATION FairSpec
CONSTANTS
  i1 = i1
  i2 = i2
  w1 = w1
  w2 = w2
  Ids = {i1, i2}
  Poison = {i1}
  Workers = {w1}
  BatchSize = 2
  MaxAttempts = 2
  RefreshK = 0
  MaxWrites = 2
  MaxJobs = 1
  MaxFailures = 0
  MaxCrashes = 0
PROPERTIES
  DirtyIsFlushed
CHECK_DEADLOCK FALSE
