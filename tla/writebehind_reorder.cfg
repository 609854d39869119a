SPECIFICATION Spec
CONSTANTS
  i1 = i1
  i2 = i2
  w1 = w1
  w2 = w2
  Ids = {i1, i2}
  Poison = {}
  Workers = {w1, w2}
  BatchSize = 2
  MaxAttempts = 2
  RefreshK = 0
  MaxWrites = 2
  MaxJobs = 2
  MaxFailures = 0
  MaxCrashes = 0
PROPERTIES
  AcknowledgedStays
CHECK_DEADLOCK FALSE
