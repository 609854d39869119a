SPECIFICATION FairSpec
CONSTANTS
  i1 = i1
  i2 = i2
  i3 = i3
  small = small
  big = big
  g1 = g1
  NoGoal = NoGoal
  Ids = {i1, i2, i3}
  Contents = {small, big}
  Goals = {g1}
  MaxBytes = 12
  WorkerBytes = 6
  PolicyMax = 8
  Ttl = 1
  PruneBatch = 3
  ScanRows = 3
  EvictPercent = 34
  PoolPercent = 100
  MinPool = 2
  MaxTime = 2
  MaxWrites = 4
  MaxStops = 1
  SizeOf <- MCSizeOf
  Similarity <- MCSimilarity
  Recency <- MCRecency
  Importance <- MCImportance
  Alike <- MCAlike
INVARIANTS
  TypeOK
  NeverUndercounts
  DriftNeedsWorker
PROPERTIES
  UniqueOutlivesStale
  PolicyRecovers
