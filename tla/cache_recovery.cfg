SPECIFICATION FairSpec
CONSTANTS
  i1 = i1
  i2 = i2
  i3 = i3
  small = small
  big = big
  huge = huge
  g1 = g1
  g2 = g2
  NoGoal = NoGoal
  Ids = {i1, i2, i3}
  Contents = {small, huge}
  Goals = {g1}
  MaxBytes = 10
  Ttl = 1
  PruneBatch = 1
  ScanRows = 2
  RefreshK = 2
  SearchRows = 3
  MaxTime = 1
  MaxHits = 1
  MaxFetches = 1
  SizeOf <- MCSizeOf
  Similarity <- MCSimilarity
INVARIANTS
  PassesRecede
PROPERTIES
  BudgetRecovered
