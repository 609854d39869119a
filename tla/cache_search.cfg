SPECIFICATION Spec
CONSTANTS
  i1 = i1
  i2 = i2
  i3 = i3
  small = small
  big = big
  huge = huge
  g1 = g1
  g2 = g2
  NoGoal = NoGoal
  Ids = {i1, i2, i3}
  Contents = {small, big}
  Goals = {g1, g2}
  MaxBytes = 20
  Ttl = 1
  PruneBatch = 3
  ScanRows = 3
  RefreshK = 0
  SearchRows = 2
  MaxTime = 1
  MaxHits = 1
  MaxFetches = 0
  SizeOf <- MCSizeOf
  Similarity <- MCSimilarity
INVARIANTS
  SearchSeesClosest
CHECK_DEADLOCK FALSE
