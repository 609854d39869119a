SPECIFICATION FairSpec
CONSTANTS
  m0 = m0
  a = a
  b = b
  q = q
  NoQuery = NoQuery
  None = None
  Locals = {a, b}
  Queries = {q}
  Kept = 2
  TopK = 1
  Seeds <- MCSeeds
  Score <- MCScore
INVARIANTS
  TypeOK
  JobsAgree
  HighlightsAreCurrent
  HoverAgrees
PROPERTIES
  QueryIsSearched
