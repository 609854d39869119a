SPECIFICATION Spec
CONSTANTS
  MaxWords = 3
  MaxString = 500
INVARIANTS
  EmbedResolves
CHECK_DEADLOCK FALSE
