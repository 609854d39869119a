SPECIFICATION Spec
CONSTANTS
  r1 = r1
  r2 = r2
  r3 = r3
  s1 = s1
  s2 = s2
  t1 = t1
  t2 = t2
  NoSession = NoSession
  NoTask = NoTask
  Requests = {r1, r2}
  Sessions = {s1, s2}
  Tasks = {t1, t2}
  Sizes = {1}
  Limit = 3
  RssBounded = FALSE
  InOrder = TRUE
  TaskNamesSession = TRUE
  MaxFailures = 0
INVARIANTS
  GoalFollowsTask
CHECK_DEADLOCK FALSE
