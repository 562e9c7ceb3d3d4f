CONSTANTS
  A = A
  R = R
  O = O
  a1 = a1
  a2 = a2
  r1 = r1
  r2 = r2
  o1 = o1
  NoPath = NoPath
  Nobody = Nobody
  Hives = {A, R, O}
  Owner = O
  Links <- MCLinks
  Workers = {a1, a2, r1, r2, o1}
  HiveOf <- MCHiveOf
  Starts <- MCPushers
  INFINITY_DISTANCE = 9
  MaxBreaks = 0
SPECIFICATION Spec
PROPERTY ContinuedByOwnAnswer
CHECK_DEADLOCK FALSE
