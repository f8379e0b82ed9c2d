CONSTANTS
  c1 = c1
  c2 = c2
  ConnIds = {c1, c2}
  MaxGen = 2
  InMax = 2
  OutMax = 2
SPECIFICATION Spec
CHECK_DEADLOCK FALSE
PROPERTIES DeadConnDeleted SessionFollowsConn
