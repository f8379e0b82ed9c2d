CONSTANTS
  c1 = c1
  c2 = c2
  ConnIds = {c1, c2}
  MaxGen = 3
  InMax = 2
  OutMax = 3
SPECIFICATION Spec
SYMMETRY Symmetry
CHECK_DEADLOCK FALSE
INVARIANTS TypeOK OnlyReuseMixes SessionMatchesConn NothingAfterGoodbye
