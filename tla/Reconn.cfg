SPECIFICATION Spec
CONSTANTS
  ConnIds = {1, 2}
  Fds = {3, 4}
  CacheMax = 1
  MaxTries = 3
  MaxSent = 2
  InMax = 2
  OutMax = 2
CHECK_DEADLOCK FALSE
INVARIANTS
  TypeOK
  OnceInOrder
  FlagsTrue
PROPERTIES
  Reconnects
