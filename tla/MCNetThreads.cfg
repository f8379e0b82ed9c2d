SPECIFICATION Spec
CONSTANTS
  IoThreads <- OneIo
  Listen = "listen"
  Cap = 1
CHECK_DEADLOCK FALSE
INVARIANTS
  TypeOK
  FreedWhenTold
PROPERTIES
  StopEnds
