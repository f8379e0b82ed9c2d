CONSTANTS
  TVR = 2
  TVN = 2
  Wheels = 3
  Firsts = {0, 2, 4}
  Intervals = {0, 3, 5}
  Nums = {0, 1, 2, 5}
  MaxTimers = 2
  Heads = {TRUE, FALSE}
  StartTicks = {0}
  MaxTicks = 5
  MaxCrash = 1
SPECIFICATION Spec
CHECK_DEADLOCK FALSE
INVARIANTS TypeOK ListsSound OnTime 
PROPERTIES RunsAsAsked DeletedStaysDead TickEnds
