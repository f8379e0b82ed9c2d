CONSTANTS
  Producers = {p1, p2}
  MaxCount = 2
  SockCap = 1
  MaxSend = 2
SPECIFICATION Spec
CHECK_DEADLOCK FALSE
INVARIANTS TypeOK NoLostWakeup BatchDrained InOrder
PROPERTIES ChannelSpec StopHonoured
