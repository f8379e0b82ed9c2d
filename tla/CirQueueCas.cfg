CONSTANTS
  MaxCount = 4
  MaxPush = 3
  NULL = NULL
SPECIFICATION Spec
CHECK_DEADLOCK FALSE
PROPERTIES Delivered
