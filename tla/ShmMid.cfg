CONSTANTS
  NodeCount = 3
  Base = 1
  Growth = "LINEAR"
  Total = 5
  SerialMax = 2
  HeadSize = 32
  FirstItem = 28
  ItemSize = 24
SPECIFICATION Spec
INVARIANTS LiveResolves
