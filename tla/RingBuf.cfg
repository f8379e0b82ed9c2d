SPECIFICATION Spec
CONSTANTS
  Max = 8
  LEN_SIZE = 2
  Sizes = {1, 2}
  Times = 2
  MaxWrites = 5
  MaxDeaths = 1
INVARIANTS
  TypeOK
  UnreadIntact
  CallsNext
  EmptyIsEmpty
  CountExact
  EmptyAccepts
PROPERTIES
  EachIsRead
  ImplementsChannel
