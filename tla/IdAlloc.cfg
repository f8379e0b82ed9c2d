CONSTANTS
  N = 4
  BeginId = 2
  MaxN = 7
SPECIFICATION IdSpec
INVARIANTS IdTypeOK FreeListSound
PROPERTIES AllocatesIds
