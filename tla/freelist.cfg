SPECIFICATION Spec
CONSTANTS
  ENTRIES_LEN = 4
  Pool = 9
  MaxRequest = 2
  MaxChain = 3
  Empty = Empty
  NoPages = NoPages
CHECK_DEADLOCK FALSE
INVARIANT PoolPartitioned
