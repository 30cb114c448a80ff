SPECIFICATION Spec
CONSTANTS
  Regions <- TightMap
  WordBits = 8
  WordsPerFrame = 2
  MaxTables = 1
  NoFrame = NoFrame
  Start = 4
  Size = 6
  TableSpan = 2
  MaxRequest = 3
  NoEntry = NoEntry
  Empty = Empty
INVARIANT LiveBacked
INVARIANT NoStrayFrame
INVARIANT MappingNeverConflicts
PROPERTY LiveFramesStable
PROPERTY NoneOnlyWhenFull
PROPERTY ImplementsPageSource
