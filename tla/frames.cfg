SPECIFICATION Spec
CONSTANTS
  Regions <- SplitMap
  WordBits = 6
  WordsPerFrame = 2
  MaxTables = 6
  Handles = {h1, h2, h3, h4, h5}
  NoFrame = NoFrame
INVARIANT TypeOK
INVARIANT OnlyOverflowFrameShared
INVARIANT BootFramesNeverHandedOut
INVARIANT NoLostFrame
PROPERTY PanicsOnlyPastFirstRegion
