SPECIFICATION Spec
CONSTANTS
  Regions <- LargeMap
  WordBits = 4
  WordsPerFrame = 2
  MaxTables = 2
  Handles = {h1, h2, h3, h4, h5}
  NoFrame = NoFrame
INVARIANT NoSharedFrame
