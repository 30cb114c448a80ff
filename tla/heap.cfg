SPECIFICATION Spec
CONSTANTS
  Class = {1, 2}
  Block <- Blocks
  BitmapBits <- Bitmaps
  PageBytes = 4
  Page = {1, 2, 3, 4, 5}
  NoPage = NoPage
  Layout <- Layouts
  Owner = {1, 2}
INVARIANT BitmapMatchesLive
INVARIANT LiveServed
INVARIANT PagesAccounted
PROPERTY ImplementsHeap
