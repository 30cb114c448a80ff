SPECIFICATION Spec
CONSTANTS
  FileSystems = {ram}
  Handles = {h1, h2}
  Names = {a, b, c}
  LongName = LongName
  BadName = BadName
  NoName = NoName
  NoInode = NoInode
  EntriesPerBlock = 2
  MaxInodes = 2
INVARIANT NamesUnique
INVARIANT EntriesResolve
PROPERTY EntriesStable
PROPERTY OkMeansListed
PROPERTY FailureChangesNothing
SYMMETRY Symmetry
