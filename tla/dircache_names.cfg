SPECIFICATION Spec
CONSTANTS
  FileSystems = {ram1, ram2}
  Populated = {ram1}
  FileNames <- MCFileNames
  DirNames <- MCDirNames
  Queries <- MCQueries
  CACHE_SIZE = 2
  EntriesPerBlock = 2
  MaxInodes = 3
  NoName = NoName
  NoInode = NoInode
  LongName = LongName
  BadName = BadName
  NoFs = NoFs
  Keys <- MCKeys
  MaxAlike = 5
  MaxHeld = 1
  MaxTicks = 1
INVARIANT GetFindsNamedFile
