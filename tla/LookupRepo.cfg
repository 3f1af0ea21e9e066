CONSTANTS
  MaxLen = 2
  MaxByte = 6
  MaxSyms = 0
  Tables <- RepoTables
  Names <- RepoNames
SPECIFICATION Spec
INVARIANT FoundIfPresent
CHECK_DEADLOCK FALSE
