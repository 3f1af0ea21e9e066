CONSTANTS
  MaxLen = 2
  MaxByte = 2
  MaxSyms = 3
  Tables <- SortedPairs
  Names <- AllNames
SPECIFICATION FairSpec
INVARIANTS InBounds FoundIsRight FoundIfPresent
PROPERTY Terminates
CHECK_DEADLOCK FALSE
