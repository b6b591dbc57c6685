CONSTANTS
  i1 = i1
  i2 = i2
  a = a
  b = b
  NPaths = 2
  Inodes <- MCInodes
  Blocks <- MCBlocks
  Contents <- MCContents
  Roots = {1, 2}
  Exclusions = {{}, {2}}
  HasIdentity = TRUE
  MaxFiles = 2
  MaxBytes = 3
  MaxChanges = 2
  None = None
  Special = Special
  Pipe = Pipe
  NoIdentity = NoIdentity
SPECIFICATION MCSpec
INVARIANTS RecordsAreOfTheFiles NoFileTwice CompleteCoversBothInventories QuietRootIsComplete
 
CHECK_DEADLOCK FALSE
