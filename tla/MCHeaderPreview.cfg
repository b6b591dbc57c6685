SPECIFICATION Spec
CONSTANTS
  FileSize = 215
  MaxRequest = 45
  ReadAhead = 40
  MaxTotal = 200
  MaxRequests = 6
  MaxMetadata = 1
  MaxTensors = 0
  MaxKey = 50
  MaxName = 1
  MaxString = 50
  MaxElements = 6
  MaxDimensions = 6
  MaxAlignment = 64
  PreviewLimit = 2
  Counts <- MCCounts
  Lengths <- MCLengths
  Alignments <- MCAlignments
  Offsets <- MCOffsets
INVARIANTS
  PreviewIsBounded
CHECK_DEADLOCK FALSE
