SPECIFICATION RemoteSpec
CONSTANTS
  hub = hub
  store = store
  elsewhere = elsewhere
  None = None
  Failed = Failed
  Hosts <- MCHosts
  Approved = {hub, store}
  Calls <- MCCalls
  Responses <- MCResponses
  Block = 2
  MaxResponse = 3
  MaxErrorBody = 2
  MaxRedirects = 2
  FileSize = 215
  MaxRequest = 45
  ReadAhead = 40
  MaxTotal = 200
  MaxRequests = 6
  MaxMetadata = 2
  MaxTensors = 2
  MaxKey = 50
  MaxName = 1
  MaxString = 50
  MaxElements = 6
  MaxDimensions = 6
  MaxAlignment = 64
  PreviewLimit = 5
  Counts <- MCCounts
  Lengths <- MCLengths
  Alignments <- MCAlignments
  Offsets <- MCOffsets
INVARIANTS
  AuthorizationStaysHome
  ResponsesAreClosed
  ValuesAreTheFiles
  HeaderOnce
  RefusalsAreDue
  InventoryIsConsistent
PROPERTIES
  ClientEnds
  ImplementsReadRange
CHECK_DEADLOCK FALSE
