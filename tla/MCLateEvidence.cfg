SPECIFICATION AuditSpec
CONSTANTS
  e1 = e1  e2 = e2  g2 = g2  f2 = f2
  policies = policies  snapshot = snapshot  timeline = timeline
  k1 = k1  k2 = k2
  Manifest = Manifest  Readme = Readme  Temporary = Temporary  Stray = Stray
  NoEvent = NoEvent  NoBundle = NoBundle
  HistoricalEvents <- MCEvents
  Namespace <- MCNamespace
  Epoch <- MCEpoch
  Sequence <- MCSequence
  Predecessor <- MCPredecessor
  AvailableAt <- MCAvailableAt
  Revokes <- MCRevokes
  Supersedes <- MCSupersedes
  OtherSubject = {}
  RangeStart = 1
  RangeEnd = 2
  CutoffSequence = 1
  MaxTimelineEvents = 3
  MaxTimelineForks = 1
  MaxReportInputs = 5
  MaxListedEvents = 3
  MaxListedIds = 2
  LastMoment = 2
  MemberPaths <- MCMemberPaths
  Schema <- MCSchema
  Directories <- MCDirectories
  DirectoryOf <- MCDirectoryOf
  Makers <- MCMakers
  Plans <- MCPlans
  MaxMembers = 3
  Edits <- MCEdits
  MaxEdits = 2
INVARIANTS
  OnlyKnownEvidenceCounts
CHECK_DEADLOCK FALSE
