SPECIFICATION AllSpec
CONSTANTS
  kr = kr
  ka = ka
  kb = kb
  ks = ks
  main = main
  other = other
  Absent = Absent
  Keys <- MCKeys
  Purposes <- MCPurposes
  Inputs <- MCInputs
  n1 = n1
  n2 = n2
  n3 = n3
  n4 = n4
  n5 = n5
  x = x
  y = y
  z = z
  Objects <- MCObjects
  Dimensions <- MCDimensions
  Graphs <- MCGraphs
  MaxNodes = 4
  MaxEdges = 5
  MaxDepth = 3
  MaxListed = 2
  SnapshotCounts = {0, 3}
  e1 = e1  e2 = e2  g2 = g2  f2 = f2
  policies = policies  snapshot = snapshot  timeline = timeline
  k1 = k1  k2 = k2
  Manifest = Manifest  Readme = Readme  Temporary = Temporary  Stray = Stray
  NoEvent = NoEvent  NoBundle = NoBundle
  HistoricalEvents <- MCEvents
  Namespace <- MCNamespace
  Epoch <- MCEpoch
  Sequence <- MCSequence
  Predecessor <- MCPredecessor
  AvailableAt <- MCAvailableAt
  Revokes <- MCRevokes
  Supersedes <- MCSupersedes
  OtherSubject = {}
  RangeStart = 1
  RangeEnd = 2
  CutoffSequence = 1
  MaxTimelineEvents = 3
  MaxTimelineForks = 1
  MaxReportInputs = 5
  MaxListedEvents = 3
  MaxListedIds = 2
  LastMoment = 2
  MemberPaths <- MCMemberPaths
  Schema <- MCSchema
  Directories <- MCDirectories
  DirectoryOf <- MCDirectoryOf
  Makers <- MCMakers
  Plans <- MCPlans
  MaxMembers = 3
  Edits <- MCEdits
  MaxEdits = 2
INVARIANTS
  TrustIsAnchored
  FindsAnchor
  UnmaskedIsFatal
  NothingUnrelated
  EveryDependent
  RefusalMeansDepth
  VerdictIsOfTheDirectory
  ManifestComesLast
  VerifiedHistoryIsWhole
PROPERTIES
  VerificationEnds
  PropagationEnds
CHECK_DEADLOCK FALSE
