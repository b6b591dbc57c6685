SPECIFICATION VerdictsSpec
CONSTANTS
  primary = primary
  companion = companion
  template = template
  Members <- MCMembers
  Optional = {template}
  Evidence <- MCEvidence
  Profiles = {"local", "team", "enterprise", "air_gapped", "regulated"}
  MaxAge = 0
  MaxInstances = 2
  MaxSequence = 2
  None = None
  v1 = v1  v2 = v2
  rita = rita  alan = alan  bert = bert  carl = carl
  NotGiven = NotGiven
  Requirements <- MCRequirements
  Items <- MCItems
  TimeRequired = FALSE
  Subjects = {v1, v2}
  Actors <- MCActors
  Roles = {"APPROVER", "RELEASE_MANAGER", "VALIDATOR", "PROMOTER"}
  Identity <- MCIdentity
  SigningKey <- MCSigningKey
  TrustRoot <- MCTrustRoot
  Requester = rita
  AcceptedActors = {alan, bert, carl}
  TrustedActors = {alan, bert, carl}
  Assigned <- MCAssigned
  Quorum <- MCQuorum
  Separation <- MCSeparation
  Gate <- MCGate
  Issuable <- MCIssuable
  Rejectable <- MCRejectable
  PriorDecisions <- MCPriorDecisions
  LastDay = 2
  MaxDecisions = 1
  MaxRecords = 3
INVARIANTS
  PassIsEarned
  ReviewableIsIntact
  AllowedRestsOnEvidence
  PromotedWasApproved
PROPERTY
  QuorumIsStable
CHECK_DEADLOCK FALSE
