SPECIFICATION Spec
CONSTANTS
  primary = primary
  companion = companion
  template = template
  Members <- MCMembers
  Optional = {template}
  Evidence <- MCEvidence
  Profiles = {"local", "team", "enterprise", "air_gapped", "regulated"}
  MaxAge = 0
  MaxInstances = 2
  MaxSequence = 2
  None = None
INVARIANTS
  PassIdentifiesMembers
CHECK_DEADLOCK FALSE
