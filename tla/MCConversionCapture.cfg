CONSTANTS
  r1 = r1
  r2 = r2
  Runs <- MCRuns
  Roles = {"weights"}
  v1 = v1
  v2 = v2
  Versions <- MCVersions
  Commits = {1, 2}
  Expected = 1
  RequireClean = TRUE
  Consistent = TRUE
  MaxChanges = 2
  None = None
  Link = Link
  Other = Other
SYMMETRY MCSymmetry
SPECIFICATION Spec
INVARIANTS InputsAreTheRecorded TargetIsTheRecorded ReportsAreOfOneRun
CHECK_DEADLOCK FALSE
