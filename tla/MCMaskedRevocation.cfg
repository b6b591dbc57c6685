SPECIFICATION TrustSpec
CONSTANTS
  kr = kr
  ka = ka
  kb = kb
  ks = ks
  main = main
  other = other
  Absent = Absent
  Keys <- MCKeys
  Purposes <- MCPurposes
  Inputs <- MCInputs
INVARIANTS
  RevocationIsFatal
CHECK_DEADLOCK FALSE
