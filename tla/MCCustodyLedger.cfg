SPECIFICATION Spec
CONSTANTS
  a = a
  b = b
  moved = moved
  quantized = quantized
  restored = restored
  supposed = supposed
  Files = {f1, f2}
  Runs = {r1, r2}
  Artifacts = {a, b}
  Subject = a
  Passport = passport
  Validation = validation
  Profiles = {p1, p2}
  Unknown = unknown
  Attestations <- MCAttestations
  Content <- MCContent
  DeclaredEvents <- MCDeclaredEvents
  MaxEvents = 4
  MaxMissing = 1
  None = None
SYMMETRY MCSymmetry
INVARIANTS
  HeadCommitsToHistory
  AuthenticityIsEarned
  AppendedLedgersVerify
