-------------------------- MODULE MCCustodyLedger --------------------------
(* Two artifacts, four attestations and a few declarations, for TLC. *)
EXTENDS CustodyLedger, TLC

CONSTANTS a, b, moved, quantized, restored, supposed

MCAttestations == {moved, quantized, restored, supposed}
Statement(kind, from, to, origin, linkage, observed) ==
  [kind |-> kind, subject |-> to, inputs |-> <<from>>, outputs |-> <<to>>,
   origin |-> origin, linkage |-> linkage, observed |-> observed,
   bytes |-> "SAME", boundary |-> "SAME"]
MCContent ==
  moved :> Statement("TRANSFER", a, a, "IMPORTED_ATTESTATION", "FULLY_VERIFIED",
                     FALSE) @@
  quantized :> Statement("QUANTIZATION", a, b, "VERIFIED_EXECUTION_RECORD",
                         "FULLY_VERIFIED", FALSE) @@
  restored :> Statement("TRANSFORMATION", b, a, "SYSTEM_OBSERVED", "PARTIAL", TRUE) @@
  supposed :> Statement("ACQUISITION", a, a, "SYSTEM_OBSERVED", "FULLY_VERIFIED",
                        FALSE)

Declared(type, subject, inputs, outputs, origin, evidence) ==
  [type |-> type, subject |-> subject, inputs |-> inputs, outputs |-> outputs,
   origin |-> origin, evidence |-> evidence]
ByDigest == {[role |-> "other", mode |-> "digest_only_verification",
              digest |-> Unknown]}
Misplaced == {[role |-> "model_passport", mode |-> "full_verification",
               digest |-> Unknown]}
MCDeclaredEvents ==
  {Declared("ARTIFACT_ACQUISITION_RECORDED", a, <<a>>, <<>>, "USER_DECLARED", ByDigest),
   Declared("QUANTIZATION_RECORDED", b, <<b>>, <<b>>, "USER_DECLARED", {}),
   Declared("ARTIFACT_ACQUISITION_RECORDED", b, <<>>, <<>>, "USER_DECLARED", Misplaced),
   Declared("REVOCATION_RECORDED_RESERVED", a, <<>>, <<>>, "USER_DECLARED", {}),
   Declared("PASSPORT_ISSUED", a, <<>>, <<>>, "SYSTEM_OBSERVED", {})}

MCSymmetry == Permutations(Files) \cup Permutations(Runs) \cup Permutations(Profiles)
=============================================================================
