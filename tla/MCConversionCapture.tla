------------------------ MODULE MCConversionCapture ------------------------
(* Two runs of a spec with one source artifact, for TLC. *)
EXTENDS ConversionCapture, TLC

CONSTANTS r1, r2, v1, v2

MCRuns == {r1, r2}
MCVersions == {v1, v2}
MCSymmetry == Permutations(MCRuns) \cup Permutations(MCVersions)
=============================================================================
