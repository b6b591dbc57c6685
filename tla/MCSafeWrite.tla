----------------------------- MODULE MCSafeWrite -----------------------------
(* Two calls and two temporary files, for TLC. *)
EXTENDS SafeWrite, TLC

CONSTANTS w1, w2, f1, f2

MCWriters == {w1, w2}
MCFiles == {f1, f2}
MCSymmetry == Permutations(MCWriters) \cup Permutations(MCFiles)
=============================================================================
