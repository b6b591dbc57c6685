--------------------------- MODULE MCRemoteHeader ---------------------------
(* Headers of up to two metadata entries and two descriptors, for TLC: a     *)
(* string, a key and the dimensions may be longer than one request, and a    *)
(* request may reach over a whole descriptor.                                *)
EXTENDS RemoteHeader

MCCounts == {0, 1, 2, 6}
MCLengths == {0, 1, 50}
MCAlignments == {24, 64}
MCOffsets == {0, 32}
=============================================================================
