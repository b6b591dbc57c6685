------------------------ MODULE MCPayloadObservation ------------------------
(* Two names over two files of one or two blocks, for TLC. *)
EXTENDS PayloadObservation, TLC

CONSTANTS i1, i2, a, b

MCInodes == {i1, i2}
MCBlocks == {a, b}
MCContents == {<<a, a>>, <<b, b>>, <<a>>}

\* The initial states, up to renaming the roots and the files.
MCInit ==
  /\ Init
  /\ root = 1
  /\ \A p \in Paths : link[p] = i2 => \E q \in 1..p-1 : link[q] = i1
MCSpec == MCInit /\ [][Next]_vars
=============================================================================
