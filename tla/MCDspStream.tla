----------------------------- MODULE MCDspStream -----------------------------
(* Two contents tell a block from its neighbour.                           *)
EXTENDS DspStream

CONSTANTS b1, b2

MCBlocks == {b1, b2}

=============================================================================
