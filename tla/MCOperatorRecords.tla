-------------------------- MODULE MCOperatorRecords --------------------------
(* A small instance of OperatorRecords for TLC. *)
EXTENDS OperatorRecords, TLC

CONSTANTS o1, o2, x1, r1, r2

MCOperators == {o1, o2}
MCMarks     == {x1}
MCLabels    == {"located"}
MCRanges    == {r1, r2}

Symmetry == Permutations(MCOperators) \cup Permutations(MCRanges)
=============================================================================
