---------------------------- MODULE MCAutoTasker ----------------------------
(* A small instance of AutoTasker for TLC.  No rule of the tasker tells one *)
(* node or one emitter from another.                                        *)
EXTENDS AutoTasker, TLC

CONSTANTS n1, n2, e1, e2

MCNodes    == {n1, n2}
MCEmitters == {e1, e2}
Permuted   == Permutations(MCNodes) \cup Permutations(MCEmitters)
=============================================================================
