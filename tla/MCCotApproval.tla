---------------------------- MODULE MCCotApproval ----------------------------
(* A small instance of CotApproval for TLC. *)
EXTENDS CotApproval
=============================================================================
