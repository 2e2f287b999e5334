----------------------------- MODULE BlockChannel -----------------------------
(***************************************************************************)
(* What a stream promises to the blocks at its ends: every block that was  *)
(* put is taken, whole, once, and in the order of the puts; there is room  *)
(* for one.                                                                *)
(***************************************************************************)
CONSTANTS
    Blocks,     \* contents of a block
    NoBlock     \* nothing: an empty slot, or nothing taken yet

VARIABLES
    slot,       \* the block between the two ends
    taken       \* the block taken last

channelVars == <<slot, taken>>

Init ==
    /\ slot = NoBlock
    /\ taken = NoBlock

Put ==
    /\ slot = NoBlock
    /\ slot' \in Blocks
    /\ UNCHANGED taken

Take ==
    /\ slot # NoBlock
    /\ taken' = slot
    /\ slot' = NoBlock

Next == Put \/ Take

Spec == Init /\ [][Next]_channelVars

=============================================================================
