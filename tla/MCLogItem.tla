------------------------------ MODULE MCLogItem ------------------------------
(* The item pool on its own: four blocks, lengths on both sides of the       *)
(* default size and at it, an int so narrow that the counter reaches its end. *)
EXTENDS LogItem, TLC

CONSTANTS i1, i2, i3, i4

MCItems == {i1, i2, i3, i4}
MCLengths == 1 .. 5
MCSymmetry == Permutations(MCItems)

=============================================================================
