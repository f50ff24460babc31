--------------------------- MODULE MCAllowlistDapp ---------------------------
(* Values for the constants of AllowlistDapp: one member is set up, the    *)
(* operator's own commitment may join. Clicks are symmetric.               *)
EXTENDS AllowlistDapp, TLC

CONSTANT alice

MCSetup == {CommitmentFor(alice)}
MCBatches == {Commitments}
MCSymmetry == Permutations(Slots)
=============================================================================
