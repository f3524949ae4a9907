------------------------- MODULE MCCheckpointSharing -------------------------
(***************************************************************************)
(* Model-checking instances of CheckpointSharing.                          *)
(***************************************************************************)
EXTENDS CheckpointSharing, TLC

Symmetry == Permutations(Keys)
=============================================================================
