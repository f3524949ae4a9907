-------------------------- MODULE MCCheckpointStore --------------------------
(***************************************************************************)
(* Model-checking instances of CheckpointStore.                            *)
(***************************************************************************)
EXTENDS CheckpointStore, TLC

Symmetry == Permutations(Keys)
=============================================================================
