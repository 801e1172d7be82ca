------------------------- MODULE MCCheckpointRevert -------------------------
(* Small instances of CheckpointRevert.                                    *)
EXTENDS CheckpointRevert, TLC

Symmetry == Permutations(Keys)
=============================================================================
