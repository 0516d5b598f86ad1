-------------------------- MODULE MCCheckpointSaver --------------------------
(* Instances of CheckpointSaver for TLC.                                   *)
EXTENDS CheckpointSaver

CONSTANTS p1, p2, c1, k1
=============================================================================
