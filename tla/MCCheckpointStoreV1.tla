------------------------ MODULE MCCheckpointStoreV1 ------------------------
(* Small instances of CheckpointStoreV1 for TLC.                           *)
EXTENDS CheckpointStoreV1, TLC

CONSTANTS c1, c2, e1, p1, p2

ClientSymmetry == Permutations({c1, c2})
=============================================================================
