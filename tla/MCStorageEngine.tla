-------------------------- MODULE MCStorageEngine --------------------------
(* Instances of StorageEngine for TLC.                                     *)
EXTENDS StorageEngine, TLC

Symmetry == Permutations(Threads) \cup Permutations(Blocks) \cup Permutations(Keys)
=============================================================================
