--------------------------- MODULE MCIndexManager ---------------------------
(* Instances of IndexManager for TLC.                                      *)
EXTENDS IndexManager

\* The last key has a shard of its own.
MCHash == [k \in Keys |-> IF k = Max(Keys) THEN 1 ELSE 0]
=============================================================================
