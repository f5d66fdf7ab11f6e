---------------------------- MODULE MCMPMCQueue ----------------------------
(* Instances of MPMCQueue for TLC.                                         *)
EXTENDS MPMCQueue, TLC

\* The threads of a side are interchangeable, and so are the items.
Symmetry == Permutations(Producers) \cup Permutations(Consumers) \cup Permutations(Items)
=============================================================================
