-------------------------- MODULE MCOptimisticLock --------------------------
(* Instance of OptimisticLock for TLC.                                     *)
EXTENDS OptimisticLock, TLC
Symmetry == Permutations(Clients) \cup Permutations(Ids)
=============================================================================
