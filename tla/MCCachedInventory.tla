------------------------- MODULE MCCachedInventory -------------------------
(* CachedInventory on a small instance. *)
EXTENDS CachedInventory, TLC

CallerSymmetry == Permutations(Threads)
=============================================================================
