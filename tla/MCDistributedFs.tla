-------------------------- MODULE MCDistributedFs --------------------------
(***************************************************************************)
(* Instance of DistributedFs for TLC.  No operation tells the threads, nor *)
(* the paths, apart.                                                       *)
(***************************************************************************)
EXTENDS DistributedFs, TLC

Symmetric == Permutations(Threads) \cup Permutations(Paths)
=============================================================================
