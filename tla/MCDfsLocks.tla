----------------------------- MODULE MCDfsLocks -----------------------------
(***************************************************************************)
(* Instance of DfsLocks for TLC: threads that share every path.           *)
(***************************************************************************)
EXTENDS DfsLocks

AllPaths == [t \in Threads |-> Paths]
=============================================================================
