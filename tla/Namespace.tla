----------------------------- MODULE Namespace -----------------------------
(***************************************************************************)
(* What a file system promises of its name space: every path names at     *)
(* most one file, and to create, to remove and to move a file are atomic. *)
(* Files are numbered in the order of their creation.                     *)
(***************************************************************************)
EXTENDS Naturals

CONSTANT Paths

VARIABLES at,      \* the file that each path names, or 0
          created  \* how many files have been created

Init ==
    /\ at = [p \in Paths |-> 0]
    /\ created = 0

Create(p) ==
    /\ at[p] = 0
    /\ created' = created + 1
    /\ at' = [at EXCEPT ![p] = created + 1]

Remove(p) ==
    /\ at[p] # 0
    /\ at' = [at EXCEPT ![p] = 0]
    /\ UNCHANGED created

Move(p, q) ==
    /\ at[p] # 0 /\ at[q] = 0
    /\ at' = [at EXCEPT ![p] = 0, ![q] = at[p]]
    /\ UNCHANGED created

Next == \E p \in Paths : Create(p) \/ Remove(p) \/ \E q \in Paths : Move(p, q)

Spec == Init /\ [][Next]_<<at, created>>
=============================================================================
