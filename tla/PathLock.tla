------------------------------ MODULE PathLock ------------------------------
(***************************************************************************)
(* What fs::file_system promises of lock(path, is_shared) and             *)
(* release(path): an exclusive lock for every path, that a thread holds   *)
(* from the return of lock to its release.                                *)
(***************************************************************************)
CONSTANTS Threads, Paths

VARIABLE held   \* the paths each thread holds

Init == held = [t \in Threads |-> {}]

\* Path p is nobody's, and t takes it.
Acquire(t, p) ==
    /\ \A u \in Threads : p \notin held[u]
    /\ held' = [held EXCEPT ![t] = @ \cup {p}]

Release(t, p) ==
    /\ p \in held[t]
    /\ held' = [held EXCEPT ![t] = @ \ {p}]

Next == \E t \in Threads, p \in Paths : Acquire(t, p) \/ Release(t, p)

Spec == Init /\ [][Next]_held
=============================================================================
