------------------------------ MODULE DfsLocks ------------------------------
(***************************************************************************)
(* The path locks of fs::distributed_file_system: a table of mutexes,     *)
(* m_path_locks, that m_locks_mutex protects.  Threads call lock, release *)
(* and close.  A step is what a thread does between two points where it   *)
(* may have to wait for a mutex, so the threads interleave as the mutexes *)
(* let them.                                                               *)
(*                                                                         *)
(* Callers keep the preconditions of std::mutex, for which the class has  *)
(* no check: a thread does not lock a path it holds, and releases only    *)
(* paths it holds.                                                         *)
(***************************************************************************)
EXTENDS Naturals

CONSTANTS Threads, Paths,
          NoThread,   \* owner of a free mutex
          MayLock,    \* the paths each thread uses
          Closers,    \* the threads that call close
          MaxCalls    \* bound: calls of lock by each thread

ASSUME LocksAssumption ==
    /\ NoThread \notin Threads
    /\ MayLock \in [Threads -> SUBSET Paths]
    /\ Closers \subseteq Threads
    /\ MaxCalls \in Nat

VARIABLES tableMutex,  \* the thread that owns m_locks_mutex
          pathLocks,   \* the keys of m_path_locks
          owner,       \* the thread that owns each path's mutex
          pc,          \* where each thread is
          arg,         \* the path of its call
          held,        \* the paths each thread took and has not given back
          calls,       \* how often each thread called lock
          closed       \* the threads that called close

vars == <<tableMutex, pathLocks, owner, pc, arg, held, calls, closed>>

Init ==
    /\ tableMutex = NoThread
    /\ pathLocks = {}
    /\ owner = [p \in Paths |-> NoThread]
    /\ pc = [t \in Threads |-> "idle"]
    /\ arg \in [Threads -> Paths]
    /\ held = [t \in Threads |-> {}]
    /\ calls = [t \in Threads |-> 0]
    /\ closed = {}

(* ------------------------------- lock(path) ----------------------------- *)

CallLock(t) ==
    /\ pc[t] = "idle"
    /\ t \notin closed
    /\ calls[t] < MaxCalls
    /\ \E p \in MayLock[t] \ held[t] : arg' = [arg EXCEPT ![t] = p]
    /\ pc' = [pc EXCEPT ![t] = "lock"]
    /\ calls' = [calls EXCEPT ![t] = @ + 1]
    /\ UNCHANGED <<tableMutex, pathLocks, owner, held, closed>>

\* (Wrong on purpose: the mutex is made under a key that is no path.)
EnterWithWrongKey(t) ==
    /\ pc[t] = "lock"
    /\ tableMutex = NoThread
    /\ tableMutex' = t
    /\ pathLocks' = pathLocks \cup {t}
    /\ pc' = [pc EXCEPT ![t] = "acquire"]
    /\ UNCHANGED <<owner, arg, held, calls, closed>>

\* Takes m_locks_mutex and finds or makes the path's mutex.
EnterLock(t) ==
    /\ pc[t] = "lock"
    /\ tableMutex = NoThread
    /\ tableMutex' = t
    /\ pathLocks' = pathLocks \cup {arg[t]}
    /\ pc' = [pc EXCEPT ![t] = "acquire"]
    /\ UNCHANGED <<owner, arg, held, calls, closed>>

\* (Wrong on purpose: a mutex that is taken is taken again.)
AcquireTaken(t) ==
    /\ pc[t] = "acquire"
    /\ owner' = [owner EXCEPT ![arg[t]] = t]
    /\ held' = [held EXCEPT ![t] = @ \cup {arg[t]}]
    /\ tableMutex' = NoThread
    /\ pc' = [pc EXCEPT ![t] = "idle"]
    /\ UNCHANGED <<pathLocks, arg, calls, closed>>

\* (Wrong on purpose: lock returns with m_locks_mutex in its hands.)
AcquireKeepsTable(t) ==
    /\ pc[t] = "acquire"
    /\ owner[arg[t]] = NoThread
    /\ owner' = [owner EXCEPT ![arg[t]] = t]
    /\ held' = [held EXCEPT ![t] = @ \cup {arg[t]}]
    /\ pc' = [pc EXCEPT ![t] = "idle"]
    /\ UNCHANGED <<tableMutex, pathLocks, arg, calls, closed>>

\* Gets the path's mutex, and leaves m_locks_mutex on return: lock waits for
\* the one with the other in its hands.
AcquirePath(t) ==
    /\ pc[t] = "acquire"
    /\ owner[arg[t]] = NoThread
    /\ owner' = [owner EXCEPT ![arg[t]] = t]
    /\ held' = [held EXCEPT ![t] = @ \cup {arg[t]}]
    /\ tableMutex' = NoThread
    /\ pc' = [pc EXCEPT ![t] = "idle"]
    /\ UNCHANGED <<pathLocks, arg, calls, closed>>

(* ----------------------------- release(path) ---------------------------- *)

CallRelease(t) ==
    /\ pc[t] = "idle"
    /\ t \notin closed
    /\ \E p \in held[t] : arg' = [arg EXCEPT ![t] = p]
    /\ pc' = [pc EXCEPT ![t] = "release"]
    /\ UNCHANGED <<tableMutex, pathLocks, owner, held, calls, closed>>

\* (Wrong on purpose: the mutexes of all paths are unlocked.)
ReleaseAll(t) ==
    /\ pc[t] = "release"
    /\ tableMutex = NoThread
    /\ owner' = [p \in Paths |-> NoThread]
    /\ held' = [held EXCEPT ![t] = @ \ {arg[t]}]
    /\ pc' = [pc EXCEPT ![t] = "idle"]
    /\ UNCHANGED <<tableMutex, pathLocks, arg, calls, closed>>

\* (Wrong on purpose: m_locks_mutex is not taken.)
ReleaseUnguarded(t) ==
    /\ pc[t] = "release"
    /\ owner' = IF arg[t] \in pathLocks THEN [owner EXCEPT ![arg[t]] = NoThread] ELSE owner
    /\ held' = [held EXCEPT ![t] = @ \ {arg[t]}]
    /\ pc' = [pc EXCEPT ![t] = "idle"]
    /\ UNCHANGED <<tableMutex, pathLocks, arg, calls, closed>>

\* Takes m_locks_mutex, unlocks the path's mutex if there is one, returns.
DoRelease(t) ==
    /\ pc[t] = "release"
    /\ tableMutex = NoThread
    /\ owner' = IF arg[t] \in pathLocks THEN [owner EXCEPT ![arg[t]] = NoThread] ELSE owner
    /\ held' = [held EXCEPT ![t] = @ \ {arg[t]}]
    /\ pc' = [pc EXCEPT ![t] = "idle"]
    /\ UNCHANGED <<tableMutex, pathLocks, arg, calls, closed>>

(* -------------------------------- close() ------------------------------- *)

\* "just do nothing"; the caller uses the file system no more.
Close(t) ==
    /\ pc[t] = "idle"
    /\ t \in Closers \ closed
    /\ closed' = closed \cup {t}
    /\ UNCHANGED <<tableMutex, pathLocks, owner, pc, arg, held, calls>>

Next ==
    \E t \in Threads :
        \/ CallLock(t) \/ EnterLock(t) \/ AcquirePath(t)
        \/ CallRelease(t) \/ DoRelease(t)
        \/ Close(t)

Spec == Init /\ [][Next]_vars

\* Threads run, a free mutex is given to one that waits for it, and a caller
\* gives back what it took.  A thread makes at most MaxCalls calls, so the
\* threads ahead of a waiting one come to an end and weak fairness is enough.
Fairness ==
    \A t \in Threads :
        /\ WF_vars(EnterLock(t))
        /\ WF_vars(AcquirePath(t))
        /\ WF_vars(CallRelease(t))
        /\ WF_vars(DoRelease(t))

FairSpec == Spec /\ Fairness

(* ------------------------------ properties ------------------------------ *)

\* The variables have their types.
TypeOK ==
    /\ tableMutex \in Threads \cup {NoThread}
    /\ pathLocks \subseteq Paths
    /\ owner \in [Paths -> Threads \cup {NoThread}]
    /\ pc \in [Threads -> {"idle", "lock", "acquire", "release"}]
    /\ arg \in [Threads -> Paths]
    /\ held \in [Threads -> SUBSET Paths]
    /\ calls \in [Threads -> 0 .. MaxCalls]
    /\ closed \subseteq Closers

\* Between the return of lock and release a path belongs to one thread.
MutualExclusion ==
    \A t, u \in Threads : t # u => held[t] \cap held[u] = {}

\* A thread waits in lock for a path that is taken.
Jammed ==
    \E t \in Threads : pc[t] = "acquire" /\ owner[arg[t]] # NoThread

\* lock waits for the path with m_locks_mutex in its hands, and release needs
\* m_locks_mutex: the first contended lock stops every lock and every release
\* of every path, for ever.  This is what the code does.
ContentionJams ==
    [][Jammed => Jammed' /\ UNCHANGED <<held, owner, tableMutex>>]_vars

\* Whoever calls lock gets the path, unless a contended lock has stopped the
\* system: m_locks_mutex alone keeps nobody out for ever.
GrantedUnlessJammed ==
    \A t \in Threads :
        (pc[t] = "lock") ~> (pc[t] = "idle" /\ arg[t] \in held[t]) \/ Jammed

\* The table of mutexes is an exclusive lock for every path.
Locks == INSTANCE PathLock
ImplementsPathLock == Locks!Spec
=============================================================================
