--------------------------- MODULE DfsLocksProofs ---------------------------
(***************************************************************************)
(* Safety of the path locks for any threads and paths: types, mutual      *)
(* exclusion, that the table implements PathLock, and that it jams.       *)
(***************************************************************************)
EXTENDS DfsLocks, TLAPS

(***************************************************************************)
(* The inductive invariant: the thread inside lock is the one that owns   *)
(* m_locks_mutex, and the callers hold what the mutexes say they own, so  *)
(* that a release unlocks a mutex of its caller.                           *)
(***************************************************************************)
TableInside == \A t \in Threads : pc[t] = "acquire" <=> tableMutex = t

HeldIsOwned == \A t \in Threads, p \in Paths : p \in held[t] <=> owner[p] = t

HeldIsKnown == \A t \in Threads : held[t] \subseteq pathLocks

ReleasesOwn == \A t \in Threads : pc[t] = "release" => arg[t] \in held[t]

AcquiresKnown == \A t \in Threads : pc[t] = "acquire" => arg[t] \in pathLocks

IInv == /\ TypeOK
        /\ TableInside /\ HeldIsOwned /\ HeldIsKnown /\ ReleasesOwn /\ AcquiresKnown

LEMMA InitInv == Init => IInv
BY LocksAssumption
   DEF Init, IInv, TypeOK, TableInside, HeldIsOwned, HeldIsKnown, ReleasesOwn, AcquiresKnown

LEMMA NextInv == IInv /\ [Next]_vars => IInv'
<1> SUFFICES ASSUME IInv, [Next]_vars PROVE IInv'
  OBVIOUS
<1> USE LocksAssumption
<1>1. ASSUME NEW t \in Threads, CallLock(t) PROVE IInv'
  <2>1. PICK p \in MayLock[t] \ held[t] : arg' = [arg EXCEPT ![t] = p]
    BY <1>1 DEF CallLock
  <2>2. p \in Paths
    BY <2>1
  <2>3. TypeOK'
    BY <1>1, <2>1, <2>2 DEF IInv, TypeOK, CallLock
  <2>4. TableInside' /\ HeldIsOwned' /\ HeldIsKnown'
    BY <1>1 DEF IInv, TypeOK, CallLock, TableInside, HeldIsOwned, HeldIsKnown
  <2>5. ReleasesOwn' /\ AcquiresKnown'
    BY <1>1, <2>1 DEF IInv, TypeOK, CallLock, ReleasesOwn, AcquiresKnown
  <2> QED BY <2>3, <2>4, <2>5 DEF IInv
<1>2. ASSUME NEW t \in Threads, EnterLock(t) PROVE IInv'
  <2>1. TypeOK'
    BY <1>2 DEF IInv, TypeOK, EnterLock
  <2>2. TableInside'
    BY <1>2 DEF IInv, TypeOK, EnterLock, TableInside
  <2>3. HeldIsOwned' /\ HeldIsKnown'
    BY <1>2 DEF IInv, EnterLock, HeldIsOwned, HeldIsKnown
  <2>4. ReleasesOwn' /\ AcquiresKnown'
    BY <1>2 DEF IInv, TypeOK, EnterLock, ReleasesOwn, AcquiresKnown
  <2> QED BY <2>1, <2>2, <2>3, <2>4 DEF IInv
<1>3. ASSUME NEW t \in Threads, AcquirePath(t) PROVE IInv'
  <2>1. TypeOK'
    BY <1>3 DEF IInv, TypeOK, AcquirePath
  <2>2. TableInside'
    BY <1>3 DEF IInv, TypeOK, AcquirePath, TableInside
  <2>3. HeldIsOwned'
    BY <1>3 DEF IInv, TypeOK, AcquirePath, HeldIsOwned
  <2>4. HeldIsKnown'
    BY <1>3 DEF IInv, TypeOK, AcquirePath, HeldIsKnown, AcquiresKnown
  <2>5. ReleasesOwn' /\ AcquiresKnown'
    BY <1>3 DEF IInv, TypeOK, AcquirePath, ReleasesOwn, AcquiresKnown
  <2> QED BY <2>1, <2>2, <2>3, <2>4, <2>5 DEF IInv
<1>4. ASSUME NEW t \in Threads, CallRelease(t) PROVE IInv'
  <2>1. PICK p \in held[t] : arg' = [arg EXCEPT ![t] = p]
    BY <1>4 DEF CallRelease
  <2>2. p \in Paths
    BY <2>1 DEF IInv, TypeOK
  <2>3. TypeOK'
    BY <1>4, <2>1, <2>2 DEF IInv, TypeOK, CallRelease
  <2>4. TableInside' /\ HeldIsOwned' /\ HeldIsKnown'
    BY <1>4 DEF IInv, TypeOK, CallRelease, TableInside, HeldIsOwned, HeldIsKnown
  <2>5. ReleasesOwn' /\ AcquiresKnown'
    BY <1>4, <2>1 DEF IInv, TypeOK, CallRelease, ReleasesOwn, AcquiresKnown
  <2> QED BY <2>3, <2>4, <2>5 DEF IInv
<1>5. ASSUME NEW t \in Threads, DoRelease(t) PROVE IInv'
  <2>1. /\ arg[t] \in held[t] /\ arg[t] \in Paths
        /\ owner' = [owner EXCEPT ![arg[t]] = NoThread]
    BY <1>5 DEF IInv, TypeOK, DoRelease, ReleasesOwn, HeldIsKnown
  <2>2. TypeOK'
    BY <1>5, <2>1 DEF IInv, TypeOK, DoRelease
  <2>3. TableInside' /\ HeldIsKnown'
    BY <1>5 DEF IInv, TypeOK, DoRelease, TableInside, HeldIsKnown
  <2>4. HeldIsOwned'
    BY <1>5, <2>1 DEF IInv, TypeOK, DoRelease, HeldIsOwned
  <2>5. ReleasesOwn' /\ AcquiresKnown'
    BY <1>5 DEF IInv, TypeOK, DoRelease, ReleasesOwn, AcquiresKnown
  <2> QED BY <2>2, <2>3, <2>4, <2>5 DEF IInv
<1>6. ASSUME NEW t \in Threads, Close(t) PROVE IInv'
  BY <1>6 DEF Close, IInv, TypeOK, TableInside, HeldIsOwned, HeldIsKnown, ReleasesOwn,
              AcquiresKnown
<1>7. CASE UNCHANGED vars
  BY <1>7 DEF vars, IInv, TypeOK, TableInside, HeldIsOwned, HeldIsKnown, ReleasesOwn,
              AcquiresKnown
<1> QED
  BY <1>1, <1>2, <1>3, <1>4, <1>5, <1>6, <1>7 DEF Next

LEMMA Invariance == Spec => []IInv
BY InitInv, NextInv, PTL DEF Spec

(* ------------------------------- theorems ------------------------------- *)

\* The variables of the lock table keep their types.
THEOREM TypeCorrect == Spec => []TypeOK
<1>1. IInv => TypeOK
  BY DEF IInv
<1> QED BY <1>1, Invariance, PTL

\* No path is held by two threads, whatever the number of threads and paths
\* and however they interleave.
THEOREM MutualExclusionHolds == Spec => []MutualExclusion
<1>1. IInv => MutualExclusion
  BY DEF IInv, TypeOK, HeldIsOwned, MutualExclusion
<1> QED BY <1>1, Invariance, PTL

\* The first lock that has to wait stops the table for ever: while a thread
\* waits inside lock, nobody's locks change.
THEOREM ContentionJamsHolds == Spec => ContentionJams
<1>1. ASSUME IInv, [Next]_vars, Jammed
      PROVE  Jammed' /\ UNCHANGED <<held, owner, tableMutex>>
  <2>1. PICK w \in Threads : pc[w] = "acquire" /\ owner[arg[w]] # NoThread
    BY <1>1 DEF Jammed
  <2>2. tableMutex = w /\ tableMutex # NoThread
    BY <1>1, <2>1, LocksAssumption DEF IInv, TableInside
  <2>3. \A t \in Threads : pc[t] = "acquire" => t = w
    BY <1>1, <2>2 DEF IInv, TableInside
  <2>4. ASSUME NEW t \in Threads, CallLock(t) \/ CallRelease(t)
        PROVE  /\ UNCHANGED <<held, owner, tableMutex>>
               /\ pc'[w] = pc[w] /\ arg'[w] = arg[w]
    BY <1>1, <2>1, <2>4 DEF IInv, TypeOK, CallLock, CallRelease
  <2>5. ASSUME NEW t \in Threads, EnterLock(t) \/ AcquirePath(t) \/ DoRelease(t)
        PROVE  FALSE
    BY <2>1, <2>2, <2>3, <2>5 DEF EnterLock, AcquirePath, DoRelease
  <2>6. ASSUME NEW t \in Threads, Close(t)
        PROVE  UNCHANGED <<held, owner, tableMutex, pc, arg>>
    BY <2>6 DEF Close
  <2>7. CASE UNCHANGED vars
    BY <2>1, <2>7 DEF vars, Jammed
  <2> QED BY <1>1, <2>1, <2>4, <2>5, <2>6, <2>7 DEF Next, Jammed
<1>2. IInv /\ [Next]_vars =>
        [Jammed => Jammed' /\ UNCHANGED <<held, owner, tableMutex>>]_vars
  BY <1>1
<1> QED BY <1>2, Invariance, PTL DEF Spec, ContentionJams

\* The lock table implements the abstract exclusive locks of PathLock: a lock
\* takes a path that is nobody's, a release gives back one of the caller's.
THEOREM Refinement == Spec => ImplementsPathLock
<1>1. Init => Locks!Init
  BY DEF Init, Locks!Init
<1>2. IInv /\ [Next]_vars => [Locks!Next]_held
  <2> SUFFICES ASSUME IInv, [Next]_vars PROVE [Locks!Next]_held
    OBVIOUS
  <2>1. ASSUME NEW t \in Threads, AcquirePath(t) PROVE Locks!Next
    <3>1. arg[t] \in Paths /\ \A u \in Threads : arg[t] \notin held[u]
      BY <2>1, LocksAssumption DEF IInv, TypeOK, AcquirePath, HeldIsOwned
    <3>2. Locks!Acquire(t, arg[t])
      BY <2>1, <3>1 DEF AcquirePath, Locks!Acquire
    <3> QED BY <3>1, <3>2 DEF Locks!Next
  <2>2. ASSUME NEW t \in Threads, DoRelease(t) PROVE Locks!Next
    <3>1. arg[t] \in Paths /\ arg[t] \in held[t]
      BY <2>2 DEF IInv, TypeOK, DoRelease, ReleasesOwn
    <3>2. Locks!Release(t, arg[t])
      BY <2>2, <3>1 DEF DoRelease, Locks!Release
    <3> QED BY <3>1, <3>2 DEF Locks!Next
  <2>3. ASSUME NEW t \in Threads, CallLock(t) \/ EnterLock(t) \/ CallRelease(t) \/ Close(t)
        PROVE  UNCHANGED held
    BY <2>3 DEF CallLock, EnterLock, CallRelease, Close
  <2>4. CASE UNCHANGED vars
    BY <2>4 DEF vars
  <2> QED BY <2>1, <2>2, <2>3, <2>4 DEF Next
<1> QED BY <1>1, <1>2, Invariance, PTL DEF Spec, Locks!Spec, ImplementsPathLock
=============================================================================
