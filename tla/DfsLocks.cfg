CONSTANTS
    NoThread = NoThread
    Threads = {t1, t2, t3}
    Paths = {a, b}
    MayLock <- AllPaths
    Closers = {t1}
    MaxCalls = 2
SPECIFICATION FairSpec
INVARIANTS
    TypeOK
    MutualExclusion
PROPERTIES
    ContentionJams
    GrantedUnlessJammed
    ImplementsPathLock
\* A contended lock stops the system.
CHECK_DEADLOCK FALSE
