CONSTANTS
    NoPath = NoPath
    Absent = Absent
    Threads = {t1, t2}
    Paths = {a, b}
    LocalPaths = {disk}
    MaxAllocs = 3
SPECIFICATION Spec
INVARIANT IsDirectoryIsRight
\* The bound on allocations stops the threads.
CHECK_DEADLOCK FALSE
