CONSTANTS
    NoPath = NoPath
    Absent = Absent
    Threads = {t1, t2}
    Paths = {a, b}
    LocalPaths = {disk}
    MaxAllocs = 4
SYMMETRY Symmetric
SPECIFICATION Spec
INVARIANTS
    TypeOK
    KeyMatchesPath
    FilesConserved
    MovedIsStored
PROPERTIES
    DanglesOnlyByRemoval
    ImplementsNamespace
\* The bound on allocations stops the threads.
CHECK_DEADLOCK FALSE
