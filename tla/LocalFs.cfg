CONSTANTS
    reader = reader  writer = writer
    Processes = {reader, writer}
    Paths <- MCPaths
    Dcs <- MCDcs
    LockFile <- MCLockFile
    Disks <- MCDisks
    Calls <- MCCalls
    MaxCalls <- MCMaxCalls
SPECIFICATION Spec
INVARIANTS
    TypeOK
    LockFileHasHolder
    SoleHolderIsRecorded
    ListingIsRight
\* The processes stop after MaxCalls calls.
CHECK_DEADLOCK FALSE
