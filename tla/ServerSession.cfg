CONSTANTS
    MaxHeaderSize = 2
    MaxBodySize = 2
    RespSize = 2
    MaxRequests = 3
    Requests <- MCRequests
SPECIFICATION Spec
INVARIANTS
    TypeOK
    OneIoAtATime
    OpenIsWatched
    ReadsAtMessageStart
    EachRequestOnce
    ResponsesInOrder
    NothingAfterClose
\* A closed session has nothing left to do.
CHECK_DEADLOCK FALSE
