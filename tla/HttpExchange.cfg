CONSTANTS
    Paths = {"/health", "/data"}
    MaxLength = 3
    MaxBody = 2
    Default = Default
    Routes <- MCRoutes
    RequestHeaders <- MCRequestHeaders
    HandlerHeaders <- MCHandlerHeaders
SPECIFICATION Spec
INVARIANTS
    RequestArrives
    ResponseFramed
    CloseIsAnnounced
\* An exchange ends.
CHECK_DEADLOCK FALSE
