CONSTANTS
    MaxHeaderSize = 1
    MaxBodySize = 1
    MaxRequests = 2
    ReqSize = 2
    RespSize = 2
SPECIFICATION FairSpec
INVARIANTS
    AnswerIsTheServers
    LateRequestFails
PROPERTIES
    ImplementsRequestResponse
    ServerLetsGo
\* A connection that both ends closed has nothing left to do.
CHECK_DEADLOCK FALSE
