CONSTANTS
    MaxHeaderSize = 2
    MaxBodySize = 2
    ReqSize = 2
    MaxRequests = 3
    Responses <- MCResponses
SPECIFICATION FairSpec
INVARIANTS
    EachAnsweredOnce
    WaitingIsWatched
    IdleIsQuiet
    OneIoAtATime
PROPERTIES
    EveryRequestEnds
\* The program makes a bounded number of requests.
CHECK_DEADLOCK FALSE
