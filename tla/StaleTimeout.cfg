CONSTANTS
    MaxHeaderSize = 2
    MaxBodySize = 2
    RespSize = 2
    MaxRequests = 2
    Requests <- GoodRequests
SPECIFICATION Spec
PROPERTIES
    PerOperationTimeout
CHECK_DEADLOCK FALSE
