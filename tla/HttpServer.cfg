CONSTANTS
    MaxRequests = 1
    Limits <- MCLimits
    MaxHeaderSize = 2
    MaxBodySize = 0
SPECIFICATION Spec
PROPERTIES
    EveryoneIsAccepted
    EveryConnectionEnds
\* A closed server has nothing left to do.
CHECK_DEADLOCK FALSE
