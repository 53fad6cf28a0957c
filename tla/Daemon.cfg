CONSTANTS
    Modulus <- MCModulus
    Documents <- MCDocuments
    MiB = 4
    MaxThreads = 3
    MaxQueue = 6
    MaxGets = 2
    Hosts = {"s"}
    Ids = {"a", "b"}
    NoName = ""
    Capacities = {0, 1}
    Wrap = 16
SPECIFICATION Spec
INVARIANTS
    ExitCodeTellsWhy
    KeptAreConstructed
    TemplatesAgree
PROPERTIES
    SelectIsBest
\* The daemon ends.
CHECK_DEADLOCK FALSE
