SPECIFICATION FairSpec
CONSTANTS
    Task = {t1, t2}
    Backends = {"vm", "native"}
    Kinds = {"tls"}
    Handles = {0}
    MaxSocks = 2
    MaxSends = 1
    MaxCalls = 4
CHECK_DEADLOCK FALSE
INVARIANTS
    DescriptorsOwned
PROPERTIES
    HandlesKept
    BuiltinsReturn
    CloseUnblocks
