SPECIFICATION FairSpec
CONSTANTS
    MaxThreads = 2
    MaxChans = 1
    Capacities = {0, 1}
    MaxOps = 2
CHECK_DEADLOCK FALSE
INVARIANTS
    AllJoined
    ValuesConserved
PROPERTIES
    LookupsProceed
    ValuesReachReceivers
