SPECIFICATION ServerSpec
CONSTANTS
    Task = {main, worker1, worker2}
    Main = main
    Backends = {"native"}
    Kinds = {"stream"}
    Handles = {0, 1}
    MaxSocks = 3
    MaxSends = 1
    MaxCalls = 6
CHECK_DEADLOCK FALSE
PROPERTIES
    AcceptReturns
