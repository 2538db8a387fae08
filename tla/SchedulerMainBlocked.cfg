SPECIFICATION Spec
CONSTANTS
    MaxFibers = 2
    MaxChans = 1
    Capacities = {0, 1, 2}
    MaxOps = 2
    WakeupCap = 1
    FiberQuantum = 3
    DebuggerAttached = FALSE
INVARIANTS
    OkMeansMainDone
