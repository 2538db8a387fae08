SPECIFICATION FairSpec
CONSTANTS
    MaxFibers = 2
    MaxChans = 1
    Capacities = {0, 1, 2}
    MaxOps = 3
    WakeupCap = 1
    FiberQuantum = 2
    DebuggerAttached = FALSE
INVARIANTS
    ResumeWithExpected
    SendCompletesInTime
    ChannelContents
    OnePlace
    PlacementInv
    IoAccounted
    DeadlockReportSound
    OkMeansSpawnedDone
PROPERTIES
    ImplementsChannels
    ReadyRuns
    WakeupConsumed
