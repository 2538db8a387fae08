SPECIFICATION FairSpec
CONSTANTS
    Fiber = {0, 1}
    Main = 0
    File = {"a"}
    Line = {1, 2}
    MaxDepth = 2
    MaxCmds = 2
    Command <- Chosen
CHECK_DEADLOCK FALSE
INVARIANTS
    BreakpointsAsSent
    NoBreakpointMissed
    EventStream
    StepsLeave
PROPERTIES
    CommandsTaken
    EventsArrive
