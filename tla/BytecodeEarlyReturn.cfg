CONSTANTS
    Programs <- EarlyReturn
    StackSize = 28
    MaxFrames = 6
    GlobalsSize = 32
SPECIFICATION Spec
INVARIANT StackBalanced
