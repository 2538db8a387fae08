CONSTANTS
    Programs <- CheckedPrograms
    StackSize = 28
    MaxFrames = 6
    GlobalsSize = 32
SPECIFICATION FairSpec
INVARIANTS
    
    OperandsFit
    MeaningPreserved
    
    CodeClosed
PROPERTY Terminates
