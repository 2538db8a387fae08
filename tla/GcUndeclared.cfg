SPECIFICATION Spec
CONSTANTS
    Obj = {o1, o2}
    Global = {g1}
    Thread = {main}
    Main = main
    Sizes = {0, 1}
    Threshold = 1
    MaxStale = 0
    DeclaredFirst = FALSE
INVARIANTS
    NoDangling
