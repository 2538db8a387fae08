SPECIFICATION Spec
CONSTANTS
    Obj = {o1, o2, o3}
    Global = {g1}
    Thread = {main}
    Main = main
    Sizes = {0, 1}
    Threshold = 2
    MaxStale = 1
    DeclaredFirst = TRUE
SYMMETRY Addresses
INVARIANTS
    NoDangling
    GcInv
    MarkExact
    BytesExact
PROPERTIES
    MarkProgress
