SPECIFICATION SharedSpec
CONSTANTS
    Obj = {o1, o2}
    Global = {g1}
    Map = {m1}
    Thread = {main, worker}
    Main = main
    Sizes = {0, 1}
    Threshold = 2
    MaxStale = 0
    DeclaredFirst = TRUE
INVARIANTS
    SharedAlive
