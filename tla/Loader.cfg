SPECIFICATION Spec
CONSTANTS
    Package <- Names
    DeriveImports <- DerivedImports
    Programs <- Trees
CHECK_DEADLOCK FALSE
INVARIANTS
    LoadedExactly
    DependenciesFirst
    BrokenReported
PROPERTIES
    Ends
