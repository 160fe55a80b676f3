SPECIFICATION Spec
CONSTANTS
    Grain = 10
    AatoLimit = 5
    Docs <- InterDocs
CHECK_DEADLOCK FALSE
INVARIANTS
    DivergenceIsSurfaced
