SPECIFICATION Spec
CONSTANTS
    Grain = 10
    AatoLimit = 5
    Docs <- TwoCodes
CHECK_DEADLOCK FALSE
INVARIANTS
    HsnIsPerCode
