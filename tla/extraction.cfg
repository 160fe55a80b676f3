SPECIFICATION FairSpec
CONSTANTS
    Documents <- MCDocuments
    Values <- MCValues
    Timeout = 2
INVARIANTS
    TypeOK
    AcceptedInContract
    NoEscape
PROPERTIES
    CallReturns
CHECK_DEADLOCK FALSE
