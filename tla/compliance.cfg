SPECIFICATION Spec
CONSTANTS
    Grain = 10
    AatoLimit = 5
    Docs <- MCDocs
CHECK_DEADLOCK FALSE
INVARIANTS
    TypeOK
    VerdictIsStatutory
    ClaimsAreIgnored
    AbsenceFabricatesNothing
