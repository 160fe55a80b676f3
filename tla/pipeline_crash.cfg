SPECIFICATION Spec
CONSTANTS
    None = None
    Sessions = {s1, s2}
    Threads = {t1, t2}
    Kinds = {"clean", "gaps"}
    MaxUploads = 2
    MaxLines = 0
    MaxFaults = 0
    MaxCrashes = 1
SYMMETRY Symmetry
INVARIANTS
    TypeOK
    LedgersAgree
PROPERTIES
    FilingIsComplete
    ImplementsService
