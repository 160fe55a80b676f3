SPECIFICATION Spec
CONSTANTS
    None = None
    Sessions = {s1}
    Threads = {t1, t2}
    Kinds = {"clean", "gaps", "overflow"}
    MaxUploads = 2
    MaxLines = 1
    MaxFaults = 1
    MaxCrashes = 1
SYMMETRY Symmetry
INVARIANTS
    AckedIsDurable
    FilingInOrder
    StatusIsJustified
    ReferencesHold
PROPERTIES
    FiledStays
