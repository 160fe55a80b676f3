SPECIFICATION Spec
CONSTANTS
    None = None
    Sessions = {s1}
    Threads = {t1, t2}
    Kinds = {"clean"}
    MaxUploads = 2
    MaxLines = 0
    MaxFaults = 1
    MaxCrashes = 1
SYMMETRY Symmetry
PROPERTIES
    AckedIsFiled
