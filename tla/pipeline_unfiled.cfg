SPECIFICATION Spec
CONSTANTS
    None = None
    Sessions = {s1}
    Threads = {t1, t2}
    Kinds = {"clean", "overflow"}
    MaxUploads = 2
    MaxLines = 0
    MaxFaults = 0
    MaxCrashes = 1
SYMMETRY Symmetry
PROPERTIES
    NeverUnfiled
