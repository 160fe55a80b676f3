SPECIFICATION GFairSpec
CONSTANTS
    None = None
    Sessions = {s1, s2}
    Threads = {t1}
    Sockets = {c1, c2}
    Kinds = {"clean"}
    Replies = {"fine"}
    MaxUploads = 1
    MaxLines = 0
    MaxFaults = 1
    MaxCrashes = 1
    MaxMessages = 1
INVARIANTS
    GTypeOK
    SessionsAreOwn
    NoneIsOrphaned
PROPERTIES
    AbandonedIsFinal
    EndedIsClosed
CHECK_DEADLOCK FALSE
