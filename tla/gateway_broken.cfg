SPECIFICATION GFairSpec
CONSTANTS
    None = None
    Sessions = {s1, s2}
    Threads = {t1}
    Sockets = {c1, c2}
    Kinds = {"clean"}
    Replies = {"fine", "broken"}
    MaxUploads = 1
    MaxLines = 0
    MaxFaults = 0
    MaxCrashes = 0
    MaxMessages = 1
PROPERTIES
    EndedIsClosed
CHECK_DEADLOCK FALSE
