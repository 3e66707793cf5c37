SPECIFICATION Spec
CONSTANTS
    Ids = {a}
    Syncs = {s1, s2}
    MaxVersion = 3
    MaxTime = 2
    PageLimit = 1
    NoId = NoId
PROPERTY
    LastWriteWins
CHECK_DEADLOCK FALSE
