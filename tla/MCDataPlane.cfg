SPECIFICATION Spec
CONSTANTS
    Ids = {a, b}
    Clients = {c1, c2}
    MaxVersion = 2
    Capacity = 2
    Threshold = 3
    MaxRestarts = 1
INVARIANTS
    VersionCountsWrites
    IndexIsConsistent
PROPERTY SearchCatchesUp
CHECK_DEADLOCK FALSE
