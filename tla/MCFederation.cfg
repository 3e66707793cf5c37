SPECIFICATION Spec
CONSTANTS
    Ids = {a, b}
    Syncs = {s1, s2}
    MaxVersion = 2
    MaxTime = 2
    PageLimit = 1
    NoId = NoId
SYMMETRY Symmetry
INVARIANTS
    LocalVersionIsBehind
    CursorSkipsNothing
CHECK_DEADLOCK FALSE
