SPECIFICATION Spec
CONSTANTS
    r1 = r1
    r2 = r2
    Runs <- MCRuns
    Limit = 1
    Ttl = 2
    MaxTime = 4
INVARIANTS
    PermitsConserved
    JobReflectsRun
    JobKeptForItsTtl
    EventFollowsRegistry
PROPERTIES
    JobsSettleOnce
    BackgroundRunSettles
CHECK_DEADLOCK FALSE
