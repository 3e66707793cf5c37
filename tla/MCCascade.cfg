SPECIFICATION EngineSpec
CONSTANTS
    r1 = r1
    r2 = r2
    r3 = r3
    poll = poll
    digest = digest
    alert = alert
    NoWorkflow = NoWorkflow
    NoRun = NoRun
    Runs <- MCRuns
    Workflows <- MCWorkflows
    Mode <- MCMode
    Scheduled <- MCScheduled
    Endpoints <- MCEndpoints
    Listeners <- MCListeners
    MaxDepth = 0
    Limit = 1
    Ttl = 1
    MaxTime = 0
INVARIANT CascadeIsBounded
CHECK_DEADLOCK FALSE
