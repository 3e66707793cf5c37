CONSTANTS
    Tokens = {q1, q2}
    Secrets = {p1, p2}
    Random = random
    NoSecret = NoSecret
    Lifetimes = {0, 2}
    Credentials = {cred}
    Challenges = {h}
    ChallengeTtl = 1
    SessionDays = 1
    MaxClock = 2
    MaxRestarts = 2
    Clients = {client}
    Requests = {t1, t2, t3}
    Limit = 2
    Window = 2
    KeyTtl = 1
    MaxNow = 3
    DocIds = {a, b}
    NoId = NoId
    Calls = {t1, t2, t3}
    plugin = plugin
    Wanted <- MCWanted
    MayWrite <- MCMayWrite
    MayDelete <- MCMayDelete
    Declared <- MCDeclared
    Schemas <- MCSchemas
    Keys = {p1, p2}
    Bytes = {x1, x2}
    Torn = Torn
    Absent = Absent
    Workers = {q1, q2}
    MaxBlobOps = 3
    RecIds = {i1, i2}
    Plugins = {o1, o2}
    DbKeys = {d1, d2}
    FirstKey = d1
    NoKey = NoKey
    MaxRecVersion = 2
    MaxRekeys = 2
    Natives = {np, nq}
    Syncs = {y1, y2}
    Syncing = {np}
    Free = Free
    Items = {it1, it2}
    Slots = {t1, t2, t3}
    Reprocessors = {p1, p2}
    Vacant = Vacant
    MaxStarts = 2
    SchemaSets <- MCSchemaSets
    Jobs = {p1, p2}
    Kinds = {"full", "incr"}
    MaxCount = 1
    MaxAge = 1
    LastTime = 2
    MaxPasses = 1
    Nothing = Nothing
    TornBlob = TornBlob
    People = {p1, p2}
    Homes = {q1, q2}
    Invites = {in}
    Nobody = Nobody
    Fields = {p1, p2}
    Contents = {q1, q2}
    Missing = Missing
    Collections = {"events", "tasks"}
    ConflictIds = {q}
    MaxEdits = 2
    LastMoment = 1
    Entries = {p1, p2}
    NoToken = NoToken
    RateTries = 1
    LastEdit = 2
    Sizes = {1, 2}
    MaxKeywords = 2
    NoType = NoType
    NoField = NoField
    Unwritten = Unwritten
    Urls = {q1, q2}
    MaxSubs = 3
    MaxRetries = 4
    RequestTimeout = 1
    TotalTimeout = 4
    BackoffMax = 2
    Rate = 1
    Burst = 1
    CredIds = {cr}
    Claims = {q1, q2}
    Grades = {1, 2}
    Askers = {p1, p2}
    NoCred = NoCred
    NoAsk = NoAsk
SPECIFICATION Spec
SYMMETRY Symmetry
INVARIANTS
    
    FailuresAreBounded
    
    
    
    CredentialsOpen
    NoCallIntoUnloaded
    ItemsConserved
    ListedRestores
    
    
    MergeIsThreeWay
    TokenCoversReceived
    
    EventHandledInTime
    EveryTokenAudited
PROPERTIES
    DocsAreVersioned
    
CHECK_DEADLOCK FALSE
