SPECIFICATION MCSpec
CONSTANTS
    None = None
    Ips = {"a", "b"}
    Kinds = {"public", "key", "none"}
    AuthDisabled = FALSE
    MaxPerMinute = 2
    Window = 2
    MaxTime = 7
    MaxCount = 4
    Runs = {"r1", "r2"}
    Events <- TheEvents
    Subscriptions <- TheSubscriptions
    Tenants = {"dev", "other"}
    EmitTenant = "dev"
    MaxAttempts = 3
    MaxEndpoints = 2
    MaxHookTime = 2
    Jobs = {"j1", "j2"}
    Triggers = {"manual"}
    Filters <- TheFilters
    PageSizes = {0, 3}
    MaxPageSize = 2
    MaxRuns = 3
    MaxRunTime = 1
    Unset = Unset
    Writers = {"w1", "w2"}
    MaxAppends = 4
    MaxLives = 2
CHECK_DEADLOCK FALSE
INVARIANTS
    SpanLimited
    RefusalIsEarned
    SubscribersServed
    RecordsAreTrue
    WalkIsComplete
    JournalIsKept
