SPECIFICATION MCSpec
CONSTANTS
    Invocations = {i1, i2, i3}
    Threshold = 2
    Cooldown = 2
    Batches <- TheBatches
    Manifest <- TheManifest
    Concurrency = 1
    Definitions <- TheDefinitions
    Tasks <- TheTasks
    Weight <- TheWeight
    DependencyLists <- TheLists
    RunSets <- TheRunSets
    MaxConcurrency = 2
    Jobs = {j1, j2}
    Expressions <- TheExpressions
    DateOf <- SmallDate
    Horizon = 8
    MaxSchedules = 2
    MaxTime = 7
    None = None
INVARIANTS
    ClosedMeansHealthy
    ProbeOutstanding
    CountersAgree
    ItemsOnce
    PoolOrdered
    LastInFirstOut
    EndIsHonest
    PlanIsRight
    BegunAfterNeeds
    DoneMeansExecuted
PROPERTIES
    OpenShields
    Recovers
    StopsAfterFailure
    EveryBatchReturns
    FiresOncePerMatch
    DueIsTriggered
