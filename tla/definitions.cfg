SPECIFICATION MCSpec
CONSTANTS
    NoFlow = NoFlow
    TaskIds <- TheTaskIds
    Requests <- TheRequests
    Params <- TheParams
    Bundles <- TheBundles
    Jobs <- AllJobs
    Inputs <- TheInputs
INVARIANTS
    ServesRunnableJobs
    RegisteredIsWritten
    DependenciesListedFirst
    VerdictIsMeaning
    ProvisionedAfterKyc
