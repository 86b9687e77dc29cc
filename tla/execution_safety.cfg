SPECIFICATION Spec
CONSTANTS
    a = a
    b = b
    TaskIds = {a, b}
    Runs = {r1, r2}
    Jobs = {j1}
    Calls = {c1, c2}
    Candidates <- SafetyCandidates
    None = None
SYMMETRY Perms
INVARIANTS
    TypeOK
    RunsAreLocked
    NoLostUpdate
    DependenciesFirst
    StatusFollowsWorkflow
    CompletedMeansDone
    NeverStalls
PROPERTIES
    ProgressIsKept
    RefinesLifecycle
