SPECIFICATION Spec
CONSTANTS
    a = a
    b = b
    TaskIds = {a, b}
    Runs = {r1}
    Jobs = {j1}
    Calls = {c1}
    Candidates <- LiveCandidates
    None = None
INVARIANT
    FailedRunsAreDeadLettered
