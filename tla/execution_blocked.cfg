SPECIFICATION FairSpec
CONSTANTS
    a = a
    b = b
    TaskIds = {a, b}
    Runs = {r1}
    Jobs = {j1}
    Calls = {c1}
    Candidates <- SoloCandidates
    None = None
PROPERTY
    EveryRunSettles
