SPECIFICATION FairSpec
CONSTANTS
    a = a
    b = b
    TaskIds = {a, b}
    Runs = {r1, r2}
    Jobs = {j1}
    Calls = {c1, c2}
    Candidates <- LiveCandidates
    None = None
PROPERTIES
    CallsReturn
    EveryRunSettles
