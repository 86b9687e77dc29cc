SPECIFICATION RSpec
CONSTANTS
    a = a
    b = b
    TaskIds = {a, b}
    Runs = {r1}
    Jobs = {j1}
    Calls = {c1}
    Candidates <- TheCandidates
    None = None
    MaxReplays = 1
    MaxCheckpoints = 1
    MaxRestores = 1
INVARIANTS
    DeadLettersReplay
