SPECIFICATION RSpec
CONSTANTS
    a = a
    b = b
    TaskIds = {a, b}
    Runs = {r1}
    Jobs = {j1}
    Calls = {c1, c2}
    Candidates <- TheCandidates
    None = None
    MaxReplays = 1
    MaxCheckpoints = 1
    MaxRestores = 1
SYMMETRY Perms
INVARIANTS
    StallsOnlyInBackoff
    CompletedReplayIsSilent
