SPECIFICATION Spec
CONSTANTS
    Workers = {w1, w2}
    Authors = {mia, noa}
    s1 = s1
    s2 = s2
    Specs = {s1, s2}
    Seed = s1
    Bare = None
    None = None
    NoRow = NoRow
    NoRequest = NoRequest
    MaxRequests = 5
    MaxRestarts = 1
SYMMETRY Interchangeable
INVARIANTS TypeOK UsedWasEndorsed
PROPERTIES OnlyReviewGrants FirstProposalStands
CHECK_DEADLOCK FALSE
