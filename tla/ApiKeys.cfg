SPECIFICATION Spec
CONSTANTS
    Workers = {w1, w2}
    Users = {mia, noa}
    Staff = {mia}
    Keys = {k1, k2}
    Handles = {h1, h2}
    NoKey = NoKey
    NoRequest = NoRequest
    MaxExpires = 2
    Lives = {2, 3}
    TokenLife = 1
    MaxClock = 2
    MaxRequests = 3
SYMMETRY Interchangeable
INVARIANTS TypeOK IdentityVouched AuthorityBounded RevokedStays
PROPERTY ImplementsKeyLife
CHECK_DEADLOCK FALSE
