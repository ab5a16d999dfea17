SPECIFICATION Spec
CONSTANTS
    Workers = {w1, w2}
    Users = {mia, noa}
    Images = {i1, i2}
    None = None
    NoRequest = NoRequest
    MaxRequests = 4
SYMMETRY Interchangeable
INVARIANTS TypeOK PromiseKept RetryNeverRefused
PROPERTY NoTakeover
CHECK_DEADLOCK FALSE
