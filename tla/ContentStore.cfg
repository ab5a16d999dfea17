SPECIFICATION Spec
CONSTANTS
    Workers = {w1, w2}
    Items = {plan, skill}
    Bundles = {b1, b2}
    NoItem = NoItem
    NoRequest = NoRequest
    MaxRequests = 5
SYMMETRY Interchangeable
INVARIANTS TypeOK ShowsOwnRevision Backed AuditChain
PROPERTIES ImplementsRegister
CHECK_DEADLOCK FALSE
