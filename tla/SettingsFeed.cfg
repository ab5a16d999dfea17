SPECIFICATION FeedSpec
CONSTANTS
    Workers = {w1, w2}
    facility = facility
    user = user
    ada = ada
    Actors = {ada}
    Scopes = {facility, user}
    UserScopes = {user}
    Allowed = {facility, user}
    Chain <- MCChain
    Depth <- MCDepth
    Writers <- MCRoles
    Admins <- MCRoles
    Values = {x, y}
    Absent = Absent
    Default = x
    NoRow = NoRow
    NoRequest = NoRequest
    NoFetch = NoFetch
    Ops = {"put", "delete", "lock", "unlock", "migrate"}
    MaxRequests = 3
INVARIANTS NeverStaleInSilence
PROPERTIES ImplementsLedger CatchesUp
CHECK_DEADLOCK FALSE
