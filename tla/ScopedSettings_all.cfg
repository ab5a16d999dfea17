SPECIFICATION Spec
CONSTANTS
    Workers = {w1, w2}
    facility = facility
    beamline = beamline
    user = user
    guest = guest
    mia = mia
    ada = ada
    Actors = {mia, ada}
    Scopes = {facility, beamline, user, guest}
    UserScopes <- MCUserScopes
    Allowed = {facility, beamline, user}
    Chain <- MCChain
    Depth <- MCDepth
    Writers <- MCWriters
    Admins <- MCAdmins
    Values = {x, y}
    Absent = Absent
    Default = Absent
    NoRow = NoRow
    NoRequest = NoRequest
    Ops = {"put", "delete", "lock", "unlock", "migrate"}
    MaxRequests = 4
SYMMETRY Interchangeable
INVARIANTS TypeOK AuditExplainsValue LockTrail
PROPERTIES InsertNeverOverwrites AcceptedReplacesSeen
CHECK_DEADLOCK FALSE
