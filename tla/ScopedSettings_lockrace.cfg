SPECIFICATION Spec
CONSTANTS
    Workers = {w1, w2}
    facility = facility
    beamline = beamline
    user = user
    guest = guest
    mia = mia
    ada = ada
    Actors = {mia, ada}
    Scopes = {facility, beamline, user}
    UserScopes <- MCUserScopes
    Allowed = {facility, beamline}
    Chain <- MCChain
    Depth <- MCDepth
    Writers <- MCWriters
    Admins <- MCAdmins
    Values = {x, y}
    Absent = Absent
    Default = Absent
    NoRow = NoRow
    NoRequest = NoRequest
    Ops = {"put", "lock"}
    MaxRequests = 2
SYMMETRY Interchangeable
PROPERTIES LockFreezes
CHECK_DEADLOCK FALSE
