SPECIFICATION Spec
CONSTANTS
    Workers = {w1, w2}
    facility = facility
    beamline = beamline
    user = user
    guest = guest
    mia = mia
    ada = ada
    Actors = {mia, ada}
    Scopes = {facility}
    UserScopes <- MCUserScopes
    Allowed = {facility}
    Chain <- MCChain
    Depth <- MCDepth
    Writers <- MCWriters
    Admins <- MCAdmins
    Values = {x, y}
    Absent = Absent
    Default = Absent
    NoRow = NoRow
    NoRequest = NoRequest
    Ops = {"put"}
    MaxRequests = 3
SYMMETRY Interchangeable
PROPERTIES LoserIsRefused
CHECK_DEADLOCK FALSE
