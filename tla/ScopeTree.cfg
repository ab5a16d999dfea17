SPECIFICATION Spec
CONSTANTS
    Workers = {w1, w2}
    bl = bl
    other = other
    branch = branch
    Beamlines = {bl, other}
    Branches = {branch}
    Configured = {bl, branch}
    ConfigParent <- FromConfig
    Top = Top
    Gone = Gone
    NoRequest = NoRequest
    MaxRequests = 5
    MaxRestarts = 1
SYMMETRY Interchangeable
INVARIANTS TypeOK TrailExplainsTree RemovalSeesWhatStands ServingMeansSeeded
CHECK_DEADLOCK FALSE
