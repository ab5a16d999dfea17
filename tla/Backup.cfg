SPECIFICATION BackupSpec
CONSTANTS
    Workers = {w1}
    Items = {plan}
    b1 = b1
    b2 = b2
    b3 = b3
    Bundles = {b1, b2, b3}
    NoItem = NoItem
    NoRequest = NoRequest
    MaxRequests = 3
    Dir <- MCDir
    Keep = 1
    MaxRuns = 3
SYMMETRY Interchangeable
INVARIANTS ReportedRestorable AlwaysRestorable ServiceStaysSound
CHECK_DEADLOCK FALSE
