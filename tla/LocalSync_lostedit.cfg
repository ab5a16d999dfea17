SPECIFICATION Spec
CONSTANTS
    LocalIds = {i}
    Absent = Absent
    Top = Top
    NoUndo = NoUndo
    MaxTime = 3
    MaxFaults = 0
INVARIANT SyncedWasSent
CHECK_DEADLOCK FALSE
