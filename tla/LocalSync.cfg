SPECIFICATION Spec
CONSTANTS
    LocalIds = {i, j}
    Absent = Absent
    Top = Top
    NoUndo = NoUndo
    MaxTime = 4
    MaxFaults = 1
INVARIANTS TypeOK SyncedWasTaken  DuplicatesExplained UntouchedIsPast
PROPERTIES PullKeepsUnsynced CopyCatchesUp
CHECK_DEADLOCK FALSE
