SPECIFICATION SharingSpec
CONSTANTS
    Keys = {k1, k2}
    Values = {v1}
    None = None
    MaxCount = 2
    MaxGen = 2
    MaxId = 1
    SoftLimit = 1
    WalSegment = 4
    MinReserve = 3
    CrashKinds = {}
    MaxCrashes = 0
    MaxFaults = 0
SYMMETRY Symmetry
INVARIANTS
    LeasedFilesStay
    DeletedStaysHidden
CHECK_DEADLOCK FALSE
