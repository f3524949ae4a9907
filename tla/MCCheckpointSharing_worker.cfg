SPECIFICATION SharingSpec
CONSTANTS
    Keys = {k1}
    Values = {v1}
    None = None
    MaxCount = 1
    MaxGen = 1
    MaxId = 1
    SoftLimit = 1
    WalSegment = 4
    MinReserve = 3
    CrashKinds = {}
    MaxCrashes = 0
    MaxFaults = 0
INVARIANTS
    WorkerLosesNothing
CHECK_DEADLOCK FALSE
