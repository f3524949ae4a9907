SPECIFICATION Spec
CONSTANTS
    Keys = {k1, k2}
    Values = {v1}
    None = None
    MaxCount = 2
    MaxGen = 1
    MaxId = 1
    SoftLimit = 1
    WalSegment = 4
    MinReserve = 1
    CrashKinds = {"power"}
    MaxCrashes = 1
    MaxFaults = 0
INVARIANTS
    AckedSurvives
CHECK_DEADLOCK FALSE
