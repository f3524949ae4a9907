SPECIFICATION Spec
CONSTANTS
    Keys = {k1, k2, k3}
    Values = {v1}
    None = None
    MaxCount = 3
    MaxGen = 3
    MaxId = 2
    SoftLimit = 1
    WalSegment = 4
    MinReserve = 3
    CrashKinds = {"process", "power"}
    MaxCrashes = 2
    MaxFaults = 1
SYMMETRY Symmetry
INVARIANTS
    AckedSurvives
    MemoryIsAuthority
PROPERTIES
    ImplementsLog
