SPECIFICATION Spec
CONSTANTS
    Bytes = {"a"}
    Inserts <- LetterInserts
    None = None
    Requests = {}
    Bindings = {}
    Capacity = 1
    MaxHistory = 1
    MaxVersion = 2
    MaxLen = 1
    MaxGen = 2
    CrashKinds = {"process", "power"}
    MaxCrashes = 1
    MaxFaults = 1
INVARIANTS
    CommittedBytesStable
    MemoryIsAuthority
    AckedSurvives
    StaysOpenable
    FallbackComplete
PROPERTIES
    ImplementsStore
CHECK_DEADLOCK FALSE
