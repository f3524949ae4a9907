SPECIFICATION ReaderSpec
CONSTANTS
    Bytes = {"a"}
    Inserts <- LetterInserts
    Requests = {}
    Bindings = {}
    None = None
    Capacity = 1
    MaxHistory = 1
    MaxVersion = 2
    MaxLen = 1
    MaxGen = 2
    CrashKinds = {"process"}
    MaxCrashes = 1
    MaxFaults = 0
INVARIANTS
    ReaderNeverInvents
    SealedReaderComplete
    ReaderBytesStable
CHECK_DEADLOCK FALSE
