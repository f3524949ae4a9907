SPECIFICATION Spec
CONSTANTS
    Bytes = {a, b}
    Inserts <- OneByteInserts
    Requests = {}
    Bindings = {"x"}
    None = None
    Capacity = 1
    MaxHistory = 2
    MaxVersion = 3
    MaxLen = 2
SYMMETRY Symmetry
INVARIANTS
    RetainedReadsTrue
    SnapshotNeverRefused
PROPERTIES
    VersionsImmutable
CHECK_DEADLOCK FALSE
