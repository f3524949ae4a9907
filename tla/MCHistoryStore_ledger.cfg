SPECIFICATION Spec
CONSTANTS
    Bytes = {a}
    Inserts <- LetterInserts
    Requests = {r1, r2, r3}
    Bindings = {}
    None = None
    Capacity = 2
    MaxHistory = 1
    MaxVersion = 4
    MaxLen = 1
SYMMETRY Symmetry
INVARIANTS
    StoreInvariant
    SnapshotNeverRefused
    ReceiptsTellTheTruth
    ExactlyOnceInHorizon
PROPERTIES
    NothingResurrects
CHECK_DEADLOCK FALSE
