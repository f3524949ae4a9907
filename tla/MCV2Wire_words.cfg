SPECIFICATION Spec
CONSTANTS
    MaxLeaf = 1
    None = None
    NoneVersion = 2
    Threads = {1}
    Names = {1, 2, 3}
    Requests = {1}
    Texts <- WireTexts
    MaxCommits = 3
    MaxPrepared = 1
    MaxChanges = 1
    MaxCrashes = 0
    Radix = 16
INVARIANTS
    WireRecovers
    TornTailSkipped
    DamagedSealRefused
CHECK_DEADLOCK FALSE
