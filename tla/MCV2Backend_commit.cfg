SPECIFICATION Spec
CONSTANTS
    MaxLeaf = 1
    None = None
    A = A
    B = B
    NoneVersion = 3
    Threads = {t1}
    Names = {c1, c2, c3}
    Requests = {r1}
    Texts <- TwinTexts
    MaxCommits = 3
    MaxPrepared = 2
    MaxChanges = 1
    MaxCrashes = 1
SYMMETRY Symmetry
INVARIANTS
    ReadsMeant
    RecoversExactly
    RequestsRemembered
    DeletedStaysDeleted
    Sealable
    AncestryKept
CHECK_DEADLOCK FALSE
