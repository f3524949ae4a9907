SPECIFICATION Spec
CONSTANTS
    MaxLeaf = 2
    InsertLens = {0, 1, 6}
    MaxText = 8
    MaxSplices = 3
    MaxDamage = 1
INVARIANTS
    ReadsExact
    VerifiedReads
    NeverRefused
    ImageImports
CHECK_DEADLOCK FALSE
