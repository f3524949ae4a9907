SPECIFICATION Spec
CONSTANTS
    None = None
    A = A
    B = B
    Messages = {A, B}
    MaxIds = 3
    Values <- ThreeValues
    MaxEvents = 2
INVARIANTS
    MirrorsPrimary
    LineageKept
    SuccessIsDurable
    IndexIsTrue
PROPERTIES
    EveryPutEnds
CHECK_DEADLOCK FALSE
