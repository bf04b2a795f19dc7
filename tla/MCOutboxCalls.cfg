CONSTANTS
    w1 = w1
    w2 = w2
    i1 = i1
    i2 = i2
    opaque = opaque
    Workers = {w1, w2}
    Owners = {w1, w2}
    OwnerOf <- OwnOwner
    Events = {1, 2, 4}
    Identities = {i1, i2}
    Opaque = {opaque}
    Intent <- ThreeIntents
    InOrder = FALSE
    Limit = 2
    Fitting <- SomeFit
    LeaseTicks = 1
    Threshold = 2
    MaxAttempts = 2
    MaxFaults = 0
    NoOwner = NoOwner
    NoEvent = NoEvent
    NoWrite = NoWrite
SPECIFICATION Spec
SYMMETRY Symmetry
INVARIANTS
    TypeOK
    CheckpointMatchesCompletions
    CallsSerialised
CHECK_DEADLOCK FALSE
