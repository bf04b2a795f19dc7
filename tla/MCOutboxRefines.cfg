CONSTANTS
    w1 = w1
    w2 = w2
    i1 = i1
    i2 = i2
    opaque = opaque
    Workers = {w1, w2}
    Owners = {w1, w2}
    OwnerOf <- OwnOwner
    Events = {1, 2, 3}
    Identities = {i1}
    Opaque = {opaque}
    Intent <- ThreeVersions
    InOrder = TRUE
    Limit = 2
    Fitting <- AllFit
    LeaseTicks = 1
    Threshold = 2
    MaxAttempts = 2
    MaxFaults = 1
    NoOwner = NoOwner
    NoEvent = NoEvent
    NoWrite = NoWrite
SPECIFICATION FairSpec
INVARIANTS
    PredecessorsCompleted
PROPERTIES
    LeasesAreHonoured
    CheckpointMovesForward
    ImplementsLifecycle
    EveryIntentIsServed
CHECK_DEADLOCK FALSE
