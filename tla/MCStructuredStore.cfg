CONSTANTS
    s1 = s1
    s2 = s2
    Sessions = {s1, s2}
    Keys = {1, 2}
    Requests <- MCRequests
    Limit = 1
    MaxCalls = 4
    NoRow = NoRow
    NoGuard = NoGuard
    Unwritten = Unwritten
SPECIFICATION Spec
SYMMETRY Symmetry
INVARIANTS
    TypeOK
    VersionsAreUnique
    ConditionsHeld
PROPERTIES
    FailuresLeaveNothing
CHECK_DEADLOCK FALSE
