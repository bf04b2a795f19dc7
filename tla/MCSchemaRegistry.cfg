CONSTANTS
    s1 = s1
    s2 = s2
    a1 = a1
    a1x = a1x
    a2 = a2
    a3 = a3
    b1 = b1
    Sessions = {s1, s2}
    Documents = {a1, a1x, a2, a3, b1}
    SchemaOf <- MCSchemaOf
    VersionOf <- MCVersionOf
    Breaking <- MCBreaking
    Allowed = {a3}
    MaxCalls = 3
    NoRow = NoRow
    NoPin = NoPin
    NoDocument = NoDocument
SPECIFICATION FairSpec
INVARIANTS
    TypeOK
    BreakingIsExplicit
    KnownPublicationsHold
PROPERTIES
    HistoryOnlyGrows
    CallsEnd
CHECK_DEADLOCK FALSE
