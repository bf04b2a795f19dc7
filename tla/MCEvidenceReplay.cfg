CONSTANTS
    s1 = s1
    s2 = s2
    k1 = k1
    k2 = k2
    a = a
    b = b
    c = c
    r1 = r1
    r2 = r2
    changed = changed
    keyless = keyless
    Sessions = {s1, s2}
    Keys = {k1, k2}
    Records = {a, b, c}
    Requests = {r1, r2, changed, keyless}
    KeyOf <- MCKeyOf
    BatchOf <- MCBatchOf
    MaxAppends = 4
    NoKey = NoKey
    NoRow = NoRow
    NoResult = NoResult
    NoRequest = NoRequest
SPECIFICATION FairSpec
INVARIANTS
    TypeOK
    AppliedOnce
    KnownAnswersHold
PROPERTIES
    AppendsEnd
CHECK_DEADLOCK FALSE
