CONSTANTS
    e1 = e1
    e2 = e2
    v1 = v1
    initial = initial
    same = same
    additive = additive
    retyped = retyped
    Executors = {e1, e2}
    Verifiers = {v1}
    Plans = {initial, same, additive, retyped}
    Physical <- PhysicalOfPlans
    StatementsOf <- StatementsOfPlans
    ResourcesOf <- ResourcesOfPlans
    ResourceOf <- MCResourceOf
    Indexes <- MCIndexes
    MaxApplies = 3
    MaxChecks = 1
    NoPlan = NoPlan
    NoFingerprint = NoFingerprint
    Missing = Missing
    NoRow = NoRow
    Divergent = Divergent
SPECIFICATION Spec
SYMMETRY Symmetry
INVARIANTS
    TypeOK
    RecordedIsComplete
    VerifiedStaysTrue
PROPERTIES
    ReportedTruly
CHECK_DEADLOCK FALSE
