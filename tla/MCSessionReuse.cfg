CONSTANTS
    t1 = t1
    t2 = t2
    Threads = {t1}
    Transactional = {TRUE}
    MaxBegins <- BeginsTwice
    NoThread = NoThread
SPECIFICATION Spec
INVARIANTS
    OutcomesAreTruthful
CHECK_DEADLOCK FALSE
