CONSTANTS
    t1 = t1
    t2 = t2
    Threads = {t1, t2}
    Transactional = {TRUE, FALSE}
    MaxBegins <- BeginsOfEither
    NoThread = NoThread
SPECIFICATION FairSpec
INVARIANTS
    TypeOK
    OutcomesAreTruthful
    ReturnedOnceAndClean
    NoRollbackAfterCommit
PROPERTIES
    CloseGivesBack
    CallsReturn
CHECK_DEADLOCK FALSE
