CONSTANTS
    Threads = {t1, t2, t3}
    NoThread = NoThread
    MinSize = 1
    MaxSize = 2
    MaxCalls <- MCMaxCalls
SPECIFICATION Spec
INVARIANTS
    TypeOK
PROPERTIES
    CloseIsFinal
    RuntimeDrains
CHECK_DEADLOCK FALSE
