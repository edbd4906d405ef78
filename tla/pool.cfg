CONSTANTS
    Threads = {t1, t2, t3, t4, t5}
    MaxOpenConnections = 3
    MAX_RETRY_COUNT = 3
    Spurious = TRUE
SPECIFICATION FairSpec
INVARIANTS
    TypeOK
    SessionsConserved
    LimitKept
    NoLostWakeup
PROPERTIES
    WaiterSeesProgress
