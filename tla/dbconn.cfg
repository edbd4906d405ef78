SPECIFICATION Spec
CONSTANTS
    SchedulerThreads = {s1}
    RequestThreads = {r1, r2}
    Conns = {c1, c2}
    Nobody = Nobody
    ThreadSafe = FALSE
    MaxOutages = 1
    Asked <- SomeMethods
SYMMETRY Symmetry
CHECK_DEADLOCK FALSE
INVARIANTS TypeOK MultithreadedHearsItsOwn NoOwnConnectionIsLost
