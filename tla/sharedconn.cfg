SPECIFICATION Spec
CONSTANTS
    SchedulerThreads = {s1}
    RequestThreads = {r1}
    Conns = {c1, c2}
    Nobody = Nobody
    ThreadSafe = TRUE
    MaxOutages = 0
    Asked <- StatusMethods
SYMMETRY Symmetry
CHECK_DEADLOCK FALSE
INVARIANT NotFoundMeansAbsent
