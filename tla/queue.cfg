CONSTANTS
    Workers = {w1, w2, w3}
    Items = {i1, i2, i3}
    NoItem = NoItem
    Spurious = TRUE
SPECIFICATION FairSpec
INVARIANTS
    TypeOK
    HandedOutOnce
    NoLostWakeup
PROPERTIES
    FifoSpec
    EveryItemTaken
CHECK_DEADLOCK FALSE
