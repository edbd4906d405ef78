CONSTANTS
    QType = 1
    Letters <- PbsLetters
    InputMode = "irods"
    Packages = {p1}
    Jobs = {j1}
    Workers = {w1, w2}
    Pollers = {b1}
    Clients = {c1}
    NoPackage = NoPackage
    NoJob = NoJob
    MayFail = TRUE
    DbMayFail = FALSE
    JobCallbacks = TRUE
    AnswersMayBeLost = FALSE
    MaxDeletes <- JobDeletes
    MaxCrashes = 1
SPECIFICATION FairSpec
INVARIANTS
    NoJobForgotten
PROPERTIES
    EndedJobSettles
    ServiceQueueIsLeft
    CallbacksInOrder
    LifeSpec
