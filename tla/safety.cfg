CONSTANTS
    QType = 1
    Letters <- PbsLetters
    InputMode = "local"
    Packages = {p1}
    Jobs = {j1, j2}
    Workers = {w1, w2}
    Pollers = {b1}
    Clients = {c1}
    NoPackage = NoPackage
    NoJob = NoJob
    MayFail = TRUE
    DbMayFail = TRUE
    JobCallbacks = FALSE
    AnswersMayBeLost = FALSE
    MaxDeletes <- NoDeletes
    MaxCrashes = 1
SPECIFICATION Spec
SYMMETRY Symmetry
INVARIANTS
    TypeOK
    OneHandlerPerJob
PROPERTIES
    JobNeverGoesBack
