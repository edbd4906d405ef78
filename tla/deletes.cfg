CONSTANTS
    QType = 1
    Letters <- FewPbsLetters
    InputMode = "local"
    Packages = {p1}
    Jobs = {j1}
    Workers = {w1, w2}
    Pollers = {b1}
    Clients = {c1, c2}
    NoPackage = NoPackage
    NoJob = NoJob
    MayFail = TRUE
    DbMayFail = TRUE
    JobCallbacks = FALSE
    AnswersMayBeLost = TRUE
    MaxDeletes <- AllDeletes
    MaxCrashes = 0
SPECIFICATION Spec
SYMMETRY Symmetry
INVARIANTS
    CompletionIsReal
    DonePackageIsKept
    SubmittedOnce
