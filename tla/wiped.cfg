CONSTANTS
    QType = 1
    Letters <- PbsLetters
    InputMode = "local"
    Packages = {p1, p2}
    Jobs = {j1}
    Workers = {w1}
    Pollers = {b1}
    Clients = {c1}
    NoPackage = NoPackage
    NoJob = NoJob
    MayFail = FALSE
    DbMayFail = FALSE
    JobCallbacks = FALSE
    AnswersMayBeLost = FALSE
    MaxDeletes <- PackageDeletes
    MaxCrashes = 0
SPECIFICATION Spec
INVARIANTS
    DonePackageIsKept
