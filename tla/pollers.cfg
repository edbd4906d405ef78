CONSTANTS
    QType = 2
    Letters <- SlurmLetters
    InputMode = "local"
    Packages = {p1}
    Jobs = {j1}
    Workers = {w1, w2}
    Pollers = {b1, b2}
    Clients = {c1}
    NoPackage = NoPackage
    NoJob = NoJob
    MayFail = TRUE
    DbMayFail = FALSE
    JobCallbacks = TRUE
    AnswersMayBeLost = TRUE
    MaxDeletes <- NoDeletes
    MaxCrashes = 0
SPECIFICATION Spec
SYMMETRY Symmetry
INVARIANTS
    CompletionIsReal
    DoneMeansSuccess
    AnnouncementsAreReal
    SubmittedOnce
