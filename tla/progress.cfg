SPECIFICATION ProgressSpec
CONSTANTS
    p1 = p1
    p2 = p2
    p3 = p3
    Product <- Products
    Selections <- Selected
    Groups <- Batches
    MaxJobs = 2
    MaxGone = 1
    Workers = 2
    MaxCrashes = 1
    Quoter = {q1, q2}
    Content = {before, after}
    MaxDocuments = 1
    MaxQuoteMishaps = 1
    Doc = {d1}
    SeedDocs = {}
    Registration = {1, 2, 3}
    Request = {r1, r2, r3}
    User = {u1}
    MaxAccruals = 3
    DbMayFail = FALSE
    MayCrash = TRUE
    UsersRemovable = FALSE
    None = None
INVARIANTS
    JobsTypeOK
    OneRunning
    CountersMatch
    CompletedIsTrue
    RetryIsSafe
    PanelMatchesLedger
    IInv
PROPERTIES
    UncertainIsNeverResent
    GrantedOnce
    ProgressSettles
CHECK_DEADLOCK FALSE
