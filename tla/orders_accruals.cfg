SPECIFICATION OrdersAndAccrualsSpec
CONSTANTS
    Store = {SERATUS, PALI}
    SERATUS = SERATUS
    PALI = PALI
    Handler = {r1, r2}
    Job = {j1}
    MaxOps = 2
    Shelf <- Shelves
    Baskets <- Basket
    ShopStatus = {"cancelled"}
    MaxMishaps = 1
    Doc = {d1}
    SeedDocs = {}
    Registration = {1, 2}
    Request = {r1, r2}
    User = {u1, u2}
    MaxAccruals = 2
    DbMayFail = TRUE
    MayCrash = TRUE
    UsersRemovable = TRUE
    None = None
    n1 = n1
    m1 = m1
    Number = {n1}
    Mail = {m1}
    DocumentType = {t1, t2}
    People <- Persons
    Files <- Uploads
    Agent = {r1, r2}
    ChunkSize = 1
    MaxProspects = 3
    MaxCustomers = 2
    Blank = Blank
    Tab = {r1, r2}
    WriteEvery = 2
    RefreshEvery = 3
    UpdateAge = 4
    IdleLimit = 7
    AbsoluteLimit = 10
SYMMETRY Interchangeable
INVARIANTS
    OrdersAndTabsTypeOK
    LinkIsTrue
    CreatedOnce
    FailedIsRetryable
    ClaimsAreHeld
    RetryWaitsForSale
    NoRowTwice
    OneCustomerPerNumber
    EndsTogether
PROPERTIES
    OldNewsIsIgnored
    IdleIsIdle
CHECK_DEADLOCK FALSE
