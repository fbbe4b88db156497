SPECIFICATION FaultsSpec
CONSTANTS
    Account = {a1, a2}
    a1 = a1
    a2 = a2
    SERATUS = SERATUS
    PALI = PALI
    Balance = 3
    Amount = {2}
    Invoice = {n1}
    Request = {r1, r2}
    MaxRows = 2
    MaxCodes = 2
    DbMayFail = TRUE
    MayCrash = TRUE
    None = None
    Store = {SERATUS, PALI}
    CouponRequest = {r1, r2}
    MaxCoupons = 1
    MaxIds = 2
    MaxLate = 1
    Faulty = TRUE
    Price = {v1, v2}
    Writer = {r1, r2}
    MaxLinks = 2
    Quoter = {r1, r2}
    Content = {before, after}
    MaxDocuments = 2
    MaxQuoteMishaps = 1
    Agreement = {g1}
    Form = {r1, r2}
    MaxUploads = 2
    MaxMishaps = 1
SYMMETRY Alike
INVARIANTS
    InvoicesDocumentBurns
    FaultsTypeOK
    IdsAreTrue
    MirrorIsTrue
    QuotedIsTrue
    NoSecondDocument
    LogoIsThere
PROPERTIES
    ForgetsNothing
CHECK_DEADLOCK FALSE
