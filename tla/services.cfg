SPECIFICATION ServicesSpec
CONSTANTS
    Account = {a1}
    Balance = 3
    Amount = {1, 2}
    Invoice = {n1}
    Request = {r1, r2}
    MaxRows = 2
    MaxCodes = 2
    DbMayFail = FALSE
    MayCrash = FALSE
    None = None
    Caller = {c1, c2, c3}
    MaxTokens = 2
    NoCaller = NoCaller
    Shop = {SERATUS}
    Shipper = {s1, s2}
    MaxAssignments = 2
    MaxShipMishaps = 1
    Provider = {SERATUS}
    Retailer = {SERATUS}
    Ficha = {f1, f2}
    Syncer = {s1, s2}
    Nobody = Nobody
    MaxPeople = 2
    MaxEdits = 1
    MaxSyncMishaps = 1
    p1 = p1
    p2 = p2
    p3 = p3
    Product <- Products
    Foreign = Foreign
    StoreOf <- Home
    PriceOf <- Price
    Forms <- AskedForms
    Percent = {0, 50}
    Custom = {5}
    FlatRate = 3
    FreeFrom = 20
    Sold <- SoldOrders
    MaxRetouches = 1
INVARIANTS
    ServicesTypeOK
    PanelMatchesBurns
    LoginReplacesStored
    SyncedIsCurrent
    SyncedHasTheData
    OneJobCalls
    AmountsAgree
    QuotationAgrees
    LoweredPricesKeepOut
PROPERTIES
    RetryIsRenewed
    ServicesSettle
CHECK_DEADLOCK FALSE
