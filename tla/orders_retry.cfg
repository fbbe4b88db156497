SPECIFICATION OrdersSpec
CONSTANTS
    Store = {SERATUS, PALI}
    SERATUS = SERATUS
    PALI = PALI
    Handler = {h1}
    Job = {j1}
    MaxOps = 2
    Shelf <- Shelves
    Baskets <- Basket
    ShopStatus = {"cancelled"}
    MaxMishaps = 1
PROPERTY AskedRetryIsPossible
CHECK_DEADLOCK FALSE
