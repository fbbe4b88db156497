SPECIFICATION AmountsSpec
CONSTANTS
    p1 = p1
    p2 = p2
    p3 = p3
    Product <- Products
    Foreign = Foreign
    StoreOf <- Home
    PriceOf <- Price
    Forms <- AskedForms
    Percent = {0, 50}
    Custom = {5}
    FlatRate = 3
    FreeFrom = 20
    Sold <- SoldOrders
    MaxRetouches = 1
INVARIANT OperationIsTheSum
CHECK_DEADLOCK FALSE
