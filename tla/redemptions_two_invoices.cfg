SPECIFICATION Spec
CONSTANTS
    Account = {a1}
    Balance = 4
    Amount = {2}
    Invoice = {n1, n2}
    Request = {r1, r2}
    MaxRows = 2
    MaxCodes = 2
    DbMayFail = FALSE
    MayCrash = FALSE
    None = None
CHECK_DEADLOCK FALSE
SYMMETRY Symmetry
PROPERTIES
    InvoiceIsFinal
