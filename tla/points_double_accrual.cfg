SPECIFICATION Spec
CONSTANTS
    Doc = {d1}
    SeedDocs = {}
    Registration = {1}
    Request = {r1, r2}
    User = {u1, u2}
    MaxAccruals = 2
    DbMayFail = TRUE
    MayCrash = FALSE
    UsersRemovable = FALSE
    None = None
CHECK_DEADLOCK FALSE
INVARIANTS
    AtMostOneCredit
