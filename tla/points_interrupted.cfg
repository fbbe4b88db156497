SPECIFICATION InsistentSpec
CONSTANTS
    Doc = {d1}
    SeedDocs = {}
    Registration = {1}
    Request = {r1, r2}
    User = {u1, u2}
    MaxAccruals = 2
    DbMayFail = FALSE
    MayCrash = TRUE
    UsersRemovable = FALSE
    None = None
CHECK_DEADLOCK FALSE
PROPERTIES
    InterruptedAccrualIsResumed
