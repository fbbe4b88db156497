SPECIFICATION AccountsSpec
CONSTANTS
    Account = {u1, u2}
    Clerk = {r1, r2}
INVARIANT AdminRemains
CHECK_DEADLOCK FALSE
