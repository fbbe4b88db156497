SPECIFICATION CouponsSpec
CONSTANTS
    Store = {SERATUS, PALI}
    CouponRequest = {r1}
    MaxCoupons = 1
    MaxIds = 2
    MaxLate = 1
    Faulty = FALSE
INVARIANT NoOrphan
CHECK_DEADLOCK FALSE
