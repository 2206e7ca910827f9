\* Two employees update a discount and a coupon while two users redeem it.
SPECIFICATION Spec
CONSTANTS
    u1 = u1  u2 = u2  d1 = d1  d2 = d2  o1 = o1  o2 = o2
    Null = Null
    Keep = Keep
    Users = {u1, u2}
    Discounts = {d1}
    Coupons = {c1}
    Orders = {}
    Targets = {t1, t2}
    Handlers = {}
    Editors = {e1, e2}
    Shoppers = {s1, s2}
    Limits = {1}
    Seed <- MCNoSeed
    UserOf <- MCUserOf
    Mentions <- MCNoMentions
    MaxUpdates = 2
    MaxRepeats = 0
    MaxFaults = 1
SYMMETRY SymmetryTables
INVARIANTS
    TypeOK
    CouponUsagesAreRedeemed
PROPERTIES
    UpdatedCarriesAllTargets
CHECK_DEADLOCK FALSE
