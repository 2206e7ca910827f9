\* Two users redeem a coupon with one usage; nobody updates it.
SPECIFICATION Spec
CONSTANTS
    u1 = u1  u2 = u2  d1 = d1  d2 = d2  o1 = o1  o2 = o2
    Null = Null
    Keep = Keep
    Users = {u1, u2}
    Discounts = {d1}
    Coupons = {c1}
    Orders = {}
    Targets = {t1}
    Handlers = {}
    Editors = {}
    Shoppers = {s1, s2}
    Limits = {1}
    Seed <- MCNoSeed
    UserOf <- MCUserOf
    Mentions <- MCNoMentions
    MaxUpdates = 0
    MaxRepeats = 0
    MaxFaults = 0
INVARIANTS
    CouponCapHolds
CHECK_DEADLOCK FALSE
