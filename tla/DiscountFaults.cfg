\* Two orders of one user that share two discounts, a repeated delivery and a
\* failing call.  No employee: limits are changed in DiscountTables.cfg.
SPECIFICATION FairSpec
CONSTANTS
    u1 = u1  u2 = u2  d1 = d1  d2 = d2  o1 = o1  o2 = o2
    Null = Null
    Keep = Keep
    Users = {u1}
    Discounts = {d1, d2}
    Coupons = {}
    Orders = {o1, o2}
    Targets = {}
    Handlers = {h1, h2}
    Editors = {e1}
    Shoppers = {}
    Limits = {1}
    Seed <- MCSeed
    UserOf <- MCUserOf
    Mentions <- MCMentions
    MaxUpdates = 0
    MaxRepeats = 1
    MaxFaults = 1
INVARIANTS
    UsagesWithinALimit
    UsagesMatchAnnounced
PROPERTIES
    ValidationsSettle
CHECK_DEADLOCK FALSE
