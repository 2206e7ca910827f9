\* The customer-facing services and the owners of the master data, one at a time.
SPECIFICATION Spec
CONSTANTS
    Users = {u1}
    Variants = {v1}
    Requests = {r1, r2}
    None = None
    v1 = v1  o1 = o1  a = a  s1 = s1  s2 = s2
    Counts = {1, 2}
    CartOrders = {o1}
    MaxCartItems = 3
    ProductOf <- MCProductOf
    Contents = {1}
    MaxReviews = 2
    Names = {n1, n2}
    MaxWishlists = 1
    RetOrders = {o1}
    Parcels = {s1, s2}
    BuyerOf <- MCBuyerOf
    RetItemsOf <- MCRetItemsOf
    ParcelOrder <- MCParcelOrder
    ParcelItems <- MCParcelItems
    VersionTables <- MCVersionTables
    MaxDay = 2
    MaxReturns = 2
    MaxRetFaults = 1
    TaxRates = {t1}
    PricedVariants = {w1}
    MaxVersions = 3
    MaxVerFaults = 1
    CatProducts = {p1, p2}
    CatVariants = {w1, w2}
    Addresses = {x1, x2}
    AddressOf <- MCAddressOf
    MaxAcctFaults = 2
    Notices = {m1}
    RecipientOf <- MCRecipientOf
    MaxNotifications = 2
    MaxMoment = 3
CHECK_DEADLOCK FALSE
INVARIANTS
    StorefrontTypeOK
    DoublesNeedOverlap
    ReferencesHold
PROPERTIES
    DocumentsLive
    RefundedWasDelivered
    UpdatesKeepTheRest
    EventsTakeEffect
