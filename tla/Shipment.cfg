\* One order, one return of it; calls fail, events repeat, replicas come late.
SPECIFICATION FairSpec
CONSTANTS
    o1 = o1  r1 = r1  a = a  b = b  c = c  m1 = m1  m2 = m2  v1 = v1  v2 = v2
    home = home  depot = depot  w1 = w1  w2 = w2  c1 = c1
    None = None
    Orders = {o1}
    Returns = {r1}
    OrderItems <- MCOrderItems
    ReturnItems <- MCReturnItems
    MethodOf <- MCMethodOf
    VersionOf <- MCVersionOf
    QuantityOf <- MCQuantityOf
    AddressOf <- MCAddressOf
    Grams <- MCGrams
    Fee <- MCFee
    VendorAddresses = {depot}
    KnownMethods = {m1}
    KnownVersions = {v2}
    KnownAddresses = {home}
    Archivable = {m2}
    Retries = {0, 1}
    Reported = {"DELIVERED"}
    Workers = {w1}
    Callbacks = {c1}
    MaxCallbacks = 1
    MaxFaults = 1
CHECK_DEADLOCK FALSE
INVARIANTS
    TypeOK
    AnnouncementsAreTrue
    SentOnce
    RefundedIsNotSent
PROPERTIES
    SentWithItsOrder
    OwnersAnswered
