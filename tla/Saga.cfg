\* Two orders compete for one unit from placeOrder to the shipment; one is prepaid, one billed.
SPECIFICATION FairSpec
CONSTANTS
    i1 = i1  a = a  o1 = o1  o2 = o2  x1 = x1  x2 = x2  
    n1 = n1  n2 = n2  m1 = m1  v1 = v1  v2 = v2  home = home
    None = None
    Orders = {o1, o2}
    Units = {i1}
    Variants = {a}
    Stock <- MCStock
    Lines <- MCLines
    Infos = {n1, n2}
    InfoOf <- MCInfoOf
    PayMethodOf <- MCPayMethodOf
    Outcomes = {"OPEN", "SUCCEEDED", "FAILED"}
    MethodOf <- MCMethodOf
    VersionOf <- MCVersionOf
    QuantityOf <- MCQuantityOf
    OrderItems <- MCOrderItems
    AddressOf <- MCAddressOf
    Grams <- MCGrams
    Fee <- MCFee
    KnownVersions = {v1}
    InvWorkers = {w1, w2}
    Procs = {p1}
    Workers = {s1}
    MaxDeliveries = 1
    MaxCallbacks = 1
CHECK_DEADLOCK FALSE
INVARIANTS
    SoldIsHeld
PROPERTIES
    SaleImplemented
    OrdersEnd
