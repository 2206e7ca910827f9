\* Every message is delivered once; two orders, two units, no mutations.
SPECIFICATION FairSpec
CONSTANTS
    i1 = i1  i2 = i2  i3 = i3  a = a  b = b  o1 = o1  o2 = o2  w1 = w1  w2 = w2
    None = None
    Items = {i1, i2}
    Variants = {a, b}
    Orders = {o1, o2}
    Workers = {w1, w2}
    Lines <- MCLines
    Stock <- MCStock
    Published = {"order-created", "payment-enabled", "payment-failed", "validation-failed"}
    Resent = {}
    ShipmentStatuses = {}
    AdminStatuses = {}
    AdminNumbers = {}
    MaxRedeliveries = 0
    Faults = FALSE
INVARIANTS
    SucceededOrderHoldsItsLines
    RefusedOrReleasedHoldsNothing
PROPERTIES
    OrdersSettle
CHECK_DEADLOCK FALSE
