\* Messages repeated and out of order, calls failing, employees changing items.
SPECIFICATION Spec
CONSTANTS
    i1 = i1  i2 = i2  i3 = i3  a = a  b = b  o1 = o1  o2 = o2  w1 = w1  w2 = w2
    None = None
    Items = {i3}
    Variants = {a}
    Orders = {o1, o2}
    Workers = {w1, w2}
    Lines <- MCOneEach
    Stock <- MCStock
    Published = {"order-created", "payment-enabled", "payment-failed", "shipment-created", "status-updated"}
    Resent = {"shipment-created"}
    ShipmentStatuses = {"FAILED"}
    AdminStatuses = {"RETURNED"}
    AdminNumbers = {1}
    MaxRedeliveries = 1
    Faults = TRUE
INVARIANTS
    TypeOK
    StockIsUnheld
    UnheldIsStock
PROPERTIES
    NoItemChangesHands
SYMMETRY Symmetry
CHECK_DEADLOCK FALSE
