\* Two mutations at the same time; failed shipments are reported twice and at once; any call may fail.
SPECIFICATION FairSpec
CONSTANTS
    o1 = o1  o2 = o2  a = a  b = b  c = c  fa = fa  fb = fb  fc = fc
    r1 = r1  r2 = r2  h1 = h1  h2 = h2
    None = None
    Orders = {o1}
    ItemsOf <- MCItemsOf
    AmountOf <- MCAmountOf
    Failures = {fa, fb}
    OrderOf <- MCOrderOf
    FailedItems <- MCFailedItems
    Requests = {r1, r2}
    Handlers = {h1, h2}
    MaxDeliveries = 2
    Faults = TRUE
INVARIANTS
    SagasAreBounded
    RefundedWithinOrder
PROPERTIES
    RejectedUnlessOvertaken
    PlacedIsAnnounced
