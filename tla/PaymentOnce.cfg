\* Every event is delivered once, no call fails; two callbacks of any status; the card may not be there yet.
SPECIFICATION FairSpec
CONSTANTS
    card = card  prepaid = prepaid  billed = billed
    iCard = iCard  iPre = iPre  iInv = iInv  p1 = p1  p2 = p2  p3 = p3
    None = None
    Orders = {card, prepaid}
    Infos = {iCard, iPre}
    InfoOf <- MCInfoOf
    MethodOf <- MCMethodOf
    InitialInfos = {iPre}
    Procs = {p1, p2}
    Outcomes = {"OPEN", "PENDING", "SUCCEEDED", "FAILED", "INKASSO"}
    MaxDeliveries = 1
    MaxCallbacks = 2
    Faults = FALSE
    Deletes = FALSE
PROPERTIES
    OrdersAnswered
CHECK_DEADLOCK FALSE
