\* Events are delivered twice, any call may fail, administrators delete documents.
SPECIFICATION Spec
CONSTANTS
    card = card  prepaid = prepaid  billed = billed
    iCard = iCard  iPre = iPre  iInv = iInv  p1 = p1  p2 = p2  p3 = p3
    None = None
    Orders = {prepaid}
    Infos = {iPre}
    InfoOf <- MCInfoOf
    MethodOf <- MCMethodOf
    InitialInfos = {}
    Procs = {p1, p2, p3}
    Outcomes = {"OPEN", "PENDING", "SUCCEEDED", "FAILED", "INKASSO", "LOST"}
    MaxDeliveries = 2
    MaxCallbacks = 2
    Faults = TRUE
    Deletes = TRUE
INVARIANTS
    TypeOK
    ChargedOnce
    PendingIsAccounted
    PrepaidBeforeEnabled
SYMMETRY
    Symmetry
CHECK_DEADLOCK FALSE
