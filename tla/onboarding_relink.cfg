SPECIFICATION Spec
CONSTANTS
    Tenants = {t1, t2}
    Wabas = {w1, w2}
    Phones = {f1}
    Requests = {p1}
    MaxRequests = 4
    Faults = {}
    NoRow = NoRow
    NoId = NoId
INVARIANT WabaIsLinkedOnce
CHECK_DEADLOCK FALSE
