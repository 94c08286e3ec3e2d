SPECIFICATION Spec
CONSTANTS
    Tenants = {t1, t2}
    Wabas = {w1, w2}
    Phones = {f1}
    Requests = {p1, p2}
    MaxRequests = 3
    Faults = {"error", "crash", "api"}
    NoRow = NoRow
    NoId = NoId
INVARIANTS
    OneTenantPerWaba
    FinalizedIsLinked
PROPERTIES
    OffStaysOff
    CompletedStays
SYMMETRY Symmetry
\* The requests are counted and end.
CHECK_DEADLOCK FALSE
