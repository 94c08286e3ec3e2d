SPECIFICATION Spec
CONSTANTS
    Ids = {i1, i2}
    Keys = {k1, k2}
    Contents = {c1, c2}
    Requests = {p1, p2}
    MaxRequests = 6
    MaxSubmissions = 3
    MaxVerdicts = 2
    NoRow = NoRow
    Gone = Gone
INVARIANTS
    ApprovedByMeta
    ReviewedIsWhatItHolds
SYMMETRY Symmetry
\* Requests and verdicts are counted and end.
CHECK_DEADLOCK FALSE
