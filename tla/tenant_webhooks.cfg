SPECIFICATION FairSpec
CONSTANTS
    Endpoints = {e1, e2}
    Occurrences = {o1}
    Types = {sent}
    Loops = {l1}
    Callers = {p1}
    MaxAttempts = 2
    Faults = {"refuse", "lost", "create", "read", "write", "crash"}
    NoEndpoint = NoEndpoint
    Deleted = Deleted
    NoRow = NoRow
INVARIANTS
    StatusIsEarned
    PendingIsWorkedOn
PROPERTIES
    NoErrorMeansAll
    SuccessStays
    RetryingEnds
\* Every webhook id is used and deleted: nothing more to do.
CHECK_DEADLOCK FALSE
