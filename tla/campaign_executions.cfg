SPECIFICATION Spec
CONSTANTS
    c1 = c1
    c2 = c2
    Contacts <- OneContact
    Lists <- Repeated
    Unreachable <- Nobody
    Segment = Segment
    Members <- JustOne
    PerPage = 2
    Processes = {p1, p2}
    Requests = {r1}
    Senders = {}
    NeedsApproval = FALSE
    MaxCrashes = 1
    Events = {"execute", "crash", "lists", "create", "queue"}
INVARIANTS
    BoundedRows
    OnlyClearedAreMessaged
    CompletedWasVisited
PROPERTIES
    InterruptedIsResumed
