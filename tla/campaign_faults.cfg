SPECIFICATION Spec
CONSTANTS
    c1 = c1
    c2 = c2
    Contacts <- TwoContacts
    Lists <- Mixed
    Unreachable <- TheSecond
    Segment = Segment
    Members <- Reversed
    PerPage = 1
    Processes = {p1}
    Requests = {r1}
    Senders = {s1}
    NeedsApproval = TRUE
    MaxCrashes = 1
    Events = {"execute", "update", "delete", "pause", "resume", "template", "consent", "crash", "status", "exists", "screen", "read", "create", "queue"}
INVARIANTS
    TypeOK
    EntriesHaveRows
