SPECIFICATION Spec
CONSTANTS
    Workers = {w1}
    Messages = {m1}
    MaxEntries = 1
    Requests = {r1}
    Hooks = {h1}
    Keys = {}
    MaxRetries = 1
    TenantAdapter = "meta_cloud"
    PlatformAdapter = "meta_cloud"
    NoAdapter = NoAdapter
    Faults = {"db", "ledger", "queue", "timeout", "unnamed", "reject", "ratelimit", "auth", "crash"}
    NoEntry = NoEntry
    NoKey = NoKey
    NoId = NoId
    NoMessage = NoMessage
INVARIANTS
    TypeOK
    BoundedDuplicates
    ChargedOnlyIfAccepted
    
    
 
