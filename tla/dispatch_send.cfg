SPECIFICATION FairSpec
CONSTANTS
    Workers = {w1}
    Messages = {m1, m2}
    MaxEntries = 2
    Requests = {r1, r2}
    Hooks = {}
    Keys = {k1}
    MaxRetries = 1
    TenantAdapter = "postmark"
    PlatformAdapter = "sendgrid"
    NoAdapter = NoAdapter
    Faults = {"reject"}
    NoEntry = NoEntry
    NoKey = NoKey
    NoId = NoId
    NoMessage = NoMessage
INVARIANTS
    IdempotentSend
    AnsweredIsQueued
    
 
