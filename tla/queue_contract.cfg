\* Two workers, every way to stop, crash and fail.
SPECIFICATION FairQueueSpec
CONSTANTS
    Workers = {w1, w2}
    Messages = {m1}
    MaxEntries = 1
    NoEntry = NoEntry
INVARIANTS
    QueueTypeOK
    ExclusiveDelivery
PROPERTIES
    TakenAtMostOnce
    
