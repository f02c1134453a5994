SPECIFICATION FairSpec
CONSTANTS
    Requests = {r1, r2}
    Permitted = {"ai"}
    Limit = 1
    MaxEvents = 2
    MaxAge = 1
    Workers = {w1, w2}
    None = None
    PowerLoss = TRUE
    MaxTime = 2
    MaxFaults = 1

INVARIANTS
    BudgetIsSound
PROPERTIES
    PendingIsSettled
