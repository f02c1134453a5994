SPECIFICATION FairSpec
CONSTANTS
    Contracts = {c1, c2}
    MaxId = 2
    Delivered = 0
    Workers = {w1, w2}
    Routes = {"deliver"}
    None = None
    MAX_ATTEMPTS = 2
    ClientPowerLoss = FALSE
    MaxRevision = 0
    MaxFaults = 1

CHECK_DEADLOCK FALSE
INVARIANTS
    DeliveriesAreKept
PROPERTIES
    StoredIsConfirmed
