SPECIFICATION Spec
CONSTANTS
    Contracts = {c1}
    MaxId = 2
    Delivered = 1
    Workers = {w1, w2}
    Routes = {"deliver", "final"}
    None = None
    MAX_ATTEMPTS = 2
    ClientPowerLoss = TRUE
    MaxRevision = 1
    MaxFaults = 2
SYMMETRY WorkerSymmetry

CHECK_DEADLOCK FALSE
INVARIANTS
    FinalSelectionIsSound
