SPECIFICATION GradingSpec
CHECK_DEADLOCK FALSE
CONSTANTS
    None = None
    GradeCalls = {g1}
    Cases = 2
    Language = "c"
    MaxImage = 1
    MaxStamp = 2
    GradingFaults = 1
    Regrades = TRUE

INVARIANT PassedMeansAllTests
