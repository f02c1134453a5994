SPECIFICATION PairingSpec
CONSTANTS
    Users = {u1}
    SessionIds = {s1, s2}
    PairingIds = {p1}
    SessionTTL = 2
    PairingTTL = 2
    MaxTime = 1
    Workers = {w1, w2}
    MaxAttempts = 2
    Operations = {"consume", "bearer", "authorize"}
    Audiences = {"web"}
    LoggedIn = {s1}
    PairingAtStart = "pending"
    AdminRoles = {"teacher"}
    ClockMayStepBack = FALSE
    None = None
    CanFailToDeliver = FALSE

PROPERTIES
    EveryCallReturns
    ConsentIsByStudent
