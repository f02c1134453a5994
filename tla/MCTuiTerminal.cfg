SPECIFICATION PairingSpec
CONSTANTS
    Users = {u1}
    SessionIds = {s1, s2}
    PairingIds = {p1}
    SessionTTL = 2
    PairingTTL = 1
    MaxTime = 1
    Workers = {w1, w2}
    MaxAttempts = 2
    Operations = {"consume", "begin", "revoke_pairing", "bearer", "revoke"}
    Audiences = {"tui"}
    LoggedIn = {}
    PairingAtStart = "authorized"
    AdminRoles = {"student", "teacher"}
    ClockMayStepBack = FALSE
    None = None
    CanFailToDeliver = TRUE

SYMMETRY Symmetry

INVARIANTS
    CredentialsAreSingle
    LogoutIsFinal
PROPERTIES
    StepsAreTransactions
