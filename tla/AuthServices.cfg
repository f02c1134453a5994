SPECIFICATION SessionServiceSpec
CONSTANTS
    Users = {u1}
    SessionIds = {s1}
    PairingIds = {}
    SessionTTL = 2
    PairingTTL = 1
    MaxTime = 2
    Workers = {w1, w2}
    MaxAttempts = 2
    Operations = {"issue", "authenticate", "revoke", "revoke_all"}
    Audiences = {"web"}
    LoggedIn = {}
    PairingAtStart = None
    AdminRoles = {"student"}
    ClockMayStepBack = TRUE
    None = None


PROPERTIES
    AuthenticatedIsCurrent
    RevokeAllIsComplete
