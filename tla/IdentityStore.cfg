SPECIFICATION Spec
CONSTANTS
    Users = {u1, u2}
    SessionIds = {s1, s2}
    PairingIds = {p1}
    None = None
    SessionTTL = 1
    PairingTTL = 1
    MaxTime = 1

INVARIANTS
    StoreIsSound

PROPERTIES
    ImplementsOneShotGrant
