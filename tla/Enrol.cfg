SPECIFICATION Spec
CONSTANTS
    Name = {n1, n2}
    Token = {t1}
    Conn = {c1}
    Caller = {w1, w2}
    Expiry = {1}
    Faults = {"cancel", "db"}
    MaxTime = 2
    MaxRotations = 2
    MaxEpoch = 1
    None = None
SYMMETRY Symmetry
INVARIANTS
    GrantsAreReviewed
    SingleUse
    NoStrayAgent
    RotationIsAChain
PROPERTIES
    RevokedIsFrozen
