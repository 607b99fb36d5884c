SPECIFICATION OpLiveSpec
CONSTANTS
    Ref = {r1, r2}
    Caller = {w1, w2, w3}
    Faults = {"cancel", "db", "op"}
    MaxChanges = 3
    Nobody = Nobody
INVARIANTS
    CacheIsCurrent
PROPERTIES
    PublishesInOrder
    CallsReturn
CHECK_DEADLOCK FALSE
