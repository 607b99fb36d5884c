SPECIFICATION LiveSpec
CONSTANTS
    Conn = {c1}
    Agent = {a1}
    Writer = {w1, w2}
    Grace = 1
    Retention = 0
    Delay = 1
    Faults = {"cancel", "db"}
    MaxSecrets = 2
    None = None
INVARIANTS
    StoredIsLive
PROPERTIES
    SharedSurvives
    OrphansAreCollected
