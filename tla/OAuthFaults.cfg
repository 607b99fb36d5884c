SPECIFICATION Spec
CONSTANTS
    Key = {k1}
    Agent = {a1}
    AuthSpec = {good}
    Usable = {good}
    Request = {r1}
    Operator = {b1, b2}
    Task = task
    TaskMargin = 1
    ProxyMargin = 0
    Lifetime = {1}
    Faults = {"cancel", "crash", "db"}
    MaxTime = 1
    MaxTokens = 3
    None = None
SYMMETRY Symmetry
INVARIANTS
    OneExchange
    WritesOwnRow
PROPERTIES
    RevokedStaysRevoked
    DegradedIsSticky
    ServedIsHealthy
