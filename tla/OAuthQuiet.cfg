SPECIFICATION LiveSpec
CONSTANTS
    Key = {k1}
    Agent = {a1}
    AuthSpec = {good}
    Usable = {good}
    Request = {r1}
    Operator = {b1}
    Task = task
    TaskMargin = 1
    ProxyMargin = 0
    Lifetime = {2}
    Faults = {}
    MaxTime = 2
    MaxTokens = 3
    None = None
INVARIANTS
    NoReplay
    HalfBootstrapped
PROPERTIES
    RequestsFinish
    DueIsHandled
