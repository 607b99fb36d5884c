SPECIFICATION LiveSpec
CONSTANTS
    agent = agent
    https = https
    audit = audit
    Sweeper = {audit}
    Listener = {agent, https}
    Agent = agent
    Main = main
    Order <- MCOrder
    Kinds <- MCKinds
    Conn = {c1}
    None = None
CHECK_DEADLOCK FALSE
INVARIANTS
    NoLostWakeup
    ResultIsTrue
PROPERTIES
    SignalStops
