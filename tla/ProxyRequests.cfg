CONSTANTS
    Req = {r1, r2}
    Record = {r1, r2}
    Setting = {s1, s2}
    None = None
    Nobody = None
    Event <- MCEvent
    LineSize <- MCLineSize
    MaxBytes = 2
    KeepFiles = 1
    MaxIndex = 3
    Retention = 0
    MaxDay = 1
    Capacity = 1
    ControlSets = {{}, {"cap"}, {"patterns", "types", "cap"}}
    Cap = 1
    MaxChunk = 2
    MaxBody = 2
    MaxRestarts = 1
    Faults = {"db", "io", "cancel"}
SYMMETRY Symmetry
SPECIFICATION Spec
CHECK_DEADLOCK FALSE
INVARIANTS WireIsOurs StreamIsCapped AnswersAreAudited  
PROPERTY ImplementsGateway
