SPECIFICATION SeedSpec
CONSTANTS
    a = a
    b = b
    c = c
    Name = {a, b, c}
    Version = {1, 2, 3}
    Ships <- MCShips
    ToolLists <- MCToolLists
    Translatable = {a, b}
    NoRow = NoRow
INVARIANTS
    RecordedIsApplied
    
PROPERTIES
    ContentsOnlyAdvance
