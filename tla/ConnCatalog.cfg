SPECIFICATION Spec
CONSTANTS
    Conn = {c1}
    Agent = {a1}
    Writer = {w1, w2}
    Request = {r1}
    Dest = {d1, d2}
    SeedDest = d1
    Faults = {}
    MaxWrites = 3
    None = None
SYMMETRY Symmetry
INVARIANT
    CatalogFollows
