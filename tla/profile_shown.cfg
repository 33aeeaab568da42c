SPECIFICATION Spec
CONSTANTS
    Texts = {x, y}
    Dates = {d1, d2}
    Pics = {u1}
    None = None
    Empty = Empty
    Uploads = {r1}
    MaxWrites = 2
    Faults = TRUE
SYMMETRY Symmetry
INVARIANTS
    TypeOK
    ShownProfileIsStored
