SPECIFICATION Spec
CONSTANTS
    Categories = {c1, c2}
    Texts = {x, y}
    Files = {f1, f2}
    None = None
    Empty = Empty
    Runs = {r1}
    MaxWrites = 2
    Faults = TRUE
SYMMETRY Symmetry
PROPERTY
    FieldsShowStored
