SPECIFICATION Spec
CONSTANTS
    Categories = {c1, c2}
    Texts = {x}
    Files = {f1}
    None = None
    Empty = Empty
    Runs = {r1}
    MaxWrites = 3
    Faults = TRUE
SYMMETRY Symmetry
INVARIANTS
    TypeOK
    DropdownIsStored
PROPERTY
    ImplementsRecord
