SPECIFICATION Spec
CONSTANTS
    Providers = {p, q}
    Seeded = {s}
    Categories = {c1, c2}
    SeedCategory = c1
    None = None
    Empty = Empty
    Faults = TRUE
SYMMETRY Symmetry
INVARIANTS
    TypeOK
    OnlyProvidersOffer
