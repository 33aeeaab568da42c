SPECIFICATION Spec
CONSTANTS
    Accounts = {a, b}
    None = None
    Taps = {t1}
    MaxMains = 2
    MaxWrites = 2
    MaxAuthEvents = 2
    Faults = {}
    Prompt = TRUE
    Deletions = TRUE
SYMMETRY Symmetry
PROPERTY
    RegisterMeansMissing
