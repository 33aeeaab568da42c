SPECIFICATION Spec
CONSTANTS
    Accounts = {a, b}
    None = None
    Taps = {t1}
    MaxMains = 2
    MaxWrites = 3
    MaxAuthEvents = 2
    Faults = {"signIn", "get"}
    Prompt = TRUE
    Deletions = FALSE
SYMMETRY Symmetry
INVARIANTS
    TypeOK
    OwnWrites
    LoadedMainIsMine
PROPERTY
    ImplementsLifecycle
