SPECIFICATION FairSpec
CONSTANTS
    Accounts = {a, b}
    None = None
    Taps = {t1, t2}
    MaxMains = 1
    MaxWrites = 0
    MaxAuthEvents = 2
    Faults = {"signIn", "signOut"}
    Prompt = FALSE
    Deletions = TRUE
INVARIANTS
    AuthSynced
    ProfileIdentity
PROPERTY
    SpinnerResolves
