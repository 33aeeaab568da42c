SPECIFICATION Spec
CONSTANTS
    Users = {out, a}
    SignedOut = out
    NoToken = NoToken
    MaxPending = 3
    MaxWrites = 4
    MaxAuthEvents = 1
    MaxFaults = 1
CHECK_DEADLOCK FALSE
INVARIANTS
    TypeOK
    PipelineIsHead
    CallMatchesPipeline
    IdleIsDrained
    NeverStalls
    SentAsItsWriter
    CallbacksFit
    TellsTheTruth
    NeverBehindAcknowledged
PROPERTY
    ImplementsQueue
    WritesSettle
