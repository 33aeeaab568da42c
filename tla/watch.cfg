SPECIFICATION FairSpec
CONSTANTS
    Gets = {g1, g2}
    Queries = {d, f}
    Restricted = {f}
    NoQuery = NoQuery
    kMaxWatchStreamFailures = 1
    MaxVersion = 1
    MaxMessages = 2
    MaxFaults = 1
INVARIANTS
    TypeOK
    WatchedWhileListened
    IdleIsUnwatched
    TrackerAssertions
    OfflineAnswersAll
    SyncedIsFresh
    CountsOutstanding
PROPERTY GetsAnswered
