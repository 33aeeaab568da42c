SPECIFICATION SilentSpec
CONSTANTS
    Gets = {g1}
    Queries = {d}
    Restricted = {}
    NoQuery = NoQuery
    kMaxWatchStreamFailures = 1
    MaxVersion = 0
    MaxMessages = 1
    MaxFaults = 1
PROPERTY UnknownTimesOut
