CONSTANTS
    Ids = {1, 2, 3}
    Sizes = {1, 2}
    Quotas = {2, 3}
    TTL = 1
    MaxTime = 2
    MaxFaults = 2
    MaxCrashes = 1
    None = None
SPECIFICATION FairSpec
CHECK_DEADLOCK FALSE
INVARIANTS
    QuotaHeld
    FilesMatchIndex
    GoneStaysGone
PROPERTIES
    ExpiredIsRemoved
