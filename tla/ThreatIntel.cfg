SPECIFICATION TSpec
CONSTANTS
    Lookups = {l1, l2}
    Indicators = {"addr", "hash", "private", "word"}
    Malformed = {"word"}
    NonPublic = {"private"}
    Confidence <- MCConfidence
    Whitelisted = {}
    Stats <- MCStats
    Hashes = {"hash"}
    TTL = 2
    ShortTTL = 1
    Timeout = 1
    MaxSize = 1
    FailMax = 1
    ResetTimeout = 1
    Attempts = 2
    RaisingCalls = TRUE
    MaxClock = 3
    MaxQueries = 3
INVARIANTS
    ProbeSlotNotLeaked
    CacheSound
CHECK_DEADLOCK FALSE
