CONSTANTS
    MemClients = {c1, c2}
    MemArgs <- MCMemArgs
    MemStarts = {"modern", "legacy", "partial", "absent"}
    MemMaxClock = 1
    MemMaxCalls = 3
    MemRetention = 0
    WebCalls = {c1, c2}
    WebRequests <- MCWebRequests
    WebSlots = 1
    WebMaxRequests = 1
    WebMaxBytes = 1
    WebMaxHops = 1
    WebMaxAttempts = 2
    CacheProcs = {p1, p2}
    CacheKeys = {k1, k2}
    CacheTTL = 0
    CacheBatch = 1
    CacheMaxClock = 1
    CacheMaxStores = 2
    SpillProcs = {p1, p2}
    SpillPaths = {a, b}
    SpillMaxEntries = 2
    SpillMaxAge = 0
    SpillMaxClock = 1
    SpillMaxTouches = 1
    SpillMaxFiles = 3
SPECIFICATION Spec
INVARIANTS
    RequestsRunOnce
    RenderersReleased
    SpillsKept
PROPERTY FreshKept
CHECK_DEADLOCK FALSE
