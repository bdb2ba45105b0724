\* Somebody else commits while an Episode runs.
SPECIFICATION FairSpec
CONSTANTS
    slow = slow
    dirty = dirty
    fast = fast
    fastest = fastest
    None = None
    Kernel = {slow, dirty, fast, fastest}
    BaseKernel = slow
    Latency <- MCLatency
    Clean = {slow, fast, fastest}
    MaxEpisodes = 1
    StallLimit = 0
    MaxCrashes = 0
    MaxLosses = 0
    MaxForeign = 1
PROPERTIES
    StaleBaseIsSuperseded
CHECK_DEADLOCK FALSE
