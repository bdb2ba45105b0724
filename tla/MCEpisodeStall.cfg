\* The stall counter after a crash in the first Episode.
SPECIFICATION Spec
CONSTANTS
    slow = slow
    dirty = dirty
    fast = fast
    fastest = fastest
    None = None
    Kernel = {slow, dirty, fast, fastest}
    BaseKernel = slow
    Latency <- MCLatency
    Clean = {slow, fast, fastest}
    MaxEpisodes = 1
    StallLimit = 0
    MaxCrashes = 1
    MaxLosses = 0
    MaxForeign = 0
INVARIANTS
    StallIsExact
CHECK_DEADLOCK FALSE
