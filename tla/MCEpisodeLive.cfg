\* Every Episode ends and the campaign stops, with a stall limit.
SPECIFICATION FairSpec
CONSTANTS
    slow = slow
    dirty = dirty
    fast = fast
    fastest = fastest
    None = None
    Kernel = {slow, dirty, fast, fastest}
    BaseKernel = slow
    Latency <- MCLatency
    Clean = {slow, fast, fastest}
    MaxEpisodes = 2
    StallLimit = 1
    MaxCrashes = 1
    MaxLosses = 0
    MaxForeign = 0
PROPERTIES
    CampaignStops
    ImplementsLedger
CHECK_DEADLOCK FALSE
