\* Three Episodes, two deaths or failing Git commands, one lost audit and one
\* commit by somebody else, anywhere.
SPECIFICATION Spec
CONSTANTS
    slow = slow
    dirty = dirty
    fast = fast
    fastest = fastest
    None = None
    Kernel = {slow, dirty, fast, fastest}
    BaseKernel = slow
    Latency <- MCLatency
    Clean = {slow, fast, fastest}
    MaxEpisodes = 3
    StallLimit = 0
    MaxCrashes = 2
    MaxLosses = 1
    MaxForeign = 1
INVARIANTS
    VerifiedHistory
    ExactlyOnce
    AuditBeforePromotion
    CleanBetweenEpisodes
PROPERTIES
    CountedWithAudit
    HistoryIsAppendOnly
CHECK_DEADLOCK FALSE
