\* Two Epochs of two trajectories, with a death, an exception and a commit by others.
SPECIFICATION FairSpec
CONSTANTS
    Epochs = 2
    Trajectories = 2
    Steps = 1
    MaxParallel = 2
    Kernel <- Kernels
    Latency <- Latencies
    Bootstrap = k0
    k0 = k0
    k1 = k1
    k2 = k2
    None = None
    Unended = Unended
    TokenBudget = 2
    MaxStall = 2
    MaxRetained = 2
    MaxFailures = 1
    MaxCrashes = 1
    MaxForeign = 1
INVARIANTS
    TypeOK
    BestIsPublished
    PublishedOnce
    StartsFromBroadcast
    StallsExact
PROPERTIES
    ImplementsLedger
    SearchEnds
CHECK_DEADLOCK FALSE
