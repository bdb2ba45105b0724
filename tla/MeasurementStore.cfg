\* Three requests of two threads, two repetitions, and two deaths of the
\* Supervisor, with or without its executor.
SPECIFICATION FairSpec
CONSTANTS
    Caller = {a, b}
    Nobody = Nobody
    Repetitions = 2
    MaxCalls = 3
    MaxUnread = 1
    MaxCrashes = 2
INVARIANTS
    OneExecutor
    NothingAbandoned
    VerdictHasEvidence
PROPERTIES
    PublishedIsFinal
    CallsEnd
CHECK_DEADLOCK FALSE
