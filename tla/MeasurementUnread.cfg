\* Two requests, no death of the Supervisor, and one answer lost.
SPECIFICATION Spec
CONSTANTS
    Caller = {a, b}
    Nobody = Nobody
    Repetitions = 2
    MaxCalls = 3
    MaxUnread = 1
    MaxCrashes = 0
INVARIANTS
    InterruptedJobIsResumed
CHECK_DEADLOCK FALSE
