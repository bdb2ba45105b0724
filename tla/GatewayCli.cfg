\* The Agate CLI, without a wire key, under fairness of the process and of its
\* clock: the bound on jobs holds all the same and every call ends.
SPECIFICATION FairSpec
CONSTANTS
    Idempotent = FALSE
    MaxInfra = 1
    MaxDevice = 1
    MaxWait = 1
    MaxInvocations = 2
    MaxCrashes = 1
    MaxLate = 0
    MaxForgotten = 1
INVARIANTS
    JobsBounded
PROPERTIES
    InvocationsEnd
CHECK_DEADLOCK FALSE
