\* Direct HTTP: two calls, a death, both kinds of failed job, and a request
\* that arrives after its caller gave up.
SPECIFICATION Spec
CONSTANTS
    Idempotent = TRUE
    MaxInfra = 1
    MaxDevice = 1
    MaxWait = 1
    MaxInvocations = 2
    MaxCrashes = 1
    MaxLate = 1
    MaxForgotten = 0
INVARIANTS
    JobsBounded
    LiveJobsAccounted
PROPERTIES
    DecidedIsFinal
CHECK_DEADLOCK FALSE
