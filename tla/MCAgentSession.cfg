\* Two requests that overlap, three launches, two ticks of active time.
SPECIFICATION Spec
CONSTANTS
    g = g
    j = j
    Requests = {g, j}
    Journal = {j}
    Slots = 1
    Allowances <- MCAllowances
    Budget = 2
    TurnLimit = 1
    MaxPause = 1
INVARIANTS
    ClockExact
    FrozenWhileServed
    NoLateWrite
    SessionEndsClean
    ReportIsNotLost
    LaunchesArePaid
CHECK_DEADLOCK FALSE
PROPERTIES
    NeverResumed
    SessionEnds
