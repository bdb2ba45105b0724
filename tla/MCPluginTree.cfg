\* Six compositions of three fibers; two host calls, an exception and an abort anywhere.
SPECIFICATION Spec
CONSTANTS
    Fibers = 3
    Parent <- MCParent
    Required = {1, 3}
    s = s
    t = t
    Service = {s, t}
    Compositions <- MCCompositions
    SettleRounds = 9
    MaxFailures = 1
    MaxAborts = 1
    MaxChanges = 2
INVARIANTS
    TypeOK
    SettledIsCurrent
    ContributionsEndWithLoad
    ConsumersStopFirst
    ClosedIsEmpty
    DivergenceIsAFight
CHECK_DEADLOCK FALSE
PROPERTIES
    CallsEnd
