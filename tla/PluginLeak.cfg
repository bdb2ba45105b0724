\* A provide() by the host whose dependents abort, then the disposal of the tree.
SPECIFICATION Spec
CONSTANTS
    Fibers = 3
    Parent <- MCParent
    Required = {1}
    s = s
    t = t
    Service = {s, t}
    Compositions <- MCCompositions
    SettleRounds = 9
    MaxFailures = 0
    MaxAborts = 1
    MaxChanges = 2
INVARIANTS
    RegistrationEndsWithItsLoad
CHECK_DEADLOCK FALSE
