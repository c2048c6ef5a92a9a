SPECIFICATION CollectorSpec
CONSTANTS
    Procs = {live, staging}
    Sigs = {e1, e2}
    MaxTickets = 3
    MaxRestarts = 1
    MaxActive = 1
    SlowMark = FALSE
    live = live
    staging = staging
    None = None
    e1 = e1
    e2 = e2
SYMMETRY Symmetry
INVARIANTS
    NoSecondOfOneServer
    ActiveBounded
CHECK_DEADLOCK FALSE
