SPECIFICATION CollectorSpec
CONSTANTS
    Procs = {live, staging}
    Sigs = {e1, e2}
    MaxTickets = 2
    MaxRestarts = 0
    MaxActive = 2
    SlowMark = FALSE
    live = live
    staging = staging
    None = None
    e1 = e1
    e2 = e2
INVARIANT NoDuplicateHealing
CHECK_DEADLOCK FALSE
