SPECIFICATION FairDelegations
CONSTANTS
    b1 = b1
    d1 = d1
    u1 = u1
    w1 = w1
    k1 = k1
    k2 = k2
    NoTask = NoTask
    Tasks = {b1}
    Msgs = {b1, u1, d1}
    Wake = {b1}
    Pollers = {w1}
    Takers = {k1, k2}
    MaxTroubles = 1
    Limit = 1
    Delegs = {d1}
    Turns = {d1}
    Timed = {d1}
    Thread <- MCOwn
    CodeTask <- MCCodeTask
    Run <- MCOwn
    Memories = {}
    TopK = 2
    PromptItems = 1
    RecallItems = 1
INVARIANTS
    RecordIsTrue
    ConsumedIsHeld
PROPERTIES
    DeadIsNoticed
    WakeReachesOwner
    DelegationReachesCaller
CHECK_DEADLOCK FALSE
