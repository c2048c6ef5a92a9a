SPECIFICATION FairSpec
CONSTANTS
    s1 = s1
    s2 = s2
    s3 = s3
    m1 = m1
    m2 = m2
    Subtasks = {s1, s2, s3}
    Plans <- MCPlans
    Critical = {s1}
    Msgs = {m1, m2}
    Loop = loop0
    Takers = {loop0}
    Limit = 1
    MaxTroubles = 1
    Registry <- MCRegistry
    VRAM_BUDGET_MB = 10
    criticalThresholdMb = 2
    DailyLimit = 1
    Needed <- MCNeeded
    Threshold = 2
    Settings <- MCSettings
INVARIANTS
    EverySubtaskIsAnswered
    DependenciesFirst
    ConsumedIsShown
    NoLocalWithoutGpu
    CardHolds
PROPERTIES
    DispatchEnds
CHECK_DEADLOCK FALSE
