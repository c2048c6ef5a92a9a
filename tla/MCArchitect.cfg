SPECIFICATION Spec
CONSTANTS
    a1 = a1
    a2 = a2
    w1 = w1
    w2 = w2
    w3 = w3
    Callers = {a1, a2}
    OldAuto = old
    Workflows = {w1, w2, w3}
    OldWorkflow = w1
    None = none
    UnknownPattern = unknown
    Catalog <- PATTERN_CATALOG
    Settings <- AllSettings
SYMMETRY Perms
INVARIANTS
    EveryPatternDeploys
    BodiesAreFilled
    ActiveWasChecked
CHECK_DEADLOCK FALSE
