SPECIFICATION Spec
CONSTANTS
    Tasks = {t1}
    MaxReviewIterations = 3
    PRMode = TRUE
    AutoSwap = {TRUE, FALSE}
    MaxRestarts = 1
INVARIANTS
    ConfirmedIsMerged
CHECK_DEADLOCK FALSE
