SPECIFICATION SpecCoding
CONSTANTS
    Tasks = {w1}
    MaxReviewIterations = 3
    PRMode = TRUE
    AutoSwap = {TRUE, FALSE}
    MaxRestarts = 1
    task1 = task1
    t1 = t1
    t2 = t2
    t3 = t3
    NoTask = NoTask
    Turns = {t1, t2, t3}
    Timed = {t1, t2, t3}
    Thread <- MCThread
    CodeTask <- MCCodeTask
    Run <- MCThread
    Memories = {m1}
    TopK = 2
    PromptItems = 1
    RecallItems = 1
    ToolCalls = {e1}
    Outputs <- MCOutputs
    ToolRequests <- MCToolRequests
    MaxFailures = 1
SYMMETRY Perms
INVARIANTS
    FirstApprovalIsMerged
    MemoryShownOnce
    ToolRecordIsTrue
PROPERTIES
    ImplementsMergeGate
CHECK_DEADLOCK FALSE
