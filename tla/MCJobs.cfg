SPECIFICATION FairSpec
CONSTANTS
    ChatIdKnown = TRUE
    MastraUrlPlain = TRUE
    Runs = {"j1", "j2"}
    Old = {"a0"}
    Workflows = {"w0", "w1", "w2"}
    NoWorkflow = "none"
    Names = {"n", "old"}
    OldWorkflow <- MCOldWorkflow
    OldRecord <- MCOldRecord
    Inputs <- MCInputs
    Jobs = {"j1"}
    MaxTroubles = 1
INVARIANTS
    InN8nIsAllowed
    CreatedHasOneOwner
    MessageMatchesRecord
PROPERTIES
    EarlyCancelStands
    EveryJobEnds
CHECK_DEADLOCK FALSE
