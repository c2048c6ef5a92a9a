SPECIFICATION FairSpec
CONSTANTS
    Deploys = {1, 2}
    MaxVersion = 1
    MaxPid = 7
    MaxCrash = 1
    MaxAbort = 1
    Broken = {}
    MaxErrors = 2
    TotalChecks = 2
    MayOverlap = {"watch"}
    SlowExit = TRUE
INVARIANTS
    NoStrayServer
PROPERTIES
    LiveUntouchedBeforeSwap
    ImplementsLiveSlot
    HungLiveIsStopped
    ScriptsEnd
CHECK_DEADLOCK FALSE
