SPECIFICATION Spec
CONSTANTS
    Deploys = {1, 2}
    MaxVersion = 2
    MaxPid = 7
    MaxCrash = 1
    MaxAbort = 1
    Broken = {2}
    MaxErrors = 2
    TotalChecks = 3
    MayOverlap = {}
    SlowExit = FALSE
PROPERTIES
    BackupIsServed
CHECK_DEADLOCK FALSE
