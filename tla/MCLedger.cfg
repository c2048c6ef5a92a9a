SPECIFICATION Spec
CONSTANTS
    Calls = {c1, c2, c3}
    Files = {f1}
    MaxAtWork = 2
    MaxTrees = 1
    MaxEdits = 1
SYMMETRY Perms
INVARIANTS
    OriginalKept
    WorkIsAccounted
PROPERTIES
    LiveChangedByUndo
CHECK_DEADLOCK FALSE
