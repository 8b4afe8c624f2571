SPECIFICATION GraphSpec
CONSTANTS
    Configs <- LateReads
    Forwards = 2
    Window = 2
INVARIANTS ReadsOwn
CHECK_DEADLOCK FALSE
