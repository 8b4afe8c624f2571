SPECIFICATION GraphSpec
CONSTANTS
    Configs <- MCConfigs
    Forwards = 4
    Window = 2
INVARIANTS ReadsOwn RowsMatch CapturedAlive
CHECK_DEADLOCK FALSE
