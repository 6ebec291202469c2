SPECIFICATION Spec
CONSTANTS
    Direct = 1
    BlockSize = 2
    BlocksPerGroup = 6
    Groups = 2
    InodesPerGroup = 2
    DirSize = 14
    NameSize <- MCNameSize
    MaxRun = 2
    Fd = {3}
    Path <- MCPath
    OpenFlags = {{"read", "write", "create"}}
    Sizes = {3}
    MaxCalls = 3
CONSTRAINT OnlyPowerLoss
INVARIANTS
    NothingLoose
CHECK_DEADLOCK FALSE
