SPECIFICATION Spec
CONSTANTS
    Direct = 1
    BlockSize = 2
    BlocksPerGroup = 6
    Groups = 2
    InodesPerGroup = 2
    DirSize = 14
    NameSize <- MCNameSize
    MaxRun = 2
    Fd = {3, 4}
    Path <- MCPath
    OpenFlags <- MCOpenFlags
    Sizes = {1, 11}
    MaxCalls = 4
CONSTRAINT Unspoiled
INVARIANTS
    FilesIntact
    HandlesCoherent
    BlocksOwned
    DirectoriesSound
CHECK_DEADLOCK FALSE
