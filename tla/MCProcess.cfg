SPECIFICATION Spec
CONSTANTS
    Task = {t1, t2, t3}
    NoTask = NoTask
    Spawner = {gui}
    reaper = reaper
    MaxPid = 3
    Status = {0, 7}
    Slots = 2
INVARIANTS
    CountsExact
    NothingLeaked
    NoUseAfterFree
PROPERTIES
    ZombieIsFinal
    ExitedBecomesZombie
CHECK_DEADLOCK FALSE
