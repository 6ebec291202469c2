SPECIFICATION Spec
CONSTANTS
    Task = {t1, t2, t3}
    NoTask = NoTask
    Spawner = {gui}
    reaper = reaper
    MaxPid = 3
    Status = {0}
    Slots = 2
PROPERTY ReaperNeverStarves
CHECK_DEADLOCK FALSE
