SPECIFICATION Spec
CONSTANTS
    Task = {t1, t2, t3}
    NoTask = NoTask
    Spawner = {gui}
    reaper = reaper
    MaxPid = 4
    Status = {0}
    Slots = 3
INVARIANT NoOwnedChildrenAtDestruction
CHECK_DEADLOCK FALSE
