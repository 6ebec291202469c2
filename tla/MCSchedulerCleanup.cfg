SPECIFICATION MCSpec
CONSTANTS
    CPU = {c1}
    KernelTask = {k}
    UserTask = {u}
    reaper = reaper
    idle <- MCIdle
    boot <- MCBoot
    NULL = NULL
    Policies = 1
    Quantum = 2
    MaxDepth = 2
INVARIANT HandedOverOnce
CHECK_DEADLOCK FALSE
