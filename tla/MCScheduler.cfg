SPECIFICATION MCSpec
CONSTRAINTS FewMoves FewTasks
CONSTANTS
    CPU = {c1, c2}
    KernelTask = {k}
    UserTask = {u}
    reaper = reaper
    idle <- MCIdle
    boot <- MCBoot
    NULL = NULL
    Policies = 2
    Quantum = 2
    MaxDepth = 2
INVARIANTS
    RunQueueConsistent
    SwitchExact
    ReaperSeesAll
PROPERTY DeadStaysDead
CHECK_DEADLOCK FALSE
