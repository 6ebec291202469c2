SPECIFICATION SemaphoreSpec
CONSTANTS
    Task = {a, b, c, d}
    Irq = {i}
    NULL = NULL
    MaxCount = 2
INVARIANTS
    NoLostWakeup
PROPERTY PermitsAreUsed
