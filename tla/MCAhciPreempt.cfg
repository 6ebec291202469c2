SPECIFICATION Spec
CONSTANTS
    KernelTask = {gui}
    UserTask = {a}
    NSectors = 3
    Window = 2
    Value = {0, 1}
    Patterns <- MCPatterns
    Requests <- MCRequests
    Cache = Cache
    NULL = NULL
INVARIANT WindowNeverStale
