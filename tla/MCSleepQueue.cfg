SPECIFICATION SleepSpec
CONSTANTS
    Task = {a, b, c}
    NULL = NULL
    Frequency = 500
    Millis = {1, 4, 5}
    LastCall = 6
    MaxTime = 10
    TickMax = 5
INVARIANTS
    SleepersTracked
PROPERTIES
    AlmostLongEnough
    SleepersWake
CHECK_DEADLOCK FALSE
