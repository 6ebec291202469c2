SPECIFICATION MutexSpec
CONSTANTS
    Task = {a, b, c, d}
    Irq = {}
    NULL = NULL
PROPERTIES
    ServiceSpec
    WaitersGetOn
