SPECIFICATION Spec
CONSTANTS
    Loader = {gui}
    Caller = {shell}
    NFrames = 9
    Heap = Heap
    Scratch = Scratch
    StackScratch = StackScratch
    UserIndex = {code, stack}
    code = code
    Stack = stack
    Slots = 2
    Images <- Programs
    KDIR = KDIR
    NULL = NULL
INVARIANTS
    FramesAccounted
    KernelShared
    NoStaleData
    ScratchPrivate
CHECK_DEADLOCK FALSE
