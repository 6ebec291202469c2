SPECIFICATION Spec
CONSTANTS
    Client = {x, y, z}
    NULL = NULL
    Align = 2
    Header = 4
    PageSize = 16
    InitialPages = 1
    Expansion = 1
    LimitPages = 3
    Frames = 3
    SizeMax = 64
    Sizes = {1, 7, 17, 64}
INVARIANTS
    ListWellFormed
    PayloadIntact
SYMMETRY Symmetry
