SPECIFICATION Spec
CONSTANTS
    EventSlots = 2
    CharacterSlots = 5
    Columns = 8
    Rows = 3
    HistoryLines = 5
    Prompt <- Dollar
    LineMax = 2
    HistoryMax = 2
    ArgvMax = 1
    CommandOutputs <- Nothing
    GuiSlots = 2
    InputSlots = 4
    Readers = {"session", "console", "events"}
    TapKeys <- Taps
    HoldKeys <- Holds
    OtherBytes <- Others
    Histories <- Typed
    MaxStrokes <- Strokes
INVARIANTS KeysHeld PermitsMatch ScreenShowsLine
PROPERTIES ScrolledViewStays EditsLine EverythingRead
CHECK_DEADLOCK FALSE
