SPECIFICATION Spec
CONSTANTS
    EventSlots = 2
    CharacterSlots = 5
    Columns = 8
    Rows = 3
    HistoryLines = 5
    Prompt <- Dollar
    LineMax = 2
    HistoryMax = 2
    ArgvMax = 1
    CommandOutputs <- Nothing
    GuiSlots = 2
    InputSlots = 4
    Readers = {"session"}
    TapKeys <- TabTaps
    HoldKeys <- Holds
    OtherBytes <- Others
    Histories <- Typed
    MaxStrokes <- FourStrokes
INVARIANT ScreenShowsLine
CHECK_DEADLOCK FALSE
