CONSTANTS
    Width = 6
    CursorWidth = 2
    MaxRects = 1
    Painters <- MCPainters
    Bounds <- MCBounds
    Capacity = 3
    ButtonAt <- MCButtonAt
    IconPlaces = {5}
    Terminals <- MCTerminals
    MouseSlots = 2
    GuiSlots = 2
    Budgets <- MCBudgets
SPECIFICATION Spec
INVARIANT ScreenInOrder
CHECK_DEADLOCK FALSE
