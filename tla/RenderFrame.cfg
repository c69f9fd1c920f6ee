CONSTANTS
    p1 = p1
    p2 = p2
    p3 = p3
    q1 = q1
    Panes <- MCPanes
    Popups <- MCPopups
    PaneOf <- MCPaneOf
    Tabs <- MCTabs
    FirstTab <- MCFirstTab
    FirstSlot <- MCFirstSlot
    WindowSlots <- MCWindowSlots
    Widths = {1, 2}
    InFlight = 2
    MaxChanges = 2
    MaxTextures = 13
    ByteLimit = 2
SPECIFICATION Spec
INVARIANTS TexturesSafe DeadEntryIsDestroyed RestShowsContent
CHECK_DEADLOCK FALSE
