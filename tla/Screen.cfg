CONSTANTS
    MaxLines = 4
    BlockCells = 5
    Sizes <- MCSizes
    FirstSize <- MCFirstSize
    Runs = {1, 5}
    MaxSteps = 5
    Pages <- MCPages
    SelectSteps = 3
SPECIFICATION SelSpec
PROPERTIES LinesKept ViewportPinned CursorFollowsText SelectionKeepsText DragSelectsBetween
CHECK_DEADLOCK FALSE
