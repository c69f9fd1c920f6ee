CONSTANTS
    Ids <- MCIds
    Nil = Nil
    RootStack = 0
    MaxTabs = 2
    MaxPanes = 3
    MaxFailures = 1
    MaxEvents = 5
SPECIFICATION Spec
INVARIANTS
    PanesMatchTerminals
    ExitsSettle
CHECK_DEADLOCK FALSE
