CONSTANTS
    Terms = {t1, t2}
    None = None
SPECIFICATION ShutFairSpec
INVARIANTS ThreadsSafe SpinIsFinal ExitNotLost
PROPERTIES ExitBuries ShutdownEnds
CHECK_DEADLOCK FALSE
