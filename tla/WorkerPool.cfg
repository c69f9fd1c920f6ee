CONSTANTS
    Workers = {w1, w2}
    Callers = {c1}
    Items = {i1, i2}
    Jobs = {j1, j2}
    MaxBatches = 2
    Nobody = Nobody
SPECIFICATION FairSpec
INVARIANTS RunOnce NoLostWakeup
PROPERTIES DispatchReturns
CHECK_DEADLOCK FALSE
