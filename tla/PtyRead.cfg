CONSTANTS
    Workers = {w1, w2}
    High = 2
    Low = 1
    Chunk = 1
    KernelCap = 1
    MaxBytes = 4
SPECIFICATION FairSpec
INVARIANTS SingleFlight NothingStranded
    DestroyQuiescent ClosedFdForgotten
PROPERTIES RefinesStream EverythingEnds
CHECK_DEADLOCK FALSE
