CONSTANTS
    Workers = {w1, w2}
    High = 2
    Low = 1
    Chunk = 1
    KernelCap = 1
    MaxBytes = 4
SPECIFICATION FairSpec
PROPERTIES BackpressureResumes
CHECK_DEADLOCK FALSE
