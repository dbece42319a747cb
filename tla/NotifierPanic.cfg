SPECIFICATION Spec
CONSTANTS
    MaxSubs = 1
    MaxHeads = 1
    QueueCap = 1
    MaxBatch = 1
INVARIANT NoPanic
CHECK_DEADLOCK FALSE
