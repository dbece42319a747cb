SPECIFICATION FairSpec
CONSTANTS
    MaxSubs = 2
    MaxHeads = 1
    QueueCap = 1
    MaxBatch = 2
PROPERTIES EventsDelivered
CHECK_DEADLOCK FALSE
