SPECIFICATION MCSpec
CHECK_DEADLOCK FALSE
CONSTANTS
    MaxSubs = 2
    MaxHeads = 1
    QueueCap = 1
    MaxBatch = 1
    a = a
    b = b
    b1 = b1
    b2 = b2
    Logs <- MCLogs
    Matching <- MCMatching
    Receipts <- MCReceipts
    Branches <- MCBranches
    Capacity = 1
    MaxHeight = 2
    MaxFailures = 1
INVARIANTS IdBeforeEvents RegisteredIsOwned SentOnce OnlyMatchingLogs
PROPERTIES ImplementsStream EventsDelivered Teardown FoundIsNotified CancelEnds
