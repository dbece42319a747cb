SPECIFICATION FairSpec
CONSTANTS
    Ids = {s1, s2}
    Boot = boot
    Kinds <- MCOnlyHeads
    MaxHeight = 1
    MaxReorgs = 0
    MaxFailures = 0
PROPERTY LoopWhileSubscribed
CHECK_DEADLOCK FALSE
