SPECIFICATION FairSpec
CONSTANTS
    Ids = {s1, s2}
    Boot = boot
    Kinds <- MCOnlyHeads
    MaxHeight = 3
    MaxReorgs = 1
    MaxFailures = 1
INVARIANTS OneLoop CountIsExact
PROPERTIES  LoopEnds 
CHECK_DEADLOCK FALSE
