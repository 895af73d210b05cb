SPECIFICATION FairSpec
CONSTANTS
    MaxRun = 4
    MaxPack = 2
    MaxFault = 2
INVARIANT TypeOK
INVARIANT OwnReplies
INVARIANT OneReader
INVARIANT DeadIsFound
PROPERTY Returns
PROPERTY QuitLeavesNothing
CHECK_DEADLOCK FALSE
