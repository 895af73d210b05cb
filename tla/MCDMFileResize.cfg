SPECIFICATION FairSpec
CONSTANTS
    NRow = 2
    NCol = 2
    NPrt = 1
    MaxFree = 1
    MaxScratch = 1
    RecLen = 2
    First = 1
    MaxWord = 8
    Lens <- MCLens
    Val <- MCOne
    CanCrash = FALSE
    CanResize = TRUE
    NoData = NoData
    Torn = Torn
    NoCall = NoCall
INVARIANT NoOverlap
INVARIANT NoOrphans
PROPERTY LostIsSmallest
PROPERTY Refinement
PROPERTY CallsReturn
