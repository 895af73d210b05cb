SPECIFICATION Spec
CONSTANTS
    NRow = 1
    NCol = 2
    NPrt = 1
    MaxFree = 2
    MaxScratch = 2
    RecLen = 2
    First = 1
    MaxWord = 7
    Lens <- MCLens
    Val <- MCVal
    CanCrash = TRUE
    CanResize = FALSE
    NoData = NoData
    Torn = Torn
    NoCall = NoCall
INVARIANT TypeOK
INVARIANT NoOverlap
INVARIANT PointersBelowNext
INVARIANT ListsWellFormed
PROPERTY Refinement
