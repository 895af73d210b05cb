SPECIFICATION CutSpec
CONSTANTS
    NRow = 1
    NCol = 2
    NPrt = 1
    MaxFree = 3
    MaxScratch = 2
    RecLen = 2
    First = 1
    MaxWord = 8
    Lens <- MCLens
    Val <- MCVal
    CanCrash = TRUE
    CanResize = TRUE
    NoData = NoData
    Torn = Torn
    NoCall = NoCall
INVARIANT SoundUntilCut
CONSTRAINT Uncut
