SPECIFICATION Spec
CONSTANTS
    Size = 25
    HeadLines = 1
    Soh = "SOH"
    Cr = "CR"
    Lf = "LF"
    Etx = "ETX"
    Z = "Z"
    C = "C"
    N = "N"
    Feeds <- AfosFeeds
INVARIANT EndsAtFourN
CHECK_DEADLOCK FALSE
