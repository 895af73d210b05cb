SPECIFICATION Spec
CONSTANTS
    Size = 14
    HeadLines = 1
    Soh = "SOH"
    Cr = "CR"
    Lf = "LF"
    Etx = "ETX"
    Z = "Z"
    C = "C"
    N = "N"
    Feeds <- LongFeeds
INVARIANT EndIsEnd
CHECK_DEADLOCK FALSE
