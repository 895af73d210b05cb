SPECIFICATION FairSpec
CONSTANTS
    Size = 14
    HeadLines = 1
    Soh = "SOH"
    Cr = "CR"
    Lf = "LF"
    Etx = "ETX"
    Z = "Z"
    C = "C"
    N = "N"
    Feeds <- MCFeeds
INVARIANT TypeOK
INVARIANT RingIntact
INVARIANT Faithful
INVARIANT WholeBulletins
INVARIANT NothingLeft
PROPERTY Stops
CHECK_DEADLOCK FALSE
