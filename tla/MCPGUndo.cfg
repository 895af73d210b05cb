SPECIFICATION Spec
CONSTANTS
    MaxStep = 3
    MaxItem = 2
    First = 1
    MaxElem = 3
    MaxLoose = 2
    None = None
INVARIANT TypeOK
INVARIANT RingHolds
PROPERTY WalksTheHistory
