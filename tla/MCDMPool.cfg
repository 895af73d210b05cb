SPECIFICATION Spec
CONSTANTS
    MaxFree = 12
    First = 1
    MaxWord = 11
    Lens <- MCLens
INVARIANT ListIsRuns
INVARIANT BlocksApart
PROPERTY TakesTightest
