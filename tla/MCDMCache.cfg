SPECIFICATION Spec
CONSTANTS
    a = a
    b = b
    Name = {a, b}
    Foreign = {b}
    Size <- MCSize
    Int = {w}
    Real = {w}
    Val = {0, 1}
    MaxFile = 2
    MCache = 2
    MaxHurt = 1
    Absent = Absent
    Closed = Closed
INVARIANT TypeOK
INVARIANT OneCopy
INVARIANT CleanIsWritten
INVARIANT WaitsWithAccess
INVARIANT NumbersReturn
PROPERTY ReadsWhatItWrote
