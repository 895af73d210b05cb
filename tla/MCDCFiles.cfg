SPECIFICATION Spec
CONSTANTS
    MaxFil = 3
    MaxUnit = 4
    File = {f1, f2, f3, f4}
    NoFile = NoFile
SYMMETRY Files
INVARIANT TypeOK
INVARIANT Ages
INVARIANT ListIsUnits
INVARIANT WritesToItsFile
PROPERTY OldestGivesWay
