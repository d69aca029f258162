CONSTANTS
    a = a
    b = b
    ab = ab
    Line = {a, b}
    Key <- SharedKey
    Cut <- SharedIsCut
    Since = 1
    Retain = 2
    MaxCall = 1
    MaxTime = 3
    MaxLost = 1
    MaxCrashes = 1

SPECIFICATION Spec

SYMMETRY Alike

INVARIANT NoLineMissed

PROPERTIES
    LineOncePerRun
    SavedLineNotRepeated
