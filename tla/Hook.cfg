CONSTANTS
    Name = {n1, n2}
    Ways = 2
    MaxStores = 2
    MaxGen = 1
    Reader <- MCReader
    Event = {e1, e2}
    NoEvent = none
    Size = 3
    Modulus = 6
    MaxDrops = 1
    Threshold = 3
    Burst = 2
    MaxWedges = 2
    MaxMasks = 2
    MaxFails = 1
    MaxUpdates = 2
    MaxCuts = 2
    MaxErrors = 1
SPECIFICATION MCSpec
INVARIANTS TypesOK RepliesWhole
PROPERTIES ReadsAreAtomic ImplementsQueue OldestIsDrained WedgedClientSocketIsReplaced PreviousFirmwareComesBack
CHECK_DEADLOCK FALSE
