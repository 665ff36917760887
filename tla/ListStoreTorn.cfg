CONSTANTS
    MaxLists = 3
    MaxCuts = 1
    Excepting = {2}
SPECIFICATION Spec
INVARIANT ServesWhole
CHECK_DEADLOCK FALSE
