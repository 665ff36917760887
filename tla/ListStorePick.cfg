CONSTANTS
    MaxLists = 4
    MaxCuts = 2
    Excepting = {2}
SPECIFICATION Spec
PROPERTY SparesPick
CHECK_DEADLOCK FALSE
