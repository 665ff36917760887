CONSTANTS
    MaxLists = 2
    MaxEdits = 0
SPECIFICATION LiveSpec
INVARIANT VerdictIsNeverTorn
CHECK_DEADLOCK FALSE
