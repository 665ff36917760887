CONSTANTS
    MaxQueue = 2
    MaxLinkChanges = 1
    MaxTurns = 2
    MaxBoots = 1
SPECIFICATION NlSpec
PROPERTY WifiKeepsTrying
CHECK_DEADLOCK FALSE
