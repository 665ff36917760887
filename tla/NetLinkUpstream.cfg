CONSTANTS
    MaxQueue = 2
    MaxLinkChanges = 1
    MaxTurns = 2
    MaxBoots = 1
SPECIFICATION NlSpec
INVARIANT UpstreamFollowsTheLinks
CHECK_DEADLOCK FALSE
