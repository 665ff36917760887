CONSTANTS
    MaxLists = 5
    MaxCuts = 3
    Excepting = {2, 3, 5}
    Lan = {c1, c2}
    MaxEdits = 1
    Host = {h1, h2}
    All = all
    PauseMax = 2
    MaxMinutes = 2
    MaxTime = 3
    MaxCalls = 3
    QName = {"a", "b", "c"}
    LogSize = 2
    Buckets = 2
    TopSize = 2
    MaxRecords = 4
    MaxMinute = 3
    Mac = {m1, m2, m3}
    CensusMax = 2
    StageMax = 1
    Grace = 1
    MaxSightings = 4
    MaxSeconds = 3
    Key = {"a", "b", "c"}
    Value = {1, 2}
    StoreMax = 3
    ZoneList = {"z1", "z2"}
    MaxOps = 4
    MaxOutages = 2
    Entries = 2
    StaleMax = 2
    MaxUptime = 3
    MaxSaves = 2
    MaxFaults = 2
    MaxSessions = 2
    IdleLimit = 1
    AgeLimit = 2
    LockThreshold = 2
    LockTicks = 1
    MaxLogins = 3
    MaxChanges = 2
    MaxResets = 1
    MaxAuthFaults = 1
    MaxQueue = 2
    MaxLinkChanges = 1
    MaxTurns = 2
    MaxBoots = 1
SPECIFICATION MCSpec
INVARIANTS TypesOK CopySurvives BootFindsNewest HookAnswerIsGrounded PauseLooksAreRight LogIsTrue CensusIsRight AcknowledgedEntriesStand SavedRepliesComeBack SessionsFollowTheAccount AcknowledgedAccountIsKept UpstreamIsTheSelectedOnes
CHECK_DEADLOCK FALSE
