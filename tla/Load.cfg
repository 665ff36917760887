CONSTANTS
    Extras = 2
    Retries = 1
    TotalTicks = 1
    MaxReloads = 1
    MaxRequests = 2
    MaxStops = 2
    MaxLists = 2
    MaxEdits = 1
SPECIFICATION MCSpec
INVARIANTS TypesOK WatchdogUsesLiveFetch StopIsHeeded SavedIsUndegraded HookVerdictIsProven CachedVerdictIsCurrent
PROPERTIES RequestIsLoaded WindowCloses
CHECK_DEADLOCK FALSE
