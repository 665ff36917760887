CONSTANTS
    ads = ads
    site = site
    Name <- MCName
    QName = {site}
    Class = {"IN", "CH"}
    Slot = {1}
    Txid = {1, 2}
    Ways = 1
    MaxWait = 1
    Rulebook <- MCRulebook
    Holder = {"editor", "reader"}
    Affectable = {TRUE, FALSE}
    MaxGen = 2
    Server = {"one", "two"}
    FwdId = {1}
    MaxSerial = 3
    ReqDepth = 1
    RepDepth = 1
    MaxSets = 2
    Flight = {1}
    MaxRiders = 1
    HedgeRoom = 2
    MsgLen = 1
    MaxConn = 0
SPECIFICATION MCSpec
INVARIANTS RetransmitIsOwn RetransmitIsWelcome OldServerUsedOnce TypeOK CachedVerdictIsCurrent IsolatedFlightIsPrivate AffectedClientNeverBlocked
PROPERTY ImplementsFlushing
CHECK_DEADLOCK FALSE
