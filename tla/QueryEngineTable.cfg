CONSTANTS
    ads = ads
    site = site
    Name <- MCName
    QName = {ads, site}
    Class = {"IN"}
    Slot = {1, 2}
    Txid = {1, 2}
    Ways = 1
    MaxWait = 1
    Rulebook <- MCNoRules
    Holder = {}
    Affectable = {FALSE}
    MaxGen = 0
    Server = {"one", "two"}
    FwdId = {1}
    MaxSerial = 2
    ReqDepth = 1
    RepDepth = 1
    MaxSets = 0
    Flight = {1}
    MaxRiders = 1
    HedgeRoom = 2
    MsgLen = 1
    MaxConn = 2
SPECIFICATION MCFairSpec
INVARIANTS AnswersTheQuestion TxidsDistinct AnswerReachesItsAsker
PROPERTIES FlightsEnd ConnectionEnds
CHECK_DEADLOCK FALSE
