CONSTANTS
    ads = ads
    site = site
    Name <- MCName
    QName = {site}
    Class = {"IN"}
    Slot = {1}
    Txid = {1, 2}
    Ways = 1
    MaxWait = 1
    Rulebook <- MCAllowRules
    Holder = {}
    Affectable = {FALSE}
    MaxGen = 2
SPECIFICATION Spec
INVARIANT AllowedNameNeverCachedBlocked
CHECK_DEADLOCK FALSE
