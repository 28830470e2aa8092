\* The installation of one account, which logs in under two deviceIds.
CONSTANTS
    a1 = a1
    r1 = r1
    r2 = r2
    None = None
    Apps = {a1}
    Requests = {r1, r2}
    Operations <- OnePhone
    MaxDevices = 2
    MaxTokens = 3
    MaxExpired = 1
SPECIFICATION FairSpec
INVARIANTS TypeOK TokensKeepTheirDevice NoNeedlessSignOut
PROPERTIES OnlyLoginOpensSession OnlyNamedSessionEnds RequestEnds
CHECK_DEADLOCK FALSE
