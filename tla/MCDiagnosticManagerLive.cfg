CONSTANTS
    d1 = d1
    d2 = d2
    cOn = cOn
    cOn2 = cOn2
    cOff = cOff
    Docs <- MCOneDoc
    Configs <- MCConfigs
    EnabledConfigs <- MCEnabledConfigs
    InitConfig = cOn
    NoReq = NoReq
    MaxVersion = 2
    MaxConfigChanges = 1
SPECIFICATION Spec
CHECK_DEADLOCK FALSE
PROPERTIES
    FreshResultPublished
