CONSTANTS
    d1 = d1
    d2 = d2
    cOn = cOn
    cOn2 = cOn2
    cOff = cOff
    Docs <- MCDocs
    Configs <- MCTwoConfigs
    EnabledConfigs <- MCOneEnabled
    InitConfig = cOn
    NoReq = NoReq
    MaxVersion = 1
    MaxConfigChanges = 1
SPECIFICATION Spec
CHECK_DEADLOCK FALSE
PROPERTIES
    QueueSpec
