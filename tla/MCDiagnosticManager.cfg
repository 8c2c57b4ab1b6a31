CONSTANTS
    d1 = d1
    d2 = d2
    cOn = cOn
    cOn2 = cOn2
    cOff = cOff
    Docs <- MCDocs
    Configs <- MCConfigs
    EnabledConfigs <- MCEnabledConfigs
    InitConfig = cOn
    NoReq = NoReq
    MaxVersion = 1
    MaxConfigChanges = 1
SPECIFICATION Spec
CHECK_DEADLOCK FALSE
INVARIANTS
    TypeOK
    RegisteredIsCurrent
    UnpublishedEditInPipeline
SYMMETRY DocSymmetry
