CONSTANTS
    d1 = d1
    cOn = cOn
    cFiles = cFiles
    cOff = cOff
    dir = dir
    f = f
    NoReq = NoReq
    NoParent = NoParent
    NoDoc = NoDoc
    Docs <- MCDocs
    Configs <- MCConfigs
    EnabledConfigs <- MCEnabledConfigs
    FileLinkConfigs <- MCFileLinkConfigs
    Paths <- MCPaths
    Parent <- MCParent
    DocLinks <- MCDocLinks
    InitConfig = cFiles
    MaxVersion = 1
    MaxConfigChanges = 1
    MaxFileEvents = 1
SPECIFICATION SysSpec
CHECK_DEADLOCK FALSE
PROPERTIES
    LinkedFileRevalidated
INVARIANTS
    RecheckInPipeline
