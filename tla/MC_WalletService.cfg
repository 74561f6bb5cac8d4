CONSTANTS
    Ids <- MC_Ids
    InitDirs <- MC_InitDirs
    MaxQueue = 2
SPECIFICATION LiveSpec
INVARIANTS
    ServedHaveDirs
    ServiceStopsOnlyOnShutdown
PROPERTY DeleteCompletes
CHECK_DEADLOCK FALSE
