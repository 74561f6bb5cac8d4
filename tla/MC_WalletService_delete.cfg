CONSTANTS
    Ids <- MC_Ids
    InitDirs <- MC_InitDirs
    MaxQueue = 2
SPECIFICATION Spec
INVARIANT DirsServed
CHECK_DEADLOCK FALSE
