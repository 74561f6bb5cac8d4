CONSTANTS
    Outputs <- MC_Outputs
    Validators <- MC_Validators
    OutputKind <- MC_OutputKind
    OutputAmount <- MC_OutputAmount
    OutputGamma <- MC_OutputGamma
    OutputValidator <- MC_OutputValidator
    BONDING_TIME = 1
    MaxIO = 2
    MaxHeight = 2
    MaxTime = 0
    DevHash = DevHash
    FakeKey = FakeKey
SPECIFICATION Spec
PROPERTY
    MonetaryPanicOnlyOnGlobalImbalance
CHECK_DEADLOCK FALSE
