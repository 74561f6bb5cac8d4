CONSTANTS
    Outputs <- MC_Outputs
    Validators <- MC_Validators
    OutputKind <- MC_OutputKind
    OutputAmount <- MC_OutputAmount
    OutputGamma <- MC_OutputGamma
    OutputValidator <- MC_OutputValidator
    BONDING_TIME = 1
    MaxIO = 1
    MaxHeight = 3
    MaxTime = 1
    DevHash = DevHash
    FakeKey = FakeKey
SPECIFICATION Spec
INVARIANTS
    TypeOK
    Conservation
    UtxoIndexMatchesHistory
    UtxoIndexResolves
PROPERTY
    ImplementsLedger
CHECK_DEADLOCK FALSE
