CONSTANTS
    Txs <- MC_Txs
    TxInputs <- MC_TxInputs
    TxOutputs <- MC_TxOutputs
    TxFee <- MC_TxFee
    PaymentFee = 1
    Owned <- MC_Owned
    InitUtxo <- MC_InitUtxo
    TxOrder <- MC_TxOrder
    PENDING_UTXO_TIME = 1
    MaxTime = 2
    MaxEpoch = 2
    MaxMicro = 2
    MaxQueue = 3
SPECIFICATION Spec
INVARIANTS
    StatusMatchesChain
