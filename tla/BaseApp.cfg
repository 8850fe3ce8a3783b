SPECIFICATION Spec
CONSTANTS
    One = 100
    MinGasPrice = 10
    SizeGas = 1
    SigGas = 1
    MsgGas = 1
    ParamsGas = 1
    Accounts <- MCAccounts
    Txs <- MCTxs
    Blocks <- MCBlocks
    ChainID = "chain"
    GenesisCoins <- MCGenesis
    MaxGas = 5
    InitGas = 1
    BeginGas = 1
    MaxHeight = 2
    MaxPending = 2
CHECK_DEADLOCK FALSE
INVARIANTS BooksSound Deterministic CheckSound
PROPERTY LedgerSpec
