SPECIFICATION Spec
CONSTANTS
    Block <- MCBlock
    Tx <- MCTx
    Coin <- MCCoin
    Account <- MCAccount
    GenesisCoins <- MCGenesisCoins
    Height <- MCHeight
    Parent <- MCParent
    Inputs <- MCInputs
    Outputs <- MCOutputs
    Unspent <- MCUnspent
    Transactions <- MCTransactions
    TxInputs <- MCTxInputs
    TxOutputs <- MCTxOutputs
    Owner <- MCOwner
    Value <- MCValue
    BootstrapBalances <- MCBootstrapBalances
    Genesis = "b1"
    None = None
INVARIANTS
    ServedInputsNegative
