SPECIFICATION Spec
CONSTANTS
    Block <- ForkBlock
    Tx <- ForkTx
    Coin <- ForkCoin
    GenesisCoins <- ForkGenesisCoins
    Height <- ForkHeight
    Parent <- ForkParent
    Inputs <- ForkInputs
    Outputs <- ForkOutputs
    Unspent <- ForkUnspent
    Genesis = "b1"
    Worker = {w1, w2, w3}
    Sequencer = Sequencer
    NumCPU = 2
    MaxRestarts = 1
    None = None
    OrphanHead = OrphanHead
SYMMETRY WorkerSymmetry
CHECK_DEADLOCK FALSE
INVARIANTS
    TypeOK
    ListenersCounted
    NoLockLeak
    SequencerNeverWaits
    AddedBlocksStored
    GenesisUndisputed
    SeenCoinsFindable
    CacheHoldsOnlyUnadded
PROPERTIES
    StorageIsLedger
    WaitsAreTold
