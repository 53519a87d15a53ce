SPECIFICATION Spec
CONSTANTS
    Block <- ForkBlock
    Tx <- ForkTx
    Coin <- ForkCoin
    GenesisCoins <- ForkGenesisCoins
    Height <- ForkHeight
    Parent <- ForkParent
    Inputs <- ForkInputs
    Outputs <- ForkOutputs
    Unspent <- ForkUnspent
    Genesis = "b1"
    Worker = {w1, w2}
    Sequencer = Sequencer
    NumCPU = 2
    MaxRestarts = 0
    None = None
    OrphanHead = OrphanHead
SYMMETRY WorkerSymmetry
CHECK_DEADLOCK FALSE
INVARIANTS
    NoStrandedWait
