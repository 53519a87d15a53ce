SPECIFICATION Spec
CONSTANTS
    Block <- LineBlock
    Tx <- LineTx
    Coin <- LineCoin
    GenesisCoins <- LineGenesisCoins
    Height <- LineHeight
    Parent <- LineParent
    Inputs <- LineInputs
    Outputs <- LineOutputs
    Unspent <- LineUnspent
    Genesis = "b1"
    Worker = {w1, w2}
    Sequencer = Sequencer
    NumCPU = 2
    MaxRestarts = 0
    None = None
    OrphanHead = OrphanHead
SYMMETRY WorkerSymmetry
INVARIANTS
    WokenByCreator
