-------------------------------- MODULE Chain --------------------------------
(***************************************************************************)
(* The blocks of the Ergo node that the indexer can meet: a tree of        *)
(* headers, the boxes (coins) that the transactions of a block spend and   *)
(* create, and the boxes unspent after it.  The node validated every block *)
(* it serves; ValidBlocks says what that means for the boxes.              *)
(***************************************************************************)
EXTENDS Integers

CONSTANTS
    Block, Tx, Coin,   \* block ids, transaction ids, box ids
    Genesis,           \* the genesis block, of height 1
    GenesisCoins,      \* the boxes that exist before the genesis block
    Height, Parent,    \* of the headers: functions on Block
    Inputs, Outputs,   \* boxes spent and created: functions to sets of TxCoin
    Unspent,           \* the boxes unspent after a block, on its own branch
    None               \* no block, no value

TxCoin == [tx: Tx, coin: Coin]

Creates(b) == {o.coin : o \in Outputs[b]}
Spends(b) == {i.coin : i \in Inputs[b]}
TxsOf(b) == {x.tx : x \in Inputs[b] \cup Outputs[b]}

UnspentBefore(b) == IF b = Genesis THEN GenesisCoins ELSE Unspent[Parent[b]]

ASSUME HeadersAssumption ==
    /\ Genesis \in Block /\ None \notin Block
    /\ Height \in [Block -> Nat \ {0}] /\ Height[Genesis] = 1
    /\ Parent \in [Block -> Block \cup {None}]
    /\ \A b \in Block \ {Genesis} :
           Parent[b] \in Block /\ Height[b] = Height[Parent[b]] + 1

ASSUME BoxesAssumption ==
    /\ GenesisCoins \subseteq Coin
    /\ Inputs \in [Block -> SUBSET TxCoin] /\ Outputs \in [Block -> SUBSET TxCoin]
    /\ Unspent \in [Block -> SUBSET Coin]

\* A valid block spends boxes that are unspent before it or that it creates
\* itself, and creates new ones.
ASSUME ValidBlocks ==
    \A b \in Block :
        /\ Spends(b) \subseteq UnspentBefore(b) \cup Creates(b)
        /\ Creates(b) \cap UnspentBefore(b) = {}
        /\ Unspent[b] = (UnspentBefore(b) \cup Creates(b)) \ Spends(b)

\* A block and its ancestors: what the node serves by height under that tip
Branch[b \in Block] ==
    {b} \cup (IF b = Genesis THEN {} ELSE Branch[Parent[b]])

\* Mistake: every input has to be found, see the header of Indexer
AllInputs(b) == Inputs[b]

\* GetInputsForTxs: the boxes a block spends that have to be found outside it.
\* A box created by an earlier transaction of the block is left out, and in a
\* valid block every box it both creates and spends is created earlier.
GetInputsForTxs(b) == {i \in Inputs[b] : i.coin \notin Creates(b)}
(* Conditions that some theorems name as hypotheses.  Blocks may break them. *)

\* The box exists on a branch only after block q.
OnlyIn(c, q) ==
    /\ c \in Creates(q) /\ c \notin GenesisCoins
    /\ \A b \in Block : c \in Creates(b) => b = q

\* Every block has to find a box that only its parent creates: the emission box,
\* unless two competing blocks of one miner share its transaction.
LinkedBlocks ==
    \A b \in Block \ {Genesis} : \E in \in GetInputsForTxs(b) : OnlyIn(in.coin, Parent[b])

\* No block creates a box that was already there, spent or not, on its branch:
\* made tells for each block what there was up to it.
MadeBefore(made, b) == IF b = Genesis THEN GenesisCoins ELSE made[Parent[b]]
MakesEachOnce(made) ==
    \A b \in Block : /\ made[b] = MadeBefore(made, b) \cup Creates(b)
                     /\ Creates(b) \cap MadeBefore(made, b) = {}

\* No two blocks have the same height.
SingleBranch == \A b, c \in Block : Height[b] = Height[c] => b = c
=============================================================================
