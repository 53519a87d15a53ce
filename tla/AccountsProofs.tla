--------------------------- MODULE AccountsProofs ---------------------------
(***************************************************************************)
(* Theorems about Accounts, for any block tree whose transactions are      *)
(* valid: no block fails to convert, and coins and balances are what the   *)
(* ledger of the boxes says, whatever is removed, fetched again or crashes.*)
(***************************************************************************)
EXTENDS Accounts, Sums, TLAPS

\* The coin of a box, as it is created and as it may be stored
TrueCoin(c) == [account |-> Owner[c], amount |-> Value[c]]
StoredCoins(c) == {TrueCoin(c), [account |-> Owner[c], amount |-> -Value[c]]}

\* A partial function on boxes that has their coins, signs apart
Kept(f) ==
    /\ f = [c \in DOMAIN f |-> f[c]] /\ DOMAIN f \subseteq Coin
    /\ \A c \in DOMAIN f : f[c] \in StoredCoins(c)

\* The operations of a block: one for each box it creates, and for each box it
\* spends one of either sign
SpentOp(c, v) == [coin |-> c, account |-> Owner[c], amount |-> v, action |-> "spent"]
CreatedOps(b) == {OutputToRosettaOp(c) : c \in Creates(b)}
Whole(b, ops) ==
    /\ CreatedOps(b) \subseteq ops
    /\ \A c \in Spends(b) : {SpentOp(c, Value[c]), SpentOp(c, -Value[c])} \cap ops # {}
    /\ \A op \in ops : \/ op \in CreatedOps(b)
                       \/ \E c \in Spends(b) : op \in {SpentOp(c, Value[c]), SpentOp(c, -Value[c])}

-----------------------------------------------------------------------------
(* Transactions and operations *)

\* A box has an owner and a value, whose sign can be turned twice.
LEMMA BoxType ==
    ASSUME NEW c \in Coin
    PROVE  /\ Owner[c] \in Account /\ Value[c] \in Nat \ {0}
           /\ -Value[c] \in Int /\ -(-Value[c]) = Value[c] /\ -Value[c] < 0
           /\ TrueCoin(c) \in AccountCoin /\ StoredCoins(c) \subseteq AccountCoin
BY BoxAssumption DEF TrueCoin, StoredCoins, AccountCoin

\* The boxes of a block are those of its transactions.
LEMMA BlockBoxes ==
    ASSUME NEW b \in Block, NEW txs, txs = Transactions[b]
    PROVE  /\ txs \in Seq(Tx) /\ DOMAIN txs = 1 .. Len(txs) /\ Len(txs) \in Nat
           /\ \A n \in DOMAIN txs :
                  /\ txs[n] \in Tx
                  /\ TxInputs[txs[n]] \subseteq Coin /\ TxOutputs[txs[n]] \subseteq Coin
           /\ \A c : c \in Creates(b) <=> \E n \in DOMAIN txs : c \in TxOutputs[txs[n]]
           /\ \A c : c \in Spends(b) <=> \E n \in DOMAIN txs : c \in TxInputs[txs[n]]
           /\ Creates(b) \subseteq Coin /\ Spends(b) \subseteq Coin
<1>1. txs \in Seq(Tx)
  BY TransactionsAssumption
<1>2. DOMAIN txs = 1 .. Len(txs) /\ Len(txs) \in Nat /\ \A n \in DOMAIN txs : txs[n] \in Tx
  BY <1>1
<1>3. \A n \in DOMAIN txs : TxInputs[txs[n]] \subseteq Coin /\ TxOutputs[txs[n]] \subseteq Coin
  BY <1>2, TransactionsAssumption
<1>4. ToSet(txs) = {txs[n] : n \in DOMAIN txs}
  BY DEF ToSet
<1>5. /\ Inputs[b] = {i \in TxCoin : i.tx \in ToSet(txs) /\ i.coin \in TxInputs[i.tx]}
      /\ Outputs[b] = {o \in TxCoin : o.tx \in ToSet(txs) /\ o.coin \in TxOutputs[o.tx]}
  BY TransactionsAssumption
<1>6. \A c : c \in Creates(b) <=> \E n \in DOMAIN txs : c \in TxOutputs[txs[n]]
  <2>1. ASSUME NEW n \in DOMAIN txs, NEW c \in TxOutputs[txs[n]] PROVE c \in Creates(b)
    <3>1. [tx |-> txs[n], coin |-> c] \in Outputs[b]
      BY <1>2, <1>3, <1>4, <1>5 DEF TxCoin
    <3> QED BY <3>1 DEF Creates
  <2>2. ASSUME NEW c \in Creates(b) PROVE \E n \in DOMAIN txs : c \in TxOutputs[txs[n]]
    BY <1>4, <1>5 DEF Creates
  <2> QED BY <2>1, <2>2
<1>7. \A c : c \in Spends(b) <=> \E n \in DOMAIN txs : c \in TxInputs[txs[n]]
  <2>1. ASSUME NEW n \in DOMAIN txs, NEW c \in TxInputs[txs[n]] PROVE c \in Spends(b)
    <3>1. [tx |-> txs[n], coin |-> c] \in Inputs[b]
      BY <1>2, <1>3, <1>4, <1>5 DEF TxCoin
    <3> QED BY <3>1 DEF Spends
  <2>2. ASSUME NEW c \in Spends(b) PROVE \E n \in DOMAIN txs : c \in TxInputs[txs[n]]
    BY <1>4, <1>5 DEF Spends
  <2> QED BY <2>1, <2>2
<1>8. Creates(b) \subseteq Coin /\ Spends(b) \subseteq Coin
  BY <1>3, <1>6, <1>7
<1> QED BY <1>1, <1>2, <1>3, <1>6, <1>7, <1>8

\* An input of a transaction is a box unspent before the block, and then the block
\* does not create it, or an earlier transaction creates it.
LEMMA InputOrigin ==
    ASSUME NEW b \in Block, NEW txs, txs = Transactions[b], NEW n \in DOMAIN txs,
           NEW c \in TxInputs[txs[n]]
    PROVE  /\ OutputsUpTo(txs, n - 1) \subseteq OutputsUpTo(txs, n)
           /\ OutputsUpTo(txs, n) \subseteq Creates(b)
           /\ \/ c \in UnspentBefore(b) /\ c \notin Creates(b)
              \/ c \in OutputsUpTo(txs, n - 1)
<1>1. /\ DOMAIN txs = 1 .. Len(txs) /\ Len(txs) \in Nat
      /\ \A x : x \in Creates(b) <=> \E m \in DOMAIN txs : x \in TxOutputs[txs[m]]
  BY BlockBoxes
<1>2. 1 .. n - 1 \subseteq 1 .. n /\ 1 .. n \subseteq DOMAIN txs
  BY <1>1, SMT
<1>3. OutputsUpTo(txs, n - 1) \subseteq OutputsUpTo(txs, n)
  BY <1>2 DEF OutputsUpTo
<1>4. OutputsUpTo(txs, n) \subseteq Creates(b)
  BY <1>1, <1>2 DEF OutputsUpTo
<1>5. c \in UnspentBefore(b) \cup OutputsUpTo(txs, n - 1)
  BY ValidTransactions
<1>6. Creates(b) \cap UnspentBefore(b) = {}
  BY ValidBlocks
<1> QED BY <1>3, <1>4, <1>5, <1>6

\* What a block needs from outside is what it spends and does not create: the pass
\* over its transactions finds what the blocks of Indexer wait for
\* (utils.go:21-41).
THEOREM RequiredInputs ==
    \A b \in Block : InputsForTxs(Transactions[b]) = GetInputsForTxs(b)
<1> SUFFICES ASSUME NEW b \in Block PROVE InputsForTxs(Transactions[b]) = GetInputsForTxs(b)
  OBVIOUS
<1> DEFINE txs == Transactions[b]
<1>1. /\ \A n \in DOMAIN txs : txs[n] \in Tx /\ TxInputs[txs[n]] \subseteq Coin
      /\ ToSet(txs) = {txs[n] : n \in DOMAIN txs}
  BY BlockBoxes DEF ToSet
<1>2. Inputs[b] = {i \in TxCoin : i.tx \in ToSet(txs) /\ i.coin \in TxInputs[i.tx]}
  BY TransactionsAssumption
<1> HIDE DEF txs
<1>3. ASSUME NEW i \in GetInputsForTxs(b) PROVE i \in InputsForTxs(txs)
  <2>1. i \in TxCoin /\ i.coin \notin Creates(b)
    BY <1>2, <1>3 DEF GetInputsForTxs
  <2>2. PICK n \in DOMAIN txs : i.tx = txs[n] /\ i.coin \in TxInputs[txs[n]]
    BY <1>1, <1>2, <1>3 DEF GetInputsForTxs
  <2>3. i.coin \notin OutputsUpTo(txs, n)
    BY <2>1, <2>2, InputOrigin DEF txs
  <2>4. i = [tx |-> txs[n], coin |-> i.coin]
    BY <2>1, <2>2 DEF TxCoin
  <2> QED BY <2>2, <2>3, <2>4 DEF InputsForTxs
<1>4. ASSUME NEW i \in InputsForTxs(txs) PROVE i \in GetInputsForTxs(b)
  <2>1. PICK n \in DOMAIN txs :
            i \in {[tx |-> txs[n], coin |-> c] : c \in TxInputs[txs[n]] \ OutputsUpTo(txs, n)}
    BY <1>4 DEF InputsForTxs
  <2>2. PICK c \in TxInputs[txs[n]] : c \notin OutputsUpTo(txs, n) /\ i = [tx |-> txs[n], coin |-> c]
    BY <2>1
  <2>3. c \notin Creates(b)
    BY <2>2, InputOrigin DEF txs
  <2>4. i \in Inputs[b]
    BY <1>1, <1>2, <2>2 DEF TxCoin
  <2> QED BY <2>2, <2>3, <2>4 DEF GetInputsForTxs
<1> QED BY <1>3, <1>4 DEF txs

\* The coins that have to be found for a block.
LEMMA RequiredCoins ==
    ASSUME NEW b \in Block PROVE Required(b) = Spends(b) \ Creates(b)
BY RequiredInputs DEF Required, GetInputsForTxs, Spends

\* The coin of an action in a set of operations is that of one of them.
LEMMA CoinsOfOps ==
    ASSUME NEW ops, NEW action, NEW f, f = CoinsOf(ops, action)
    PROVE  /\ f = [c \in DOMAIN f |-> f[c]]
           /\ \A op \in ops : op.action = action => op.coin \in DOMAIN f
           /\ \A c \in DOMAIN f : \E op \in ops :
                  /\ op.action = action /\ op.coin = c
                  /\ f[c] = [account |-> op.account, amount |-> op.amount]
<1> DEFINE those == {op \in ops : op.action = action}
           OpOf(c) == CHOOSE op \in those : op.coin = c
           S == {op.coin : op \in those}
<1>1. f = [c \in S |-> [account |-> OpOf(c).account, amount |-> OpOf(c).amount]]
  BY DEF CoinsOf
<1>2. \A c \in S : OpOf(c) \in those /\ OpOf(c).coin = c
  OBVIOUS
<1> HIDE DEF OpOf
<1>3. DOMAIN f = S /\ f = [c \in S |-> f[c]]
  BY <1>1
<1>4. ASSUME NEW c \in S
      PROVE  /\ OpOf(c) \in ops /\ OpOf(c).action = action /\ OpOf(c).coin = c
             /\ f[c] = [account |-> OpOf(c).account, amount |-> OpOf(c).amount]
  BY <1>1, <1>2
<1>5. \A op \in ops : op.action = action => op.coin \in S
  OBVIOUS
<1>6. f = [c \in DOMAIN f |-> f[c]] /\ \A op \in ops : op.action = action => op.coin \in DOMAIN f
  BY <1>3, <1>5
<1>7. ASSUME NEW c \in DOMAIN f
      PROVE  \E op \in ops :
                 /\ op.action = action /\ op.coin = c
                 /\ f[c] = [account |-> op.account, amount |-> op.amount]
  <2>1. c \in S
    BY <1>3
  <2>2. PICK op : op = OpOf(c)
    OBVIOUS
  <2>3. /\ op \in ops /\ op.action = action /\ op.coin = c
        /\ f[c] = [account |-> op.account, amount |-> op.amount]
    BY <1>4, <2>1, <2>2
  <2> QED BY <2>3
<1> QED BY <1>6, <1>7

\* The coins that operations on outputs create.
LEMMA CoinsOfOutputs ==
    ASSUME NEW S
    PROVE  CoinsOf({OutputToRosettaOp(c) : c \in S}, "created") = [c \in S |-> TrueCoin(c)]
<1> DEFINE ops == {OutputToRosettaOp(c) : c \in S}
<1>1. PICK f : f = CoinsOf(ops, "created")
  OBVIOUS
<1>2. \A c : /\ OutputToRosettaOp(c).action = "created" /\ OutputToRosettaOp(c).coin = c
             /\ OutputToRosettaOp(c).account = Owner[c]
             /\ OutputToRosettaOp(c).amount = Value[c]
  BY DEF OutputToRosettaOp
<1>3. ASSUME NEW op \in ops
      PROVE  op.coin \in S /\ op.account = Owner[op.coin] /\ op.amount = Value[op.coin]
  BY <1>2
<1>4. \A c \in S : OutputToRosettaOp(c) \in ops
  OBVIOUS
<1> HIDE DEF ops
<1>5. f = [c \in DOMAIN f |-> f[c]] /\ \A c \in S : c \in DOMAIN f
  BY <1>1, <1>2, <1>4, CoinsOfOps
<1>6. ASSUME NEW c \in DOMAIN f PROVE c \in S /\ f[c] = TrueCoin(c)
  <2>1. PICK op \in ops : op.coin = c /\ f[c] = [account |-> op.account, amount |-> op.amount]
    BY <1>1, CoinsOfOps
  <2> QED BY <1>3, <2>1 DEF TrueCoin
<1>7. f = [c \in S |-> TrueCoin(c)]
  BY <1>5, <1>6
<1> QED BY <1>1, <1>7 DEF ops

\* The operations of a block on the boxes it creates, and on those it spends.
LEMMA WholeOps ==
    ASSUME NEW b \in Block, NEW ops, Whole(b, ops)
    PROVE  /\ \A op \in ops : op.action = "created" =>
                  op.coin \in Creates(b) /\ op = OutputToRosettaOp(op.coin)
           /\ \A op \in ops : op.action = "spent" =>
                  /\ op.coin \in Spends(b) /\ op.account = Owner[op.coin]
                  /\ op.amount \in {Value[op.coin], -Value[op.coin]}
                  /\ op = SpentOp(op.coin, op.amount)
           /\ \A op \in ops : op.action \in {"created", "spent"}
           /\ \A c \in Creates(b) : OutputToRosettaOp(c) \in ops
           /\ \A c \in Spends(b) : \E op \in ops : op.action = "spent" /\ op.coin = c
<1>1. \A c : OutputToRosettaOp(c).action = "created" /\ OutputToRosettaOp(c).coin = c
  BY DEF OutputToRosettaOp
<1>2. \A c, v : /\ SpentOp(c, v).action = "spent" /\ SpentOp(c, v).coin = c
                /\ SpentOp(c, v).account = Owner[c] /\ SpentOp(c, v).amount = v
  BY DEF SpentOp
<1>3. ASSUME NEW op \in ops
      PROVE  \/ \E c \in Creates(b) : op = OutputToRosettaOp(c)
             \/ \E c \in Spends(b) : \E v \in {Value[c], -Value[c]} : op = SpentOp(c, v)
  BY DEF Whole, CreatedOps
<1>4. \A c \in Creates(b) : OutputToRosettaOp(c) \in ops
  BY DEF Whole, CreatedOps
<1>5. \A c \in Spends(b) : \E op \in ops : op.action = "spent" /\ op.coin = c
  BY <1>2 DEF Whole
<1> QED BY <1>1, <1>2, <1>3, <1>4, <1>5

\* The coins of a block's operations: those of the boxes it creates, and of the
\* boxes it spends with either sign.
LEMMA CoinsOfWhole ==
    ASSUME NEW b \in Block, NEW ops, Whole(b, ops)
    PROVE  /\ CoinsOf(ops, "created") = [c \in Creates(b) |-> TrueCoin(c)]
           /\ DOMAIN CoinsOf(ops, "created") = Creates(b) /\ Kept(CoinsOf(ops, "created"))
           /\ DOMAIN CoinsOf(ops, "spent") = Spends(b) /\ Kept(CoinsOf(ops, "spent"))
<1>1. PICK made, gone : made = CoinsOf(ops, "created") /\ gone = CoinsOf(ops, "spent")
  OBVIOUS
<1>2. \A c : /\ OutputToRosettaOp(c).action = "created" /\ OutputToRosettaOp(c).coin = c
             /\ OutputToRosettaOp(c).account = Owner[c]
             /\ OutputToRosettaOp(c).amount = Value[c]
  BY DEF OutputToRosettaOp
<1>3. Creates(b) \subseteq Coin /\ Spends(b) \subseteq Coin
  BY BlockBoxes
<1>4. ASSUME NEW c \in DOMAIN made PROVE c \in Creates(b) /\ made[c] = TrueCoin(c)
  <2>1. PICK op \in ops : /\ op.action = "created" /\ op.coin = c
                          /\ made[c] = [account |-> op.account, amount |-> op.amount]
    BY <1>1, CoinsOfOps
  <2>2. c \in Creates(b) /\ op = OutputToRosettaOp(c)
    BY <2>1, WholeOps
  <2> QED BY <1>2, <2>1, <2>2 DEF TrueCoin
<1>5. ASSUME NEW c \in DOMAIN gone PROVE c \in Spends(b) /\ gone[c] \in StoredCoins(c)
  <2>1. PICK op \in ops : /\ op.action = "spent" /\ op.coin = c
                          /\ gone[c] = [account |-> op.account, amount |-> op.amount]
    BY <1>1, CoinsOfOps
  <2>2. c \in Spends(b) /\ op.account = Owner[c] /\ op.amount \in {Value[c], -Value[c]}
    BY <2>1, WholeOps
  <2> QED BY <2>1, <2>2 DEF StoredCoins, TrueCoin
<1>6. DOMAIN made = Creates(b)
  <2>1. ASSUME NEW c \in Creates(b) PROVE c \in DOMAIN made
    <3>1. OutputToRosettaOp(c) \in ops
      BY WholeOps
    <3> QED BY <1>1, <1>2, <3>1, CoinsOfOps
  <2> QED BY <1>4, <2>1
<1>7. DOMAIN gone = Spends(b)
  <2>1. ASSUME NEW c \in Spends(b) PROVE c \in DOMAIN gone
    <3>1. PICK op \in ops : op.action = "spent" /\ op.coin = c
      BY WholeOps
    <3> QED BY <1>1, <3>1, CoinsOfOps
  <2> QED BY <1>5, <2>1
<1>8. made = [c \in DOMAIN made |-> made[c]] /\ gone = [c \in DOMAIN gone |-> gone[c]]
  BY <1>1, CoinsOfOps
<1>9. made = [c \in Creates(b) |-> TrueCoin(c)]
  BY <1>4, <1>6, <1>8
<1>10. Kept(made) /\ Kept(gone)
  BY <1>3, <1>4, <1>5, <1>6, <1>7, <1>8 DEF Kept, StoredCoins
<1> QED BY <1>1, <1>6, <1>7, <1>9, <1>10

\* Partial functions on boxes that have their coins stay so.
LEMMA KeptOver ==
    ASSUME NEW f, Kept(f), NEW g, Kept(g)
    PROVE  Kept(Over(f, g)) /\ DOMAIN Over(f, g) = DOMAIN f \cup DOMAIN g
BY DEF Kept, Over

\* Without some boxes, too,
LEMMA KeptWithout ==
    ASSUME NEW f, Kept(f), NEW S
    PROVE  Kept(Without(f, S)) /\ DOMAIN Without(f, S) = DOMAIN f \ S
BY DEF Kept, Without

\* with one more,
LEMMA KeptWith ==
    ASSUME NEW f, Kept(f), NEW c \in Coin, NEW v \in StoredCoins(c)
    PROVE  Kept(With(f, c, v)) /\ DOMAIN With(f, c, v) = DOMAIN f \cup {c}
BY DEF Kept, With

\* and with the coins of boxes as they are created.
LEMMA KeptTrue ==
    ASSUME NEW S \in SUBSET Coin
    PROVE  Kept([c \in S |-> TrueCoin(c)]) /\ DOMAIN [c \in S |-> TrueCoin(c)] = S
BY DEF Kept, StoredCoins

\* The empty coin cache is one of them.
LEMMA NoCoinsKept == Kept(NoCoins) /\ DOMAIN NoCoins = {}
<1>1. NoCoins = [c \in {} |-> TrueCoin(c)]
  BY CoinsOfOutputs DEF NoCoins
<1> QED BY <1>1, KeptTrue

-----------------------------------------------------------------------------
(* Conversion *)

\* The coins at hand for a transaction of a block: when all that has to be found
\* was found, it has those of its inputs.
LEMMA CoinsAtHand ==
    ASSUME NEW b \in Block, NEW pre, Kept(pre), Required(b) \subseteq DOMAIN pre,
           NEW txs, txs = Transactions[b], NEW n \in DOMAIN txs,
           NEW coins, coins = Over(storeTxCoins(txs, n - 1), pre)
    PROVE  Kept(coins) /\ TxInputs[txs[n]] \subseteq DOMAIN coins
<1> DEFINE made == OutputsUpTo(txs, n - 1)
<1>1. made \subseteq Coin
  <2>1. ASSUME NEW m \in 1 .. n - 1 PROVE m \in DOMAIN txs
    <3>1. DOMAIN txs = 1 .. Len(txs) /\ Len(txs) \in Nat
      BY BlockBoxes, Zenon
    <3> QED BY <3>1
  <2>2. \A m \in DOMAIN txs : TxOutputs[txs[m]] \subseteq Coin
    BY BlockBoxes
  <2> QED BY <2>1, <2>2 DEF OutputsUpTo
<1>2. storeTxCoins(txs, n - 1) = [c \in made |-> TrueCoin(c)]
  BY CoinsOfOutputs DEF storeTxCoins
<1> HIDE DEF made
<1>3. Kept(storeTxCoins(txs, n - 1)) /\ DOMAIN storeTxCoins(txs, n - 1) = made
  BY <1>1, <1>2, KeptTrue
<1>4. Kept(coins) /\ DOMAIN coins = made \cup DOMAIN pre
  BY <1>3, KeptOver
<1>5. ASSUME NEW c \in TxInputs[txs[n]], c \notin made PROVE c \in DOMAIN pre
  <2>1. c \notin Creates(b)
    BY <1>5, InputOrigin DEF made
  <2>2. c \in Spends(b)
    BY BlockBoxes
  <2> QED BY <2>1, <2>2, RequiredCoins
<1> QED BY <1>4, <1>5

\* The operation on an input that was found has the owner of the box and its value
\* with one of the signs.
LEMMA InputOps ==
    ASSUME NEW f, Kept(f), NEW c \in DOMAIN f
    PROVE  InputToRosettaOp(c, f[c]) \in {SpentOp(c, Value[c]), SpentOp(c, -Value[c])}
<1>1. c \in Coin /\ f[c] \in StoredCoins(c)
  BY DEF Kept
<1>2. -(-Value[c]) = Value[c]
  BY <1>1, BoxType
<1> QED BY <1>1, <1>2 DEF StoredCoins, TrueCoin, InputToRosettaOp, SpentOp

\* A block for which all coins are found converts, to its operations.
LEMMA ConvertsWhole ==
    ASSUME NEW b \in Block, NEW pre, Kept(pre), Required(b) \subseteq DOMAIN pre,
           NEW block, block = BlockToRosettaBlock(b, pre)
    PROVE  /\ ~block.err /\ Whole(b, block.ops)
           /\ block.parent = IF b = Genesis THEN b ELSE Parent[b]
<1>1. PICK txs : txs = Transactions[b]
  OBVIOUS
<1> DEFINE coins(n) == Over(storeTxCoins(txs, n - 1), pre)
           missing == {n \in DOMAIN txs : ~(TxInputs[txs[n]] \subseteq DOMAIN coins(n))}
           ops == UNION {TxToRosettaTx(txs[n], coins(n)) : n \in DOMAIN txs \ missing}
<1>2. /\ block.err = (missing # {}) /\ block.ops = ops
      /\ block.parent = IF b = Genesis THEN b ELSE Parent[b]
  BY <1>1 DEF BlockToRosettaBlock
<1>3. \A n \in DOMAIN txs : Kept(coins(n)) /\ TxInputs[txs[n]] \subseteq DOMAIN coins(n)
  BY <1>1, CoinsAtHand
<1>4. /\ \A c : c \in Creates(b) <=> \E n \in DOMAIN txs : c \in TxOutputs[txs[n]]
      /\ \A c : c \in Spends(b) <=> \E n \in DOMAIN txs : c \in TxInputs[txs[n]]
  BY <1>1, BlockBoxes
<1> HIDE DEF coins
<1>5. missing = {}
  BY <1>3
<1>6. ops = UNION {TxToRosettaTx(txs[n], coins(n)) : n \in DOMAIN txs}
  BY <1>5
<1> HIDE DEF missing, ops
<1>7. ASSUME NEW c \in Creates(b) PROVE OutputToRosettaOp(c) \in ops
  <2>1. PICK n \in DOMAIN txs : c \in TxOutputs[txs[n]]
    BY <1>4
  <2>2. OutputToRosettaOp(c) \in TxToRosettaTx(txs[n], coins(n))
    BY <2>1 DEF TxToRosettaTx
  <2> QED BY <1>6, <2>2
<1>8. ASSUME NEW c \in Spends(b)
      PROVE  {SpentOp(c, Value[c]), SpentOp(c, -Value[c])} \cap ops # {}
  <2>1. PICK n \in DOMAIN txs : c \in TxInputs[txs[n]]
    BY <1>4
  <2>2. InputToRosettaOp(c, coins(n)[c]) \in TxToRosettaTx(txs[n], coins(n))
    BY <2>1 DEF TxToRosettaTx
  <2>3. InputToRosettaOp(c, coins(n)[c]) \in {SpentOp(c, Value[c]), SpentOp(c, -Value[c])}
    BY <1>3, <2>1, InputOps
  <2>4. InputToRosettaOp(c, coins(n)[c]) \in ops
    BY <1>6, <2>2
  <2> QED BY <2>3, <2>4
<1>9. ASSUME NEW op \in ops
      PROVE  \/ op \in CreatedOps(b)
             \/ \E c \in Spends(b) : op \in {SpentOp(c, Value[c]), SpentOp(c, -Value[c])}
  <2>1. PICK n \in DOMAIN txs : op \in TxToRosettaTx(txs[n], coins(n))
    BY <1>6
  <2>2. CASE \E c \in TxOutputs[txs[n]] : op = OutputToRosettaOp(c)
    BY <1>4, <2>2 DEF CreatedOps
  <2>3. CASE \E c \in TxInputs[txs[n]] : op = InputToRosettaOp(c, coins(n)[c])
    <3>1. PICK c \in TxInputs[txs[n]] : op = InputToRosettaOp(c, coins(n)[c])
      BY <2>3
    <3>2. op \in {SpentOp(c, Value[c]), SpentOp(c, -Value[c])}
      BY <1>3, <3>1, InputOps
    <3> QED BY <1>4, <3>2
  <2> QED BY <2>1, <2>2, <2>3 DEF TxToRosettaTx
<1>10. Whole(b, ops)
  BY <1>7, <1>8, <1>9 DEF Whole, CreatedOps
<1> QED BY <1>2, <1>5, <1>10

\* The operations of a block are operations.
LEMMA WholeType ==
    ASSUME NEW b \in Block, NEW ops, Whole(b, ops)
    PROVE  ops \subseteq Operation
<1>1. ASSUME NEW op \in ops, op.action = "created" PROVE op \in Operation
  <2>1. op.coin \in Creates(b) /\ op = OutputToRosettaOp(op.coin) /\ op.coin \in Coin
    BY <1>1, WholeOps, BlockBoxes
  <2>2. Owner[op.coin] \in Account /\ Value[op.coin] \in Int
    BY <2>1, BoxType
  <2> QED BY <2>1, <2>2 DEF OutputToRosettaOp, Operation
<1>2. ASSUME NEW op \in ops, op.action = "spent" PROVE op \in Operation
  <2>1. /\ op.coin \in Coin /\ op.amount \in {Value[op.coin], -Value[op.coin]}
        /\ op = SpentOp(op.coin, op.amount)
    BY <1>2, WholeOps, BlockBoxes
  <2>2. Owner[op.coin] \in Account /\ Value[op.coin] \in Int /\ -Value[op.coin] \in Int
    BY <2>1, BoxType
  <2> QED BY <2>1, <2>2 DEF SpentOp, Operation
<1>3. \A op \in ops : op.action \in {"created", "spent"}
  BY WholeOps
<1> QED BY <1>1, <1>2, <1>3

\* The operations of a block with every input negative
DebitOps(b) == {SpentOp(c, -Value[c]) : c \in Spends(b)}

\* The repair makes the operations of a block those, whatever their signs were.
LEMMA EnsuredOps ==
    ASSUME NEW b \in Block, NEW ops, Whole(b, ops)
    PROVE  /\ ensureNegativeValueInputs(ops) = CreatedOps(b) \cup DebitOps(b)
           /\ Whole(b, ensureNegativeValueInputs(ops))
<1> DEFINE fix(op) == IF op.action = "spent" /\ op.amount > 0 THEN [op EXCEPT !.amount = -@] ELSE op
<1>1. ensureNegativeValueInputs(ops) = {fix(op) : op \in ops}
  BY DEF ensureNegativeValueInputs
<1>2. ASSUME NEW op \in ops, op.action = "created"
      PROVE  op.coin \in Creates(b) /\ fix(op) = OutputToRosettaOp(op.coin)
  BY <1>2, WholeOps
<1>3. ASSUME NEW op \in ops, op.action = "spent"
      PROVE  op.coin \in Spends(b) /\ fix(op) = SpentOp(op.coin, -Value[op.coin])
  <2>1. /\ op.coin \in Spends(b) /\ op.coin \in Coin /\ op = SpentOp(op.coin, op.amount)
        /\ op.amount \in {Value[op.coin], -Value[op.coin]}
    BY <1>3, WholeOps, BlockBoxes
  <2>2. Value[op.coin] > 0 /\ ~(-Value[op.coin] > 0)
    BY <2>1, BoxType
  <2>3. CASE op.amount = Value[op.coin]
    BY <1>3, <2>1, <2>2, <2>3 DEF SpentOp
  <2>4. CASE op.amount = -Value[op.coin]
    BY <1>3, <2>1, <2>2, <2>4 DEF SpentOp
  <2> QED BY <2>1, <2>3, <2>4
<1>4. /\ \A op \in ops : op.action \in {"created", "spent"}
      /\ \A c \in Creates(b) : \E op \in ops : op.action = "created" /\ op.coin = c
      /\ \A c \in Spends(b) : \E op \in ops : op.action = "spent" /\ op.coin = c
  <2>1. \A c : OutputToRosettaOp(c).action = "created" /\ OutputToRosettaOp(c).coin = c
    BY DEF OutputToRosettaOp
  <2> QED BY <2>1, WholeOps
<1> HIDE DEF fix
<1>5. {fix(op) : op \in ops} = CreatedOps(b) \cup DebitOps(b)
  <2>1. ASSUME NEW op \in ops PROVE fix(op) \in CreatedOps(b) \cup DebitOps(b)
    BY <1>2, <1>3, <1>4 DEF CreatedOps, DebitOps
  <2>2. ASSUME NEW c \in Creates(b) PROVE \E op \in ops : OutputToRosettaOp(c) = fix(op)
    BY <1>2, <1>4
  <2>3. ASSUME NEW c \in Spends(b) PROVE \E op \in ops : SpentOp(c, -Value[c]) = fix(op)
    BY <1>3, <1>4
  <2> QED BY <2>1, <2>2, <2>3 DEF CreatedOps, DebitOps
<1>6. Whole(b, CreatedOps(b) \cup DebitOps(b))
  BY DEF Whole, DebitOps
<1> QED BY <1>1, <1>5, <1>6

-----------------------------------------------------------------------------
(* Balances *)

Owned(S, a) == {c \in S : Owner[c] = a}

\* A set of boxes is finite and has a value, which is not negative.
LEMMA ValueType ==
    ASSUME NEW S \in SUBSET Coin
    PROVE  IsFiniteSet(S) /\ TotalValue(S) \in Nat
<1>1. IsFiniteSet(S)
  BY BoxAssumption, FS_Subset
<1>2. \A c \in S : Value[c] \in Nat
  BY BoxType
<1> QED BY <1>1, <1>2, SumNat DEF TotalValue

\* The values of two sets that share no box add up.
LEMMA ValueUnion ==
    ASSUME NEW S \in SUBSET Coin, NEW U \in SUBSET Coin, S \cap U = {}
    PROVE  TotalValue(S \cup U) = TotalValue(S) + TotalValue(U)
<1>1. IsFiniteSet(S) /\ IsFiniteSet(U) /\ \A c \in S \cup U : Value[c] \in Int
  BY ValueType, BoxType
<1> QED BY <1>1, SumUnion DEF TotalValue

\* The operations of a block with negative inputs change the balance of an account
\* by the value of the boxes it gains and loses.
LEMMA ChangeIsValue ==
    ASSUME NEW b \in Block, NEW a
    PROVE  BalanceChange(CreatedOps(b) \cup DebitOps(b), a) =
               TotalValue(Owned(Creates(b), a)) - TotalValue(Owned(Spends(b), a))
<1> DEFINE ops == {op \in CreatedOps(b) \cup DebitOps(b) : op.account = a}
           amount == [op \in ops |-> op.amount]
           C == Owned(Creates(b), a)
           S == Owned(Spends(b), a)
           credit == [c \in C |-> OutputToRosettaOp(c)]
           debit == [c \in S |-> SpentOp(c, -Value[c])]
           minus == [c \in S |-> -Value[c]]
           credits == {credit[c] : c \in C}
           debits == {debit[c] : c \in S}
<1>1. C \in SUBSET Coin /\ S \in SUBSET Coin
  BY BlockBoxes DEF Owned
<1>2. \A c : /\ OutputToRosettaOp(c).account = Owner[c] /\ OutputToRosettaOp(c).coin = c
             /\ OutputToRosettaOp(c).amount = Value[c] /\ OutputToRosettaOp(c).action = "created"
  BY DEF OutputToRosettaOp
<1>3. \A c, v : /\ SpentOp(c, v).account = Owner[c] /\ SpentOp(c, v).coin = c
                /\ SpentOp(c, v).amount = v /\ SpentOp(c, v).action = "spent"
  BY DEF SpentOp
<1>4. ops = credits \cup debits
  <2>1. ASSUME NEW op \in ops PROVE op \in credits \cup debits
    <3>1. CASE op \in CreatedOps(b)
      BY <1>2, <3>1 DEF CreatedOps, Owned
    <3>2. CASE op \in DebitOps(b)
      BY <1>3, <3>2 DEF DebitOps, Owned
    <3> QED BY <2>1, <3>1, <3>2
  <2>2. ASSUME NEW c \in C PROVE credit[c] \in ops
    BY <1>2 DEF CreatedOps, Owned
  <2>3. ASSUME NEW c \in S PROVE debit[c] \in ops
    BY <1>3 DEF DebitOps, Owned
  <2> QED BY <2>1, <2>2, <2>3
<1>5. credits \cap debits = {}
  BY <1>2, <1>3
<1>6. IsFiniteSet(C) /\ IsFiniteSet(S)
  BY <1>1, ValueType
<1>7. /\ \A c \in C : Value[c] \in Int /\ amount[credit[c]] = Value[c]
      /\ \A x, y \in C : credit[x] = credit[y] => x = y
  <2>1. \A c \in C : Value[c] \in Int
    BY <1>1, BoxType
  <2>2. \A c \in C : credit[c] \in ops /\ credit[c].amount = Value[c] /\ credit[c].coin = c
    BY <1>2, <1>4
  <2> QED BY <2>1, <2>2
<1>8. /\ \A c \in S : /\ minus[c] \in Int /\ amount[debit[c]] = minus[c]
                      /\ Value[c] \in Int /\ minus[c] = 0 - Value[c]
      /\ \A x, y \in S : debit[x] = debit[y] => x = y
  <2>1. \A c \in S : Value[c] \in Int /\ -Value[c] \in Int /\ -Value[c] = 0 - Value[c]
    BY <1>1, BoxType
  <2>2. \A c \in S : debit[c] \in ops /\ debit[c].amount = -Value[c] /\ debit[c].coin = c
    BY <1>3, <1>4
  <2> QED BY <2>1, <2>2
<1>9. IsFiniteSet(credits) /\ IsFiniteSet(debits)
  BY <1>6, ImageFinite
<1> HIDE DEF credit, debit, minus, amount, C, S, ops
<1>10. SumFunctionOnSet(amount, credits) = TotalValue(C)
  BY <1>6, <1>7, SumImage DEF TotalValue
<1>11. SumFunctionOnSet(amount, debits) = 0 - TotalValue(S)
  <2>1. SumFunctionOnSet(amount, debits) = SumFunctionOnSet(minus, S)
    BY <1>6, <1>8, SumImage
  <2>2. SumFunctionOnSet(minus, S) = 0 - SumFunctionOnSet(Value, S)
    BY <1>6, <1>8, SumNegative
  <2> QED BY <2>1, <2>2 DEF TotalValue
<1>12. \A op \in credits \cup debits : amount[op] \in Int
  BY <1>7, <1>8
<1> HIDE DEF credits, debits
<1>13. SumFunctionOnSet(amount, ops) =
           SumFunctionOnSet(amount, credits) + SumFunctionOnSet(amount, debits)
  BY <1>4, <1>5, <1>9, <1>12, SumUnion
<1>14. TotalValue(C) \in Int /\ TotalValue(S) \in Int
  BY <1>1, ValueType
<1>15. SumFunctionOnSet(amount, ops) = TotalValue(C) - TotalValue(S)
  BY <1>10, <1>11, <1>13, <1>14
<1>16. BalanceChange(CreatedOps(b) \cup DebitOps(b), a) = SumFunctionOnSet(amount, ops)
  BY DEF BalanceChange, amount, ops
<1> QED BY <1>15, <1>16 DEF C, S

\* A block changes the value of the boxes an account owns by what it gains and loses.
LEMMA ValueAfter ==
    ASSUME NEW b \in Block, NEW a
    PROVE  TotalValue(Owned(Unspent[b], a)) =
               TotalValue(Owned(UnspentBefore(b), a))
                   + (TotalValue(Owned(Creates(b), a)) - TotalValue(Owned(Spends(b), a)))
<1> DEFINE B == Owned(UnspentBefore(b), a)
           C == Owned(Creates(b), a)
           S == Owned(Spends(b), a)
           U == Owned(Unspent[b], a)
<1>1. /\ Spends(b) \subseteq UnspentBefore(b) \cup Creates(b)
      /\ Creates(b) \cap UnspentBefore(b) = {}
      /\ Unspent[b] = (UnspentBefore(b) \cup Creates(b)) \ Spends(b)
  BY ValidBlocks
<1>2. UnspentBefore(b) \subseteq Coin /\ Creates(b) \subseteq Coin
  BY HeadersAssumption, BoxesAssumption, BlockBoxes DEF UnspentBefore
<1>3. /\ B \in SUBSET Coin /\ C \in SUBSET Coin /\ S \in SUBSET Coin /\ U \in SUBSET Coin
      /\ B \cap C = {} /\ U \cap S = {} /\ U \cup S = B \cup C
  BY <1>1, <1>2 DEF Owned
<1> HIDE DEF B, C, S, U
<1>4. TotalValue(U) + TotalValue(S) = TotalValue(B) + TotalValue(C)
  BY <1>3, ValueUnion
<1>5. /\ TotalValue(U) \in Int /\ TotalValue(S) \in Int
      /\ TotalValue(B) \in Int /\ TotalValue(C) \in Int
  BY <1>3, ValueType
<1>6. TotalValue(U) = TotalValue(B) + (TotalValue(C) - TotalValue(S))
  BY <1>4, <1>5
<1> QED BY <1>6 DEF B, C, S, U

-----------------------------------------------------------------------------
(* The inductive invariant *)

\* The chain is a path of the block tree from the genesis block.
ChainInv ==
    /\ chain \in Seq(Block)
    /\ chain # << >> => chain[1] = Genesis
    /\ \A n \in 2 .. Len(chain) : chain[n] # Genesis /\ Parent[chain[n]] = chain[n - 1]

\* Before syncing nothing is fetched or added, and nothing ever failed.
PhaseInv ==
    /\ phase \in {"balances", "coins", "sync"} /\ failed = FALSE
    /\ phase # "sync" => chain = << >> /\ DOMAIN fetches = {} /\ DOMAIN results = {}

\* The stored coins are those unspent after the head, and all coins are kept.
CoinInv ==
    /\ Kept(coinStore) /\ Kept(coinCache)
    /\ \A c \in DOMAIN coinCache : coinCache[c] = TrueCoin(c)
    /\ IF chain = << >>
       THEN /\ DOMAIN coinStore \subseteq GenesisCoins
            /\ phase = "sync" => DOMAIN coinStore = GenesisCoins
       ELSE DOMAIN coinStore = Unspent[HeadBlock]

\* Whatever copy of a block there is, it has the operations of the block.
BlockInv ==
    /\ DOMAIN fetches \cup DOMAIN results \cup DOMAIN blocks \subseteq Block
    /\ \A b \in DOMAIN fetches : Kept(fetches[b])
    /\ \A b \in DOMAIN blocks : Whole(b, blocks[b].ops)
    /\ \A b \in DOMAIN results :
           /\ Whole(b, results[b].ops)
           /\ results[b].parent = IF b = Genesis THEN b ELSE Parent[b]

\* There are balances for every height, and they are the values of boxes.
HistoryInv ==
    /\ history \in [1 .. BalanceHeight -> [Account -> Nat]]
    /\ chain = << >> /\ phase # "balances" => history[1] = BootstrapBalances
    /\ \A n \in 1 .. Len(chain), a \in Account :
           history[n][a] = TotalValue(Owned(Unspent[chain[n]], a))

AInv == ChainInv /\ PhaseInv /\ CoinInv /\ BlockInv /\ HistoryInv

\* A chain that is not empty has a head.
LEMMA AccountsHead ==
    ASSUME ChainInv
    PROVE  /\ Len(chain) \in Nat
           /\ chain = << >> <=> Len(chain) = 0
           /\ chain # << >> => /\ Len(chain) \in Nat \ {0} /\ HeadBlock = chain[Len(chain)]
                               /\ HeadBlock \in Block /\ BalanceHeight = Len(chain)
           /\ chain = << >> => BalanceHeight = 1
BY DEF ChainInv, HeadBlock, BalanceHeight

\* The configured balances are values of boxes.
LEMMA BootstrapType ==
    /\ BootstrapBalances \in [Account -> Nat]
    /\ \A a \in Account : BootstrapBalances[a] = TotalValue(Owned(GenesisCoins, a))
<1>1. \A a : Owned(GenesisCoins, a) = {c \in GenesisCoins : Owner[c] = a}
  BY DEF Owned
<1>2. \A a : Owned(GenesisCoins, a) \in SUBSET Coin
  BY BoxesAssumption DEF Owned
<1>3. \A a : TotalValue(Owned(GenesisCoins, a)) \in Nat
  BY <1>2, ValueType
<1>4. BootstrapBalances = [a \in Account |-> TotalValue(Owned(GenesisCoins, a))]
  BY <1>1, BootstrapAssumption
<1> QED BY <1>3, <1>4

\* Adding a block to the coins unspent before it gives those unspent after it.
LEMMA CoinsAdded ==
    ASSUME NEW b \in Block, NEW ops, Whole(b, ops), Kept(coinStore),
           DOMAIN coinStore = UnspentBefore(b),
           NEW coins, coins = CoinsAfter(ops, "spent", "created")
    PROVE  Kept(coins) /\ DOMAIN coins = Unspent[b]
<1> DEFINE new == CoinsOf(ops, "created")
           gone == CoinsOf(ops, "spent")
           kept == Without(coinStore, Spends(b))
           made == Without(new, Spends(b))
<1>1. DOMAIN new = Creates(b) /\ Kept(new) /\ DOMAIN gone = Spends(b)
  BY CoinsOfWhole
<1>2. coins = Over(made, kept)
  <2>1. coins = Over(Without(new, DOMAIN gone), Without(coinStore, DOMAIN gone))
    BY DEF CoinsAfter
  <2> HIDE DEF new, gone
  <2> QED BY <1>1, <2>1
<1> HIDE DEF new
<1>3. /\ Kept(made) /\ DOMAIN made = Creates(b) \ Spends(b)
      /\ Kept(kept) /\ DOMAIN kept = UnspentBefore(b) \ Spends(b)
  <2>1. Kept(made) /\ DOMAIN made = DOMAIN new \ Spends(b)
    BY <1>1, KeptWithout
  <2>2. Kept(kept) /\ DOMAIN kept = DOMAIN coinStore \ Spends(b)
    BY KeptWithout
  <2> HIDE DEF made, kept
  <2> QED BY <1>1, <2>1, <2>2
<1> HIDE DEF made, kept
<1>4. Kept(coins) /\ DOMAIN coins = DOMAIN made \cup DOMAIN kept
  <2>1. Kept(Over(made, kept)) /\ DOMAIN Over(made, kept) = DOMAIN made \cup DOMAIN kept
    BY ONLY <1>3, KeptOver
  <2> QED BY ONLY <1>2, <2>1
<1>5. Unspent[b] = (UnspentBefore(b) \cup Creates(b)) \ Spends(b)
  BY ValidBlocks
<1> QED BY <1>3, <1>4, <1>5

\* Undoing a block in the coins unspent after it gives those unspent before it.
LEMMA CoinsRemoved ==
    ASSUME NEW b \in Block, NEW ops, Whole(b, ops), Kept(coinStore),
           DOMAIN coinStore = Unspent[b],
           NEW coins, coins = CoinsAfter(ops, "created", "spent")
    PROVE  Kept(coins) /\ DOMAIN coins = UnspentBefore(b)
<1> DEFINE new == CoinsOf(ops, "spent")
           gone == CoinsOf(ops, "created")
           kept == Without(coinStore, Creates(b))
           made == Without(new, Creates(b))
<1>1. DOMAIN new = Spends(b) /\ Kept(new) /\ DOMAIN gone = Creates(b)
  BY CoinsOfWhole
<1>2. coins = Over(made, kept)
  <2>1. coins = Over(Without(new, DOMAIN gone), Without(coinStore, DOMAIN gone))
    BY DEF CoinsAfter
  <2> HIDE DEF new, gone
  <2> QED BY <1>1, <2>1
<1> HIDE DEF new
<1>3. /\ Kept(made) /\ DOMAIN made = Spends(b) \ Creates(b)
      /\ Kept(kept) /\ DOMAIN kept = Unspent[b] \ Creates(b)
  <2>1. Kept(made) /\ DOMAIN made = DOMAIN new \ Creates(b)
    BY <1>1, KeptWithout
  <2>2. Kept(kept) /\ DOMAIN kept = DOMAIN coinStore \ Creates(b)
    BY KeptWithout
  <2> HIDE DEF made, kept
  <2> QED BY <1>1, <2>1, <2>2
<1> HIDE DEF made, kept
<1>4. Kept(coins) /\ DOMAIN coins = DOMAIN made \cup DOMAIN kept
  <2>1. Kept(Over(made, kept)) /\ DOMAIN Over(made, kept) = DOMAIN made \cup DOMAIN kept
    BY ONLY <1>3, KeptOver
  <2> QED BY ONLY <1>2, <2>1
<1>5. /\ Spends(b) \subseteq UnspentBefore(b) \cup Creates(b)
      /\ Creates(b) \cap UnspentBefore(b) = {}
      /\ Unspent[b] = (UnspentBefore(b) \cup Creates(b)) \ Spends(b)
  BY ValidBlocks
<1> QED BY <1>3, <1>4, <1>5


-----------------------------------------------------------------------------
(* Steps of the storage *)

\* An added block is the genesis block or a child of the head; the syncer adds it
\* with the coins unspent before it stored and balances that are their values.
LEMMA AddPlace ==
    ASSUME AInv, NEW b \in DOMAIN results, BlockAdded(b)
    PROVE  /\ b \in Block /\ phase = "sync"
           /\ chain = << >> => b = Genesis
           /\ chain # << >> => b # Genesis /\ Parent[b] = HeadBlock
           /\ DOMAIN coinStore = UnspentBefore(b)
           /\ \A a \in Account :
                  history[BalanceHeight][a] = TotalValue(Owned(UnspentBefore(b), a))
<1>1. /\ b \in Block /\ results[b].parent = IF b = Genesis THEN b ELSE Parent[b]
      /\ phase = "sync"
  BY DEF AInv, BlockInv, PhaseInv
<1>2. /\ chain = << >> => b = Genesis
      /\ chain # << >> => b # Genesis /\ Parent[b] = HeadBlock
  BY <1>1 DEF BlockAdded
<1>3. CASE chain = << >>
  <2>1. UnspentBefore(b) = GenesisCoins /\ BalanceHeight = 1
    BY <1>2, <1>3 DEF UnspentBefore, BalanceHeight
  <2>2. DOMAIN coinStore = GenesisCoins
    BY <1>1, <1>3 DEF AInv, CoinInv
  <2>3. history[1] = BootstrapBalances
    BY <1>1, <1>3 DEF AInv, HistoryInv
  <2> QED BY <1>1, <1>2, <2>1, <2>2, <2>3, BootstrapType
<1>4. CASE chain # << >>
  <2>1. UnspentBefore(b) = Unspent[HeadBlock]
    BY <1>2, <1>4 DEF UnspentBefore
  <2>2. DOMAIN coinStore = Unspent[HeadBlock]
    BY <1>4 DEF AInv, CoinInv
  <2>3. BalanceHeight = Len(chain) /\ Len(chain) \in 1 .. Len(chain) /\ HeadBlock = chain[Len(chain)]
    BY <1>4, AccountsHead DEF AInv
  <2>4. \A a \in Account : history[Len(chain)][a] = TotalValue(Owned(Unspent[chain[Len(chain)]], a))
    BY <2>3 DEF AInv, HistoryInv
  <2> QED BY <1>1, <1>2, <1>4, <2>1, <2>2, <2>3, <2>4
<1> QED BY <1>3, <1>4

\* What adding a block does: no balance becomes negative, coins and balances are
\* those after the block.
LEMMA AddEffect ==
    ASSUME AInv, NEW b \in DOMAIN results, BlockAdded(b)
    PROVE  /\ UNCHANGED <<phase, failed, blocks, fetches>>
           /\ chain' = Append(chain, b)
           /\ Kept(coinStore') /\ DOMAIN coinStore' = Unspent[b]
           /\ \E balances \in [Account -> Nat] :
                  /\ history' = HistoryAfter(balances)
                  /\ \A a \in Account : balances[a] = TotalValue(Owned(Unspent[b], a))
           /\ coinCache' = Without(coinCache, Creates(b))
           /\ results' = Without(results, {b})
<1> DEFINE ops == ensureNegativeValueInputs(results[b].ops)
           balances == [a \in Account |-> history[BalanceHeight][a] + BalanceChange(ops, a)]
<1>1. /\ b \in Block /\ DOMAIN coinStore = UnspentBefore(b)
      /\ \A a \in Account : history[BalanceHeight][a] = TotalValue(Owned(UnspentBefore(b), a))
  BY AddPlace
<1>2. Whole(b, ops) /\ ops = CreatedOps(b) \cup DebitOps(b)
  BY <1>1, EnsuredOps DEF AInv, BlockInv
<1>3. ASSUME NEW a \in Account
      PROVE  balances[a] = TotalValue(Owned(Unspent[b], a)) /\ balances[a] \in Nat
  <2>1. BalanceChange(ops, a) =
            TotalValue(Owned(Creates(b), a)) - TotalValue(Owned(Spends(b), a))
    BY <1>1, <1>2, ChangeIsValue
  <2>2. balances[a] = TotalValue(Owned(Unspent[b], a))
    <3> HIDE DEF ops
    <3> QED BY <1>1, <2>1, ValueAfter
  <2>3. Owned(Unspent[b], a) \in SUBSET Coin
    BY <1>1, BoxesAssumption DEF Owned
  <2> HIDE DEF balances
  <2> QED BY <2>2, <2>3, ValueType
<1>4. balances = [a \in Account |-> balances[a]]
  OBVIOUS
<1>5. /\ IF \E a \in Account : balances[a] < 0
         THEN failed' = TRUE /\ UNCHANGED <<chain, coinStore, history, coinCache, results>>
         ELSE /\ chain' = Append(chain, b)
              /\ coinStore' = CoinsAfter(ops, "spent", "created")
              /\ history' = HistoryAfter(balances)
              /\ coinCache' = Without(coinCache, DOMAIN CoinsOf(ops, "created"))
              /\ results' = Without(results, {b})
              /\ UNCHANGED failed
      /\ UNCHANGED <<phase, blocks, fetches>>
  BY Zenon DEF BlockAdded
<1> HIDE DEF ops, balances
<1>6. ~ \E a \in Account : balances[a] < 0
  BY <1>3
<1>7. Kept(coinStore') /\ DOMAIN coinStore' = Unspent[b]
  <2>1. PICK coins : coins = CoinsAfter(ops, "spent", "created")
    OBVIOUS
  <2>2. Kept(coins) /\ DOMAIN coins = Unspent[b]
    BY <1>1, <1>2, <2>1, CoinsAdded DEF AInv, CoinInv
  <2>3. coinStore' = coins
    BY <1>5, <1>6, <2>1
  <2> QED BY <2>2, <2>3
<1>8. balances \in [Account -> Nat]
  BY <1>3, <1>4
<1>9. coinCache' = Without(coinCache, Creates(b))
  BY <1>1, <1>2, <1>5, <1>6, CoinsOfWhole
<1> QED BY <1>3, <1>5, <1>6, <1>7, <1>8, <1>9

\* What removing the head does: it has a predecessor, and coins and balances are
\* those after that.
LEMMA RemoveEffect ==
    ASSUME AInv, BlockRemoved
    PROVE  /\ UNCHANGED <<phase, failed, memoryVars>>
           /\ HeadBlock \in Block \ {Genesis}
           /\ Len(chain) \in Nat /\ Len(chain) - 1 \in 1 .. Len(chain)
           /\ Parent[HeadBlock] = chain[Len(chain) - 1]
           /\ chain' = SubSeq(chain, 1, Len(chain) - 1)
           /\ Kept(coinStore') /\ DOMAIN coinStore' = Unspent[Parent[HeadBlock]]
           /\ history' = SubSeq(history, 1, Len(chain) - 1)
           /\ blocks' = Without(blocks, {HeadBlock})
<1>1. /\ UNCHANGED <<phase, failed, memoryVars>> /\ Len(chain) > 1 /\ HeadBlock \in DOMAIN blocks
      /\ chain' = SubSeq(chain, 1, Len(chain) - 1)
      /\ coinStore' = CoinsAfter(blocks[HeadBlock].ops, "created", "spent")
      /\ history' = SubSeq(history, 1, Len(chain) - 1)
      /\ blocks' = Without(blocks, {HeadBlock})
  BY DEF BlockRemoved, memoryVars
<1>2. /\ Len(chain) \in Nat /\ Len(chain) - 1 \in 1 .. Len(chain) /\ chain # << >>
      /\ HeadBlock = chain[Len(chain)] /\ HeadBlock \in Block
  BY <1>1, AccountsHead DEF AInv
<1>3. HeadBlock # Genesis /\ Parent[HeadBlock] = chain[Len(chain) - 1]
  <2>1. Len(chain) \in 2 .. Len(chain)
    BY <1>1, <1>2
  <2> QED BY <1>2, <2>1 DEF AInv, ChainInv
<1>4. Whole(HeadBlock, blocks[HeadBlock].ops)
  BY <1>1 DEF AInv, BlockInv
<1>5. Kept(coinStore) /\ DOMAIN coinStore = Unspent[HeadBlock]
  BY <1>2 DEF AInv, CoinInv
<1>6. Kept(coinStore') /\ DOMAIN coinStore' = UnspentBefore(HeadBlock)
  BY <1>1, <1>2, <1>4, <1>5, CoinsRemoved
<1> QED BY <1>1, <1>2, <1>3, <1>6 DEF UnspentBefore


-----------------------------------------------------------------------------
(* Every step preserves the invariant *)

\* The initial state satisfies it.
LEMMA AccountsInit == Init => AInv
<1> SUFFICES ASSUME Init PROVE AInv
  OBVIOUS
<1>1. ChainInv /\ PhaseInv
  BY DEF Init, ChainInv, PhaseInv
<1>2. CoinInv
  BY NoCoinsKept DEF Init, CoinInv
<1>3. BlockInv
  BY DEF Init, BlockInv
<1>4. HistoryInv
  <2>1. history = << [a \in Account |-> 0] >> /\ BalanceHeight = 1 /\ Len(chain) = 0
        /\ phase = "balances"
    BY DEF Init, BalanceHeight
  <2> QED BY <2>1 DEF HistoryInv
<1> QED BY <1>1, <1>2, <1>3, <1>4 DEF AInv

\* Adding a block does.
LEMMA AddPreserves ==
    ASSUME AInv, NEW b \in DOMAIN results, BlockAdded(b) PROVE AInv'
<1>1. /\ b \in Block /\ phase = "sync"
      /\ chain = << >> => b = Genesis
      /\ chain # << >> => b # Genesis /\ Parent[b] = HeadBlock
  BY AddPlace
<1>2. /\ UNCHANGED <<phase, failed, blocks, fetches>>
      /\ chain' = Append(chain, b)
      /\ Kept(coinStore') /\ DOMAIN coinStore' = Unspent[b]
      /\ coinCache' = Without(coinCache, Creates(b))
      /\ results' = Without(results, {b})
  BY AddEffect
<1>3. PICK balances \in [Account -> Nat] :
          /\ history' = HistoryAfter(balances)
          /\ \A a \in Account : balances[a] = TotalValue(Owned(Unspent[b], a))
  BY AddEffect
<1>4. /\ chain \in Seq(Block) /\ Len(chain) \in Nat
      /\ chain = << >> <=> Len(chain) = 0
      /\ chain # << >> => HeadBlock = chain[Len(chain)] /\ BalanceHeight = Len(chain)
  BY AccountsHead DEF AInv, ChainInv
<1>5. /\ chain' \in Seq(Block) /\ chain' # << >> /\ Len(chain') = Len(chain) + 1
      /\ chain'[Len(chain) + 1] = b
      /\ \A n \in 1 .. Len(chain) : chain'[n] = chain[n]
  BY <1>1, <1>2, <1>4
<1>6. HeadBlock' = b /\ BalanceHeight' = Len(chain) + 1
  BY <1>5 DEF HeadBlock, BalanceHeight
<1>7. ChainInv'
  <2>1. chain'[1] = Genesis
    BY <1>1, <1>4, <1>5 DEF AInv, ChainInv
  <2>2. ASSUME NEW n \in 2 .. Len(chain')
        PROVE  chain'[n] # Genesis /\ Parent[chain'[n]] = chain'[n - 1]
    <3>1. CASE n = Len(chain) + 1
      <4>1. chain # << >> /\ Len(chain) \in 1 .. Len(chain) /\ n - 1 = Len(chain)
        BY <1>4, <3>1
      <4> QED BY <1>1, <1>4, <1>5, <3>1, <4>1
    <3>2. CASE n # Len(chain) + 1
      <4>1. n \in 2 .. Len(chain) /\ n \in 1 .. Len(chain) /\ n - 1 \in 1 .. Len(chain)
        BY <1>4, <1>5, <3>2
      <4> QED BY <1>5, <4>1 DEF AInv, ChainInv
    <3> QED BY <3>1, <3>2
  <2> QED BY <1>5, <2>1, <2>2 DEF ChainInv
<1>8. PhaseInv'
  BY <1>1, <1>2 DEF AInv, PhaseInv
<1>9. CoinInv'
  <2>1. Kept(coinCache') /\ \A c \in DOMAIN coinCache' : coinCache'[c] = TrueCoin(c)
    <3>1. Kept(coinCache') /\ DOMAIN coinCache' = DOMAIN coinCache \ Creates(b)
      BY <1>2, KeptWithout DEF AInv, CoinInv
    <3>2. \A c \in DOMAIN coinCache' : coinCache'[c] = coinCache[c]
      BY <1>2, <3>1 DEF Without
    <3> QED BY <3>1, <3>2 DEF AInv, CoinInv
  <2> QED BY <1>2, <1>5, <1>6, <2>1 DEF CoinInv
<1>10. BlockInv'
  <2>1. DOMAIN results' = DOMAIN results \ {b} /\ \A x \in DOMAIN results' : results'[x] = results[x]
    BY <1>2 DEF Without
  <2> QED BY <1>2, <2>1 DEF AInv, BlockInv
<1>11. HistoryInv'
  <2>1. history' = [n \in 1 .. Len(chain) + 1 |-> IF n = Len(chain) + 1 THEN balances ELSE history[n]]
    BY <1>3 DEF HistoryAfter
  <2>2. ASSUME NEW n \in 1 .. Len(chain)
        PROVE  /\ history'[n] \in [Account -> Nat] /\ n \in 1 .. Len(chain) + 1
               /\ \A a \in Account : history'[n][a] = TotalValue(Owned(Unspent[chain'[n]], a))
    <3>1. history'[n] = history[n] /\ chain'[n] = chain[n] /\ n \in 1 .. Len(chain) + 1
      BY <1>4, <1>5, <2>1
    <3>2. history \in [1 .. BalanceHeight -> [Account -> Nat]] /\ n \in 1 .. BalanceHeight
      BY <1>4 DEF AInv, HistoryInv
    <3> QED BY <3>1, <3>2 DEF AInv, HistoryInv
  <2>3. history'[Len(chain) + 1] = balances /\ Len(chain) + 1 \in 1 .. Len(chain) + 1
    BY <1>4, <2>1
  <2>4. \A n \in 1 .. Len(chain) + 1 : n \in 1 .. Len(chain) \/ n = Len(chain) + 1
    BY <1>4
  <2>5. history' \in [1 .. Len(chain) + 1 -> [Account -> Nat]]
    BY <2>1, <2>2, <2>3, <2>4
  <2>6. ASSUME NEW n \in 1 .. Len(chain'), NEW a \in Account
        PROVE  history'[n][a] = TotalValue(Owned(Unspent[chain'[n]], a))
    BY <1>3, <1>5, <2>2, <2>3, <2>4
  <2> QED BY <1>5, <1>6, <2>5, <2>6 DEF HistoryInv
<1> QED BY <1>7, <1>8, <1>9, <1>10, <1>11 DEF AInv

\* Removing the head does.
LEMMA RemovePreserves ==
    ASSUME AInv, BlockRemoved PROVE AInv'
<1> DEFINE m == Len(chain) - 1
<1>1. /\ UNCHANGED <<phase, failed, memoryVars>>
      /\ Len(chain) \in Nat /\ m \in 1 .. Len(chain)
      /\ Parent[HeadBlock] = chain[m]
      /\ chain' = SubSeq(chain, 1, m)
      /\ Kept(coinStore') /\ DOMAIN coinStore' = Unspent[Parent[HeadBlock]]
      /\ history' = SubSeq(history, 1, m)
      /\ blocks' = Without(blocks, {HeadBlock})
  BY RemoveEffect
<1>2. chain \in Seq(Block) /\ BalanceHeight = Len(chain)
  BY <1>1, AccountsHead DEF AInv, ChainInv
<1> HIDE DEF m
<1>3. /\ chain' \in Seq(Block) /\ Len(chain') = m /\ chain' # << >>
      /\ \A n \in 1 .. m : chain'[n] = chain[n] /\ n \in 1 .. Len(chain)
  BY <1>1, <1>2
<1>4. HeadBlock' = chain[m] /\ BalanceHeight' = m
  <2>1. m \in 1 .. m
    BY <1>1
  <2> QED BY <1>3, <2>1 DEF HeadBlock, BalanceHeight
<1>5. ChainInv'
  <2>1. chain'[1] = Genesis
    <3>1. 1 \in 1 .. m /\ chain # << >>
      BY <1>1, <1>2
    <3> QED BY <1>3, <3>1 DEF AInv, ChainInv
  <2>2. ASSUME NEW n \in 2 .. m
        PROVE  chain'[n] # Genesis /\ Parent[chain'[n]] = chain'[n - 1]
    <3>1. n \in 2 .. Len(chain) /\ n \in 1 .. m /\ n - 1 \in 1 .. m
      BY <1>1
    <3> QED BY <1>3, <3>1 DEF AInv, ChainInv
  <2> QED BY <1>3, <2>1, <2>2 DEF ChainInv
<1>6. PhaseInv'
  <2>1. chain # << >>
    BY <1>1, <1>2
  <2> QED BY <1>1, <1>3, <2>1 DEF AInv, PhaseInv, memoryVars
<1>7. CoinInv'
  BY <1>1, <1>3, <1>4 DEF AInv, CoinInv, memoryVars
<1>8. BlockInv'
  <2>1. /\ DOMAIN blocks' = DOMAIN blocks \ {HeadBlock}
        /\ \A x \in DOMAIN blocks' : blocks'[x] = blocks[x]
    BY <1>1 DEF Without
  <2> QED BY <1>1, <2>1 DEF AInv, BlockInv, memoryVars
<1>9. HistoryInv'
  <2>1. history \in [1 .. Len(chain) -> [Account -> Nat]]
    BY <1>2 DEF AInv, HistoryInv
  <2>2. history' = [n \in 1 .. m |-> history[n]]
    BY <1>1, <2>1
  <2>3. history' \in [1 .. m -> [Account -> Nat]]
    BY <1>3, <2>1, <2>2
  <2>4. ASSUME NEW n \in 1 .. m, NEW a \in Account
        PROVE  history'[n][a] = TotalValue(Owned(Unspent[chain'[n]], a))
    BY <1>3, <2>2 DEF AInv, HistoryInv
  <2> QED BY <1>3, <1>4, <2>3, <2>4 DEF HistoryInv
<1> QED BY <1>5, <1>6, <1>7, <1>8, <1>9 DEF AInv


\* The steps before syncing do, and those of the fetches, and a restart.
LEMMA BootstrapPreserves ==
    ASSUME AInv, bootstrapBalances \/ ImportGenesisCoins PROVE AInv'
<1>1. chain = << >> /\ BalanceHeight = 1 /\ Len(chain) = 0
  <2>1. phase # "sync"
    BY DEF bootstrapBalances, ImportGenesisCoins
  <2> QED BY <2>1, AccountsHead DEF AInv, PhaseInv
<1>2. CASE bootstrapBalances
  <2>1. /\ phase = "balances" /\ phase' = "coins" /\ history' = [history EXCEPT ![1] = BootstrapBalances]
        /\ UNCHANGED <<chain, coinStore, blocks, memoryVars, failed>>
    BY <1>2 DEF bootstrapBalances
  <2>2. history \in [1 .. 1 -> [Account -> Nat]]
    BY <1>1 DEF AInv, HistoryInv
  <2>3. history' \in [1 .. 1 -> [Account -> Nat]] /\ history'[1] = BootstrapBalances
    BY <2>1, <2>2, BootstrapType
  <2>4. BalanceHeight' = 1 /\ chain' = << >> /\ Len(chain') = 0
    BY <1>1, <2>1 DEF BalanceHeight
  <2>5. HistoryInv'
    BY <2>3, <2>4 DEF HistoryInv
  <2>6. ChainInv' /\ PhaseInv' /\ BlockInv'
    BY <2>1 DEF AInv, ChainInv, PhaseInv, BlockInv, memoryVars
  <2>7. CoinInv'
    BY <1>1, <2>1, <2>4 DEF AInv, CoinInv, memoryVars
  <2> QED BY <2>5, <2>6, <2>7 DEF AInv
<1>3. CASE ImportGenesisCoins
  <2>1. /\ phase = "coins" /\ phase' = "sync"
        /\ UNCHANGED <<chain, history, blocks, memoryVars, failed>>
        /\ coinStore' = Over(coinStore, [c \in GenesisCoins |-> TrueCoin(c)])
    BY <1>3 DEF ImportGenesisCoins, TrueCoin
  <2>2. BalanceHeight' = 1 /\ chain' = << >> /\ Len(chain') = 0
    BY <1>1, <2>1 DEF BalanceHeight
  <2>3. Kept(coinStore') /\ DOMAIN coinStore' = GenesisCoins
    <3>1. PICK f : f = [c \in GenesisCoins |-> TrueCoin(c)]
      OBVIOUS
    <3>2. Kept(f) /\ DOMAIN f = GenesisCoins
      BY <3>1, BoxesAssumption, KeptTrue
    <3>3. Kept(coinStore) /\ DOMAIN coinStore \subseteq GenesisCoins
      BY <1>1 DEF AInv, CoinInv
    <3>4. Kept(Over(coinStore, f)) /\ DOMAIN Over(coinStore, f) = DOMAIN coinStore \cup DOMAIN f
      BY <3>2, <3>3, KeptOver
    <3> QED BY <2>1, <3>1, <3>2, <3>3, <3>4
  <2>4. CoinInv'
    BY <2>1, <2>2, <2>3 DEF AInv, CoinInv, memoryVars
  <2>5. ChainInv' /\ PhaseInv' /\ BlockInv'
    BY <2>1 DEF AInv, ChainInv, PhaseInv, BlockInv, memoryVars
  <2>6. HistoryInv'
    BY <1>1, <2>1, <2>2 DEF AInv, HistoryInv
  <2> QED BY <2>4, <2>5, <2>6 DEF AInv
<1> QED BY <1>2, <1>3

\* A step that leaves the storage alone needs to keep only what is in memory.
LEMMA MemoryStep ==
    ASSUME AInv, UNCHANGED <<phase, chain, coinStore, history, failed>>, BlockInv',
           Kept(coinCache'), \A c \in DOMAIN coinCache' : coinCache'[c] = TrueCoin(c),
           phase # "sync" => DOMAIN fetches' = {} /\ DOMAIN results' = {}
    PROVE  AInv'
<1>1. ChainInv' /\ PhaseInv'
  BY DEF AInv, ChainInv, PhaseInv
<1>2. HeadBlock' = HeadBlock /\ BalanceHeight' = BalanceHeight
  BY DEF HeadBlock, BalanceHeight
<1>3. CoinInv' /\ HistoryInv'
  BY <1>2 DEF AInv, CoinInv, HistoryInv
<1> QED BY <1>1, <1>3 DEF AInv

\* A fetch starts and finds coins.
LEMMA FetchPreserves ==
    ASSUME AInv,
           \/ \E b \in Block : Fetch(b)
           \/ \E b \in DOMAIN fetches, c \in Coin : FindCoin(b, c)
    PROVE  AInv'
<1>1. /\ DOMAIN fetches \subseteq Block /\ \A b \in DOMAIN fetches : Kept(fetches[b])
      /\ Kept(coinStore) /\ Kept(coinCache)
  BY DEF AInv, BlockInv, CoinInv
<1>2. ASSUME NEW b \in Block, Fetch(b) PROVE AInv'
  <2>1. /\ phase = "sync" /\ fetches' = With(fetches, b, NoCoins)
        /\ UNCHANGED <<phase, storageVars, coinCache, results, failed>>
    BY <1>2 DEF Fetch
  <2>2. /\ DOMAIN fetches' = DOMAIN fetches \cup {b} /\ fetches'[b] = NoCoins
        /\ \A x \in DOMAIN fetches' \ {b} : fetches'[x] = fetches[x]
    BY <2>1 DEF With
  <2>3. BlockInv'
    BY <1>1, <2>1, <2>2, NoCoinsKept DEF AInv, BlockInv, storageVars
  <2> QED BY <2>1, <2>3, MemoryStep DEF AInv, CoinInv, storageVars
<1>3. ASSUME NEW b \in DOMAIN fetches, NEW c \in Coin, FindCoin(b, c) PROVE AInv'
  <2>1. PICK f \in {coinStore, coinCache} :
            c \in DOMAIN f /\ fetches' = [fetches EXCEPT ![b] = With(@, c, f[c])]
    BY <1>3 DEF FindCoin
  <2>2. UNCHANGED <<phase, storageVars, coinCache, results, failed>>
    BY <1>3 DEF FindCoin
  <2>3. f[c] \in StoredCoins(c)
    BY <1>1, <2>1 DEF Kept
  <2>4. Kept(With(fetches[b], c, f[c]))
    BY <1>1, <2>3, KeptWith
  <2>5. /\ DOMAIN fetches' = DOMAIN fetches /\ fetches'[b] = With(fetches[b], c, f[c])
        /\ \A x \in DOMAIN fetches' \ {b} : fetches'[x] = fetches[x]
    BY <2>1
  <2>6. BlockInv'
    BY <1>1, <2>2, <2>4, <2>5 DEF AInv, BlockInv, storageVars
  <2>7. phase = "sync"
    BY DEF AInv, PhaseInv
  <2> QED BY <2>2, <2>6, <2>7, MemoryStep DEF AInv, CoinInv, storageVars
<1> QED BY <1>2, <1>3

\* A block whose coins are all found converts and is seen.
LEMMA SeenEffect ==
    ASSUME AInv, NEW b \in DOMAIN fetches, BlockSeen(b)
    PROVE  \E block :
             /\ Whole(b, block.ops) /\ block.parent = IF b = Genesis THEN b ELSE Parent[b]
             /\ fetches' = Without(fetches, {b})
             /\ coinCache' = Over([c \in Creates(b) |-> TrueCoin(c)], coinCache)
             /\ blocks' = Over(blocks, [x \in {b} |-> block])
             /\ results' = With(results, b, block)
             /\ UNCHANGED <<phase, chain, coinStore, history, failed>>
<1>1. PICK block : block = BlockToRosettaBlock(b, fetches[b])
  OBVIOUS
<1>2. b \in Block /\ Kept(fetches[b]) /\ Required(b) \subseteq DOMAIN fetches[b]
  BY DEF AInv, BlockInv, BlockSeen
<1>3. ~block.err /\ Whole(b, block.ops) /\ block.parent = IF b = Genesis THEN b ELSE Parent[b]
  BY <1>1, <1>2, ConvertsWhole
<1>4. CoinsSeen(block.ops) = [c \in Creates(b) |-> TrueCoin(c)]
  BY <1>2, <1>3, CoinsOfWhole DEF CoinsSeen
<1>5. /\ fetches' = Without(fetches, {b})
      /\ IF block.err
         THEN failed' = TRUE /\ UNCHANGED <<blocks, coinCache, results>>
         ELSE /\ coinCache' = Over(CoinsSeen(block.ops), coinCache)
              /\ blocks' = Over(blocks, [x \in {b} |-> block])
              /\ results' = With(results, b, block)
              /\ UNCHANGED failed
      /\ UNCHANGED <<phase, chain, coinStore, history>>
  BY <1>1, Zenon DEF BlockSeen
<1> QED BY <1>3, <1>4, <1>5

\* Seeing a block keeps the invariant.
LEMMA SeenPreserves ==
    ASSUME AInv, NEW b \in DOMAIN fetches, BlockSeen(b) PROVE AInv'
<1>1. PICK block :
          /\ Whole(b, block.ops) /\ block.parent = IF b = Genesis THEN b ELSE Parent[b]
          /\ fetches' = Without(fetches, {b})
          /\ coinCache' = Over([c \in Creates(b) |-> TrueCoin(c)], coinCache)
          /\ blocks' = Over(blocks, [x \in {b} |-> block])
          /\ results' = With(results, b, block)
          /\ UNCHANGED <<phase, chain, coinStore, history, failed>>
  BY SeenEffect
<1>2. b \in Block /\ phase = "sync" /\ Creates(b) \subseteq Coin
  BY BlockBoxes DEF AInv, BlockInv, PhaseInv
<1>3. Kept(coinCache') /\ \A c \in DOMAIN coinCache' : coinCache'[c] = TrueCoin(c)
  <2>1. PICK f : f = [c \in Creates(b) |-> TrueCoin(c)]
    OBVIOUS
  <2>2. Kept(f) /\ Kept(coinCache) /\ coinCache' = Over(f, coinCache)
    BY <1>1, <1>2, <2>1, KeptTrue DEF AInv, CoinInv
  <2>3. Kept(coinCache')
    BY <2>2, KeptOver
  <2>4. \A c \in DOMAIN coinCache' : coinCache'[c] = TrueCoin(c)
    BY <2>1, <2>2 DEF AInv, CoinInv, Over
  <2> QED BY <2>3, <2>4
<1>4. /\ DOMAIN fetches' = DOMAIN fetches \ {b}
      /\ \A x \in DOMAIN fetches' : fetches'[x] = fetches[x]
  BY <1>1 DEF Without
<1>5. /\ DOMAIN blocks' = DOMAIN blocks \cup {b}
      /\ \A x \in DOMAIN blocks' : blocks'[x] = IF x \in DOMAIN blocks THEN blocks[x] ELSE block
  BY <1>1 DEF Over
<1>6. /\ DOMAIN results' = DOMAIN results \cup {b}
      /\ \A x \in DOMAIN results' : results'[x] = IF x = b THEN block ELSE results[x]
  BY <1>1 DEF With
<1>7. BlockInv'
  BY <1>1, <1>2, <1>4, <1>5, <1>6 DEF AInv, BlockInv
<1> QED BY <1>1, <1>2, <1>3, <1>7, MemoryStep

\* A restart keeps the storage and empties the memory.
LEMMA RestartPreserves ==
    ASSUME AInv, Restart PROVE AInv'
<1>1. /\ phase' = IF chain = << >> THEN "balances" ELSE "sync"
      /\ coinCache' = NoCoins /\ fetches' = << >> /\ results' = << >>
      /\ UNCHANGED <<chain, coinStore, history, blocks, failed>>
  BY DEF Restart, FirstRun, storageVars
<1>2. ChainInv' /\ PhaseInv'
  BY <1>1 DEF AInv, ChainInv, PhaseInv
<1>3. HeadBlock' = HeadBlock /\ BalanceHeight' = BalanceHeight
  BY <1>1 DEF HeadBlock, BalanceHeight
<1>4. CoinInv'
  BY <1>1, <1>3, NoCoinsKept DEF AInv, CoinInv
<1>5. BlockInv'
  BY <1>1 DEF AInv, BlockInv
<1>6. HistoryInv'
  BY <1>1, <1>3 DEF AInv, HistoryInv
<1> QED BY <1>2, <1>4, <1>5, <1>6 DEF AInv

\* Every step preserves the invariant.
LEMMA AccountsNext == AInv /\ [Next]_vars => AInv'
<1> SUFFICES ASSUME AInv, [Next]_vars PROVE AInv'
  OBVIOUS
<1>1. CASE UNCHANGED vars
  <2>1. ChainInv' /\ PhaseInv' /\ BlockInv'
    BY <1>1 DEF AInv, ChainInv, PhaseInv, BlockInv, vars, storageVars, memoryVars
  <2>2. HeadBlock' = HeadBlock /\ BalanceHeight' = BalanceHeight
    BY <1>1 DEF HeadBlock, BalanceHeight, vars, storageVars
  <2>3. CoinInv' /\ HistoryInv'
    BY <1>1, <2>2 DEF AInv, CoinInv, HistoryInv, vars, storageVars, memoryVars
  <2> QED BY <2>1, <2>3 DEF AInv
<1> QED
  BY <1>1, BootstrapPreserves, FetchPreserves, SeenPreserves, AddPreserves, RemovePreserves,
     RestartPreserves DEF Next, IndexerStep


-----------------------------------------------------------------------------
(* Theorems *)

\* The inductive invariant holds in every reachable state.
THEOREM AccountsInductive == Spec => []AInv
BY AccountsInit, AccountsNext, PTL DEF Spec

\* All variables keep their types, and there are balances for every height, none
\* of them negative.
THEOREM AccountsTypeCorrect == Spec => []TypeOK
<1>1. ASSUME AInv PROVE TypeOK
  <2>1. \A f : Kept(f) => DOMAIN f \subseteq Coin /\ f \in [DOMAIN f -> AccountCoin]
    <3> SUFFICES ASSUME NEW f, Kept(f)
                 PROVE  DOMAIN f \subseteq Coin /\ f \in [DOMAIN f -> AccountCoin]
      OBVIOUS
    <3>1. \A c \in DOMAIN f : f[c] \in AccountCoin
      BY BoxType DEF Kept
    <3> QED BY <3>1 DEF Kept
  <2>2. \A f \in {coinStore, coinCache} \cup {fetches[b] : b \in DOMAIN fetches} : Kept(f)
    BY <1>1 DEF AInv, CoinInv, BlockInv
  <2>3. \A f \in {blocks, results} : \A b \in DOMAIN f : f[b].ops \subseteq Operation
    BY <1>1, WholeType DEF AInv, BlockInv
  <2>4. phase \in {"balances", "coins", "sync"} /\ failed = FALSE
    BY <1>1 DEF AInv, PhaseInv
  <2> QED BY <1>1, <2>1, <2>2, <2>3, <2>4 DEF AInv, ChainInv, HistoryInv, BlockInv, TypeOK
<1> QED BY <1>1, AccountsInductive, PTL

\* Every block the node serves is converted and added: its inputs are found in
\* the coin storage, the cache or the block itself, and no balance is overdrawn
\* (converter.go:217-229, indexer.go:250-263).
THEOREM NoBlockFails == Spec => []BlocksNeverFail
<1>1. AInv => BlocksNeverFail
  BY DEF AInv, PhaseInv, BlocksNeverFail
<1> QED BY <1>1, AccountsInductive, PTL

\* Owner and value of a coin survive being cached, stored, spent and restored; the
\* sign of the value survives in the cache only (indexer.go:358-369).
THEOREM OwnerAndValueKept == Spec => []CoinsKeepOwnerAndValue
<1>1. ASSUME AInv PROVE CoinsKeepOwnerAndValue
  <2>1. ASSUME NEW c \in DOMAIN coinStore
        PROVE  coinStore[c].account = Owner[c] /\ coinStore[c].amount \in {Value[c], -Value[c]}
    <3>1. coinStore[c] \in StoredCoins(c)
      BY <1>1 DEF AInv, CoinInv, Kept
    <3> QED BY <3>1 DEF StoredCoins, TrueCoin
  <2>2. \A c \in DOMAIN coinCache : coinCache[c] = [account |-> Owner[c], amount |-> Value[c]]
    BY <1>1 DEF AInv, CoinInv, TrueCoin
  <2> QED BY <2>1, <2>2 DEF CoinsKeepOwnerAndValue
<1> QED BY <1>1, AccountsInductive, PTL

\* The balances at every height are the values of the boxes unspent after the
\* block there, through any reorganisations and crashes
\* (indexer.go:645-668, 695-744; account.go:105-141).
THEOREM HistoryAlwaysUnspentValue == Spec => []HistoryIsUnspentValue
<1>1. ASSUME AInv PROVE HistoryIsUnspentValue
  <2> SUFFICES ASSUME phase = "sync", NEW n \in 1 .. BalanceHeight, NEW a \in Account
               PROVE  history[n][a] =
                          TotalValue({c \in UnspentAfter(IF chain = << >> THEN 0 ELSE n) : Owner[c] = a})
    BY DEF HistoryIsUnspentValue
  <2>1. CASE chain = << >>
    <3>1. n = 1 /\ UnspentAfter(0) = GenesisCoins
      BY <2>1 DEF BalanceHeight, UnspentAfter
    <3>2. history[1][a] = TotalValue(Owned(GenesisCoins, a))
      BY <1>1, <2>1, BootstrapType DEF AInv, HistoryInv
    <3> QED BY <2>1, <3>1, <3>2 DEF Owned
  <2>2. CASE chain # << >>
    <3>1. n \in 1 .. Len(chain) /\ n # 0
      BY <1>1, <2>2, AccountsHead DEF AInv
    <3>2. UnspentAfter(n) = Unspent[chain[n]]
      BY <3>1 DEF UnspentAfter
    <3>3. history[n][a] = TotalValue(Owned(Unspent[chain[n]], a))
      BY <1>1, <3>1 DEF AInv, HistoryInv
    <3> QED BY <2>2, <3>2, <3>3 DEF Owned
  <2> QED BY <2>1, <2>2
<1> QED BY <1>1, AccountsInductive, PTL

\* Kept through the operations of stored copies, the coin storage implements the
\* ledger: each step adds a child of the head or drops the head, with the coins
\* then unspent, or changes neither.
THEOREM CoinsImplementLedger == Spec => CoinsAreLedger
<1> DEFINE coins == DOMAIN coinStore \cup IF chain = << >> THEN GenesisCoins ELSE {}
<1>1. Init => Storage!Init
  <2> SUFFICES ASSUME Init PROVE Storage!Init
    OBVIOUS
  <2>1. chain = << >> /\ DOMAIN coinStore = {}
    BY NoCoinsKept DEF Init
  <2> QED BY <2>1 DEF Storage!Init
<1>2. ASSUME AInv, [Next]_vars PROVE [Storage!Next]_(Storage!ledger)
  <2>1. ASSUME NEW b \in DOMAIN results, BlockAdded(b) PROVE Storage!Next
    <3>1. /\ b \in Block
          /\ chain = << >> => b = Genesis
          /\ chain # << >> => b # Genesis /\ Parent[b] = HeadBlock
          /\ chain' = Append(chain, b) /\ DOMAIN coinStore' = Unspent[b]
      BY <1>2, <2>1, AddPlace, AddEffect
    <3>2. chain' # << >> /\ HeadBlock = Storage!Last
      BY <1>2, <3>1 DEF AInv, ChainInv, HeadBlock, Storage!Last
    <3>3. coins' = Unspent[b]
      BY <3>1, <3>2
    <3> HIDE DEF coins
    <3>4. Storage!Extend(b)
      BY <3>1, <3>2, <3>3 DEF Storage!Extend, coins
    <3> QED BY <3>1, <3>4 DEF Storage!Next
  <2>2. ASSUME BlockRemoved PROVE Storage!Next
    <3>1. /\ Len(chain) \in Nat /\ Len(chain) - 1 \in 1 .. Len(chain)
          /\ Parent[HeadBlock] = chain[Len(chain) - 1]
          /\ chain' = SubSeq(chain, 1, Len(chain) - 1)
          /\ DOMAIN coinStore' = Unspent[Parent[HeadBlock]]
      BY <1>2, <2>2, RemoveEffect
    <3>2. Len(chain) > 1
      BY <3>1
    <3>3. Len(chain') = Len(chain) - 1
      BY <1>2, <3>1, <3>2 DEF AInv, ChainInv
    <3>4. Len(<< >>) = 0 /\ 0 # Len(chain') /\ 0 # Len(chain)
      BY <3>1, <3>2, <3>3
    <3>5. chain' # << >> /\ chain # << >>
      BY ONLY <3>4
    <3> QED BY <3>1, <3>2, <3>5 DEF Storage!Next, Storage!Drop
  <2>3. ASSUME ImportGenesisCoins PROVE UNCHANGED Storage!ledger
    <3>1. chain = << >> /\ chain' = chain /\ DOMAIN coinStore \subseteq GenesisCoins
      BY <1>2, <2>3 DEF AInv, PhaseInv, CoinInv, ImportGenesisCoins
    <3>2. PICK f : DOMAIN f = GenesisCoins /\ coinStore' = Over(coinStore, f)
      BY <2>3 DEF ImportGenesisCoins
    <3>3. DOMAIN coinStore' = DOMAIN coinStore \cup GenesisCoins
      BY ONLY <3>2 DEF Over
    <3> QED BY <3>1, <3>3 DEF Storage!ledger
  <2>4. ASSUME UNCHANGED <<chain, coinStore>> PROVE UNCHANGED Storage!ledger
    BY <2>4 DEF Storage!ledger
  <2>5. ASSUME NEW b \in DOMAIN fetches, BlockSeen(b) PROVE UNCHANGED <<chain, coinStore>>
    BY <2>5 DEF BlockSeen
  <2> QED
    BY <1>2, <2>1, <2>2, <2>3, <2>4, <2>5
       DEF Next, IndexerStep, bootstrapBalances, Fetch, FindCoin, Restart, vars, storageVars
<1> QED BY <1>1, <1>2, AccountsInductive, PTL DEF Spec, CoinsAreLedger, Storage!Spec
=============================================================================
