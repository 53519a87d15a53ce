----------------------------- MODULE Conversion -----------------------------
(***************************************************************************)
(* How a block of the node becomes a Rosetta block (pkg/rosetta), which    *)
(* boxes it needs for that (pkg/ergo/utils.go), and which coins and        *)
(* balance changes follow from its operations.  The transactions of a      *)
(* Rosetta block are merged into the set of their operations; amounts keep *)
(* their sign, for it is the sign that goes astray.                        *)
(***************************************************************************)
EXTENDS Chain, Sequences, FiniteSetsExt, SequencesExt

CONSTANTS
    Account,
    Owner, Value,        \* of the boxes: functions on Coin
    Transactions,        \* the transactions of a block, in their order
    TxInputs, TxOutputs  \* the boxes a transaction spends and creates

\* Partial functions: the pairs of f, and those of g where f has none; f with
\* another value for x; f without the elements of S.  (The provers know nothing
\* of the operators of TLC for the first two.)
Over(f, g) == [x \in DOMAIN f \cup DOMAIN g |-> IF x \in DOMAIN f THEN f[x] ELSE g[x]]
With(f, x, v) == [y \in DOMAIN f \cup {x} |-> IF y = x THEN v ELSE f[y]]
Without(f, S) == [x \in DOMAIN f \ S |-> f[x]]

\* Boxes are known by digests of 32 bytes, and a box holds at least a nanoERG.
ASSUME BoxAssumption ==
    IsFiniteSet(Coin) /\ Owner \in [Coin -> Account] /\ Value \in [Coin -> Nat \ {0}]

\* The boxes that the first n transactions of a list create
OutputsUpTo(txs, n) == UNION {TxOutputs[txs[m]] : m \in 1 .. n}

ASSUME TransactionsAssumption ==
    /\ Transactions \in [Block -> Seq(Tx)]
    /\ TxInputs \in [Tx -> SUBSET Coin] /\ TxOutputs \in [Tx -> SUBSET Coin]
    /\ \A b \in Block :
         /\ Inputs[b] = {i \in TxCoin : i.tx \in ToSet(Transactions[b]) /\ i.coin \in TxInputs[i.tx]}
         /\ Outputs[b] = {o \in TxCoin : o.tx \in ToSet(Transactions[b]) /\ o.coin \in TxOutputs[o.tx]}

\* What ValidBlocks says of a block the node has checked of each transaction: it
\* spends what is unspent before the block or created by an earlier transaction.
\* No box is spent or created twice, so that the set of operations loses none.
ASSUME ValidTransactions ==
    \A b \in Block : LET txs == Transactions[b] IN
        \A n \in DOMAIN txs :
            /\ TxInputs[txs[n]] \subseteq UnspentBefore(b) \cup OutputsUpTo(txs, n - 1)
            /\ \A m \in DOMAIN txs \ {n} :
                   /\ TxInputs[txs[m]] \cap TxInputs[txs[n]] = {}
                   /\ TxOutputs[txs[m]] \cap TxOutputs[txs[n]] = {}

\* The inputs of a list of transactions that neither an earlier one nor their own
\* creates: the pairs for which a coin has to be found.
InputsForTxs(txs) ==
    UNION {{[tx |-> txs[n], coin |-> c] : c \in TxInputs[txs[n]] \ OutputsUpTo(txs, n)}
               : n \in DOMAIN txs}

AccountCoin == [account: Account, amount: Int]
Operation == [coin: Coin, account: Account, amount: Int, action: {"spent", "created"}]

\* The coins of the operations with this action, as the storage, the cache and
\* the converter keep them: with the amount of the operation
CoinsOf(ops, action) ==
    LET those == {op \in ops : op.action = action}
        OpOf(c) == CHOOSE op \in those : op.coin = c
    IN  [c \in {op.coin : op \in those} |->
            [account |-> OpOf(c).account, amount |-> OpOf(c).amount]]

\* NegateValue turns the amount of the spent coin round, whatever its sign
InputToRosettaOp(c, acctCoin) ==
    [coin |-> c, account |-> acctCoin.account, amount |-> -acctCoin.amount, action |-> "spent"]

OutputToRosettaOp(c) ==
    [coin |-> c, account |-> Owner[c], amount |-> Value[c], action |-> "created"]

TxToRosettaTx(t, coins) ==
    {InputToRosettaOp(c, coins[c]) : c \in TxInputs[t]} \cup
    {OutputToRosettaOp(c) : c \in TxOutputs[t]}

\* Mistake: the outputs of a transaction are not kept for the next ones
NothingStored(txs, n) == CoinsOf({}, "created")

\* The coins that the first n transactions of a block created
storeTxCoins(txs, n) ==
    CoinsOf({OutputToRosettaOp(c) : c \in OutputsUpTo(txs, n)}, "created")

\* Transaction by transaction, with the outputs of the earlier ones at hand; a
\* transaction with an input that cannot be found is an error.
BlockToRosettaBlock(b, preFetchedInputs) ==
    LET txs == Transactions[b]
        coins(n) == Over(storeTxCoins(txs, n - 1), preFetchedInputs)
        missing == {n \in DOMAIN txs : ~(TxInputs[txs[n]] \subseteq DOMAIN coins(n))}
    IN  [err    |-> missing # {},
         id     |-> b,
         parent |-> IF b = Genesis THEN b ELSE Parent[b],
         ops    |-> UNION {TxToRosettaTx(txs[n], coins(n)) : n \in DOMAIN txs \ missing}]

\* What a block's operations change in the balance of an account
BalanceChange(ops, a) ==
    LET those == {op \in ops : op.account = a}
    IN  SumFunctionOnSet([op \in those |-> op.amount], those)

\* The value of a set of boxes
TotalValue(S) == SumFunctionOnSet(Value, S)
=============================================================================
