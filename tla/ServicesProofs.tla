--------------------------- MODULE ServicesProofs ---------------------------
(***************************************************************************)
(* Theorems about Services: whatever the indexer does between two reads of *)
(* a handler, an answer describes one block, one transaction or one        *)
(* account at one block, and a client is refused only what is not there.   *)
(***************************************************************************)
EXTENDS Services, AccountsProofs

-----------------------------------------------------------------------------
(* The storage beside the handlers *)

\* A block of the chain is at its height and stored; one that is fetched or waits
\* to be added is neither both nor on the chain, so that the copy of it which a
\* removal deletes is not one that is still to be added.
StoredInv ==
    /\ \A n \in 1 .. Len(chain) : Height[chain[n]] = n /\ chain[n] \in DOMAIN blocks
    /\ DOMAIN fetches \cap DOMAIN results = {} /\ DOMAIN results \subseteq DOMAIN blocks
    /\ \A n \in 1 .. Len(chain) : chain[n] \notin DOMAIN fetches \cup DOMAIN results

\* The invariant holds initially,
LEMMA StoredInit == Init => StoredInv
BY DEF Init, StoredInv

\* and every step of the indexer keeps it.
LEMMA StoredNext ==
    ASSUME AInv, StoredInv, [Next]_vars PROVE StoredInv'
<1>1. chain \in Seq(Block) /\ Len(chain) \in Nat
  BY DEF AInv, ChainInv
<1>2. CASE UNCHANGED <<chain, blocks, fetches, results>>
  BY <1>2 DEF StoredInv
<1>3. ASSUME NEW b \in Block, Fetch(b) PROVE StoredInv'
  <2>1. /\ b \notin DOMAIN fetches \cup DOMAIN results /\ Height[b] > Len(chain)
        /\ DOMAIN fetches' = DOMAIN fetches \cup {b} /\ UNCHANGED <<chain, blocks, results>>
    BY <1>3 DEF Fetch, With, storageVars
  <2>2. \A n \in 1 .. Len(chain) : chain[n] # b
    <3> SUFFICES ASSUME NEW n \in 1 .. Len(chain) PROVE chain[n] # b
      OBVIOUS
    <3>1. Height[chain[n]] = n /\ n <= Len(chain) /\ n \in Nat
      BY <1>1 DEF StoredInv
    <3> QED BY <1>1, <2>1, <3>1
  <2> QED BY <2>1, <2>2 DEF StoredInv
<1>4. ASSUME NEW b \in DOMAIN fetches, NEW c \in Coin, FindCoin(b, c) PROVE StoredInv'
  <2>1. DOMAIN fetches' = DOMAIN fetches /\ UNCHANGED <<chain, blocks, results>>
    BY <1>4 DEF FindCoin, storageVars
  <2> QED BY <2>1 DEF StoredInv
<1>5. ASSUME NEW b \in DOMAIN fetches, BlockSeen(b) PROVE StoredInv'
  <2>1. PICK block :
            /\ fetches' = Without(fetches, {b}) /\ blocks' = Over(blocks, [x \in {b} |-> block])
            /\ results' = With(results, b, block) /\ chain' = chain
    BY <1>5, SeenEffect
  <2>2. /\ DOMAIN fetches' = DOMAIN fetches \ {b} /\ DOMAIN results' = DOMAIN results \cup {b}
        /\ DOMAIN blocks' = DOMAIN blocks \cup {b}
    BY ONLY <2>1 DEF Without, Over, With
  <2>3. DOMAIN fetches' \cup DOMAIN results' = DOMAIN fetches \cup DOMAIN results
    BY <1>5, <2>2
  <2>4. \A n \in 1 .. Len(chain') : Height[chain'[n]] = n /\ chain'[n] \in DOMAIN blocks'
    BY <2>1, <2>2 DEF StoredInv
  <2>5. \A n \in 1 .. Len(chain') : chain'[n] \notin DOMAIN fetches' \cup DOMAIN results'
    BY <2>1, <2>3 DEF StoredInv
  <2>6. DOMAIN fetches' \cap DOMAIN results' = {} /\ DOMAIN results' \subseteq DOMAIN blocks'
    BY <2>2 DEF StoredInv
  <2> QED BY <2>4, <2>5, <2>6 DEF StoredInv
<1>6. ASSUME NEW b \in DOMAIN results, BlockAdded(b) PROVE StoredInv'
  <2>1. /\ chain' = Append(chain, b) /\ results' = Without(results, {b})
        /\ UNCHANGED <<blocks, fetches>> /\ b \in Block
        /\ chain = << >> => b = Genesis
        /\ chain # << >> => b # Genesis /\ Parent[b] = HeadBlock
    BY <1>6, AddPlace, AddEffect
  <2>2. DOMAIN results' = DOMAIN results \ {b}
    BY <2>1 DEF Without
  <2>3. Height[b] = Len(chain) + 1
    <3>1. CASE chain = << >>
      BY <2>1, <3>1, HeadersAssumption
    <3>2. CASE chain # << >>
      <4>1. Len(chain) \in 1 .. Len(chain) /\ HeadBlock = chain[Len(chain)]
        BY <3>2, AccountsHead DEF AInv
      <4>2. Height[HeadBlock] = Len(chain)
        BY <4>1 DEF StoredInv
      <4> QED BY <2>1, <3>2, <4>2, HeadersAssumption
    <3> QED BY <3>1, <3>2
  <2>4. /\ Len(chain') = Len(chain) + 1 /\ chain'[Len(chain) + 1] = b
        /\ \A n \in 1 .. Len(chain) : chain'[n] = chain[n]
    BY <1>1, <2>1
  <2>5. \A n \in 1 .. Len(chain') : n \in 1 .. Len(chain) \/ n = Len(chain) + 1
    BY <1>1, <2>4
  <2>6. \A n \in 1 .. Len(chain') : Height[chain'[n]] = n /\ chain'[n] \in DOMAIN blocks'
    BY <1>6, <2>1, <2>3, <2>4, <2>5 DEF StoredInv
  <2>7. \A n \in 1 .. Len(chain') : chain'[n] \notin DOMAIN fetches' \cup DOMAIN results'
    BY <1>6, <2>1, <2>2, <2>4, <2>5 DEF StoredInv
  <2>8. DOMAIN fetches' \cap DOMAIN results' = {} /\ DOMAIN results' \subseteq DOMAIN blocks'
    BY <2>1, <2>2 DEF StoredInv
  <2> QED BY <2>6, <2>7, <2>8 DEF StoredInv
<1>7. ASSUME BlockRemoved PROVE StoredInv'
  <2>1. /\ Len(chain) - 1 \in 1 .. Len(chain) /\ chain' = SubSeq(chain, 1, Len(chain) - 1)
        /\ blocks' = Without(blocks, {HeadBlock}) /\ UNCHANGED <<fetches, results>>
    BY <1>7, RemoveEffect DEF memoryVars
  <2>2. DOMAIN blocks' = DOMAIN blocks \ {HeadBlock}
    BY <2>1 DEF Without
  <2>3. /\ Len(chain') = Len(chain) - 1 /\ \A n \in 1 .. Len(chain') : chain'[n] = chain[n]
        /\ 1 .. Len(chain') \subseteq 1 .. Len(chain) /\ Len(chain) \notin 1 .. Len(chain')
    BY <1>1, <2>1
  <2>4. HeadBlock = chain[Len(chain)] /\ Len(chain) \in 1 .. Len(chain)
    BY <1>1, <2>1 DEF HeadBlock
  <2>5. \A n \in 1 .. Len(chain') : chain'[n] # HeadBlock
    BY <2>3, <2>4 DEF StoredInv
  <2>6. HeadBlock \notin DOMAIN results
    BY <2>4 DEF StoredInv
  <2> QED BY <2>1, <2>2, <2>3, <2>5, <2>6 DEF StoredInv
<1>8. ASSUME Restart PROVE StoredInv'
  <2>1. DOMAIN fetches' = {} /\ DOMAIN results' = {} /\ UNCHANGED <<chain, blocks>>
    BY <1>8 DEF Restart, storageVars
  <2> QED BY <2>1 DEF StoredInv
<1> QED
  BY <1>2, <1>3, <1>4, <1>5, <1>6, <1>7, <1>8
     DEF Next, IndexerStep, bootstrapBalances, ImportGenesisCoins, memoryVars, storageVars, vars

\* A block of the chain can be served.
LEMMA ChainStored ==
    ASSUME AInv, StoredInv
    PROVE  /\ ToSet(chain) \subseteq DOMAIN blocks /\ DOMAIN blocks \subseteq Block
           /\ None \notin DOMAIN blocks
           /\ ToSet(chain) = {chain[n] : n \in 1 .. Len(chain)}
<1>1. DOMAIN chain = 1 .. Len(chain)
  BY DEF AInv, ChainInv
<1>2. ToSet(chain) = {chain[n] : n \in 1 .. Len(chain)}
  BY <1>1 DEF ToSet
<1>3. DOMAIN blocks \subseteq Block /\ None \notin Block
  BY HeadersAssumption DEF AInv, BlockInv
<1> QED BY <1>2, <1>3 DEF StoredInv

-----------------------------------------------------------------------------
(* Operations of transactions *)

\* What is answered for some transactions: an operation for each box they create,
\* one of either sign for each box they spend, and no other
SpentOps(c) == {SpentOp(c, Value[c]), SpentOp(c, -Value[c])}
OpsOf(t) == {OutputToRosettaOp(c) : c \in TxOutputs[t]} \cup UNION {SpentOps(c) : c \in TxInputs[t]}
Served(ops, txs) ==
    /\ \A op \in ops : \E t \in txs : op \in OpsOf(t)
    /\ \A t \in txs : /\ \A c \in TxOutputs[t] : OutputToRosettaOp(c) \in ops
                      /\ \A c \in TxInputs[t] : SpentOps(c) \cap ops # {}

\* The operation of a box, when the sign of its amount is taken off: a box that is
\* spent has one of positive amount.
LEMMA UnsignedOps ==
    ASSUME NEW t \in Tx, NEW op \in OpsOf(t)
    PROVE  \/ \E c \in TxOutputs[t] :
                  op = OutputToRosettaOp(c) /\ Unsigned({op}) = {OutputToRosettaOp(c)}
           \/ \E c \in TxInputs[t] : op \in SpentOps(c) /\ Unsigned({op}) = {SpentOp(c, Value[c])}
<1>1. TxInputs[t] \subseteq Coin /\ TxOutputs[t] \subseteq Coin
  BY TransactionsAssumption
<1>2. Unsigned({op}) = {[op EXCEPT !.amount = IF @ < 0 THEN -@ ELSE @]}
  BY DEF Unsigned
<1>3. ASSUME NEW c \in TxOutputs[t], op = OutputToRosettaOp(c)
      PROVE  Unsigned({op}) = {OutputToRosettaOp(c)}
  <2>1. Value[c] \in Nat /\ ~(Value[c] < 0)
    BY <1>1, BoxType
  <2>2. op = [coin |-> c, account |-> Owner[c], amount |-> Value[c], action |-> "created"]
    BY <1>3 DEF OutputToRosettaOp
  <2>3. [op EXCEPT !.amount = IF @ < 0 THEN -@ ELSE @] = op
    BY <2>1, <2>2
  <2> QED BY <1>2, <1>3, <2>3
<1>4. ASSUME NEW c \in TxInputs[t], op \in SpentOps(c)
      PROVE  Unsigned({op}) = {SpentOp(c, Value[c])}
  <2>1. /\ Value[c] \in Nat /\ ~(Value[c] < 0) /\ -Value[c] < 0 /\ -(-Value[c]) = Value[c]
    BY <1>1, BoxType
  <2>2. PICK v \in {Value[c], -Value[c]} :
            op = [coin |-> c, account |-> Owner[c], amount |-> v, action |-> "spent"]
    BY <1>4 DEF SpentOps, SpentOp
  <2>3. (IF v < 0 THEN -v ELSE v) = Value[c]
    BY <2>1, <2>2
  <2>4. [op EXCEPT !.amount = IF @ < 0 THEN -@ ELSE @] = SpentOp(c, Value[c])
    BY <2>2, <2>3 DEF SpentOp
  <2> QED BY <1>2, <2>4
<1> QED BY <1>3, <1>4 DEF OpsOf

\* What is served for some transactions has owner and value of all their boxes.
LEMMA ServedUnsigned ==
    ASSUME NEW txs \in SUBSET Tx, NEW ops, Served(ops, txs)
    PROVE  Unsigned(ops) = TrueOperations(txs)
<1>1. \A x : x \in Unsigned(ops) <=> \E op \in ops : x \in Unsigned({op})
  BY DEF Unsigned
<1>2. \A c : Unsigned({InputToRosettaOp(c, TrueCoin(c))}) =
                 Unsigned({SpentOp(c, -Value[c])})
  BY DEF InputToRosettaOp, TrueCoin, SpentOp
<1>3. ASSUME NEW t \in txs, NEW c \in TxInputs[t]
      PROVE  /\ Unsigned({SpentOp(c, Value[c])}) = {SpentOp(c, Value[c])}
             /\ Unsigned({SpentOp(c, -Value[c])}) = {SpentOp(c, Value[c])}
  <2>1. c \in Coin
    BY TransactionsAssumption
  <2>2. Value[c] \in Nat /\ ~(Value[c] < 0) /\ -Value[c] < 0 /\ -(-Value[c]) = Value[c]
    BY <2>1, BoxType
  <2> QED BY <2>2 DEF Unsigned, SpentOp
<1>4. \A x : x \in TrueOperations(txs) <=> \E t \in txs :
                 \/ \E c \in TxOutputs[t] : x = OutputToRosettaOp(c)
                 \/ \E c \in TxInputs[t] : x = SpentOp(c, Value[c])
  <2> DEFINE input(c) == InputToRosettaOp(c, [account |-> Owner[c], amount |-> Value[c]])
             spent(t) == Unsigned({input(c) : c \in TxInputs[t]})
             created(t) == {OutputToRosettaOp(c) : c \in TxOutputs[t]}
  <2>1. TrueOperations(txs) = UNION {spent(t) \cup created(t) : t \in txs}
    BY DEF TrueOperations
  <2>2. ASSUME NEW t \in txs, NEW x
        PROVE  x \in spent(t) <=> \E c \in TxInputs[t] : x = SpentOp(c, Value[c])
    <3>1. \A c : input(c) = InputToRosettaOp(c, TrueCoin(c))
      BY DEF TrueCoin
    <3>2. \A c \in TxInputs[t] : Unsigned({input(c)}) = {SpentOp(c, Value[c])}
      BY <1>2, <1>3, <3>1
    <3> HIDE DEF input
    <3>3. x \in spent(t) <=> \E c \in TxInputs[t] : x \in Unsigned({input(c)})
      BY DEF Unsigned
    <3> HIDE DEF spent
    <3>4. \A c \in TxInputs[t] : x \in Unsigned({input(c)}) <=> x = SpentOp(c, Value[c])
      BY <3>2
    <3> QED BY <3>3, <3>4
  <2>3. \A t \in txs : \A x : x \in created(t) <=> \E c \in TxOutputs[t] : x = OutputToRosettaOp(c)
    OBVIOUS
  <2> HIDE DEF spent, created
  <2>4. \A x : x \in TrueOperations(txs) <=> \E t \in txs : x \in spent(t) \/ x \in created(t)
    BY ONLY <2>1
  <2> QED BY ONLY <2>2, <2>3, <2>4
<1>5. ASSUME NEW x \in Unsigned(ops) PROVE x \in TrueOperations(txs)
  <2>1. PICK op \in ops : x \in Unsigned({op})
    BY <1>1
  <2>2. PICK t \in txs : op \in OpsOf(t)
    BY DEF Served
  <2> QED BY <1>4, <2>1, <2>2, UnsignedOps
<1>6. ASSUME NEW x \in TrueOperations(txs) PROVE x \in Unsigned(ops)
  <2>1. PICK t \in txs : \/ \E c \in TxOutputs[t] : x = OutputToRosettaOp(c)
                         \/ \E c \in TxInputs[t] : x = SpentOp(c, Value[c])
    BY <1>4
  <2>2. ASSUME NEW c \in TxOutputs[t], x = OutputToRosettaOp(c) PROVE x \in Unsigned(ops)
    <3>1. x \in ops /\ Value[c] \in Nat /\ ~(Value[c] < 0)
      BY <2>2, BoxType, TransactionsAssumption DEF Served
    <3>2. x = [coin |-> c, account |-> Owner[c], amount |-> Value[c], action |-> "created"]
      BY <2>2 DEF OutputToRosettaOp
    <3>3. [x EXCEPT !.amount = IF @ < 0 THEN -@ ELSE @] = x
      BY <3>1, <3>2
    <3> QED BY <3>1, <3>3 DEF Unsigned
  <2>3. ASSUME NEW c \in TxInputs[t], x = SpentOp(c, Value[c]) PROVE x \in Unsigned(ops)
    <3>1. PICK op \in ops : op \in SpentOps(c)
      BY DEF Served
    <3>2. Unsigned({op}) = {x}
      BY <1>3, <2>3, <3>1 DEF SpentOps
    <3> QED BY <1>1, <3>2
  <2> QED BY <2>1, <2>2, <2>3
<1> QED BY <1>5, <1>6

\* Answers add up.
LEMMA ServedUnion ==
    ASSUME NEW A, NEW S, Served(A, S), NEW B, NEW T, Served(B, T)
    PROVE  Served(A \cup B, S \cup T)
BY DEF Served

\* A stored block has what is to be served for each of its transactions.
LEMMA ServedFromBlock ==
    ASSUME AInv, NEW b, NEW t, HasTransaction(b, t)
    PROVE  /\ t \in Tx /\ Served(GetBlockTransaction(b, t), {t})
           /\ GetBlockTransaction(b, t) \subseteq Operation
<1> DEFINE txs == Transactions[b]
           those == GetBlockTransaction(b, t)
<1>1. b \in Block /\ Whole(b, blocks[b].ops)
  BY DEF HasTransaction, AInv, BlockInv
<1>2. /\ \A n \in DOMAIN txs : txs[n] \in Tx
      /\ \A c : c \in Creates(b) <=> \E n \in DOMAIN txs : c \in TxOutputs[txs[n]]
      /\ \A c : c \in Spends(b) <=> \E n \in DOMAIN txs : c \in TxInputs[txs[n]]
  BY <1>1, BlockBoxes
<1>3. PICK n \in DOMAIN txs : t = txs[n]
  BY DEF HasTransaction, ToSet
<1>4. TxOutputs[t] \subseteq Creates(b) /\ TxInputs[t] \subseteq Spends(b)
  BY <1>2, <1>3
<1>5. those = {op \in blocks[b].ops :
                   op.coin \in IF op.action = "spent" THEN TxInputs[t] ELSE TxOutputs[t]}
  BY DEF GetBlockTransaction
<1>6. /\ \A op \in blocks[b].ops : op.action = "created" =>
             op.coin \in Creates(b) /\ op = OutputToRosettaOp(op.coin)
      /\ \A op \in blocks[b].ops : op.action = "spent" =>
             /\ op.amount \in {Value[op.coin], -Value[op.coin]}
             /\ op = SpentOp(op.coin, op.amount)
      /\ \A op \in blocks[b].ops : op.action \in {"created", "spent"}
      /\ \A c \in Creates(b) : OutputToRosettaOp(c) \in blocks[b].ops
      /\ \A c \in Spends(b) : \E op \in blocks[b].ops : op.action = "spent" /\ op.coin = c
  BY <1>1, WholeOps
<1> HIDE DEF txs, those
<1>7. ASSUME NEW op \in those PROVE op \in OpsOf(t)
  BY <1>5, <1>6 DEF OpsOf, SpentOps
<1>8. ASSUME NEW c \in TxOutputs[t] PROVE OutputToRosettaOp(c) \in those
  <2>1. OutputToRosettaOp(c).coin = c /\ OutputToRosettaOp(c).action = "created"
    BY DEF OutputToRosettaOp
  <2> QED BY <1>4, <1>5, <1>6, <2>1
<1>9. ASSUME NEW c \in TxInputs[t] PROVE SpentOps(c) \cap those # {}
  <2>1. PICK op \in blocks[b].ops : op.action = "spent" /\ op.coin = c
    BY <1>4, <1>6
  <2>2. op \in those /\ op \in SpentOps(c)
    BY <1>5, <1>6, <2>1 DEF SpentOps
  <2> QED BY <2>2
<1>10. Served(those, {t})
  BY <1>7, <1>8, <1>9 DEF Served
<1>11. those \subseteq Operation
  BY <1>1, <1>5, WholeType
<1> QED BY <1>2, <1>3, <1>10, <1>11 DEF those

\* So does the conversion of an unconfirmed transaction whose coins were found.
LEMMA ServedFromCoins ==
    ASSUME NEW t \in Tx, NEW coins, Kept(coins), TxInputs[t] \subseteq DOMAIN coins
    PROVE  /\ Served(TxToRosettaTx(t, coins), {t})
           /\ TxToRosettaTx(t, coins) \subseteq Operation
<1>1. TxInputs[t] \subseteq Coin /\ TxOutputs[t] \subseteq Coin
  BY TransactionsAssumption
<1>2. \A c \in TxInputs[t] : InputToRosettaOp(c, coins[c]) \in SpentOps(c)
  BY InputOps DEF SpentOps
<1>3. Served(TxToRosettaTx(t, coins), {t})
  BY <1>2 DEF TxToRosettaTx, Served, OpsOf
<1>4. \A c \in Coin : OutputToRosettaOp(c) \in Operation /\ SpentOps(c) \subseteq Operation
  BY BoxType DEF OutputToRosettaOp, SpentOps, SpentOp, Operation
<1> QED BY <1>1, <1>2, <1>3, <1>4 DEF TxToRosettaTx

-----------------------------------------------------------------------------
(* The inductive invariant of a handler *)

Fields == {"endpoint", "id", "account", "tx", "block", "todo", "ops", "amount",
           "listed", "lookups", "coins", "nodeFailed", "readFailed", "error"}

\* The local variables have their types.
CallInv ==
    /\ DOMAIN call = Fields /\ call.id \in PartialBlockIdentifier
    /\ call.block \in Block \cup {None} /\ call.todo \in Seq(Tx) /\ call.amount \in Nat
    /\ call.ops \subseteq Operation /\ call.listed \subseteq Submitted
    /\ call.lookups \subseteq Coin /\ Kept(call.coins)
    /\ view.chain \in Seq(Block) /\ steady \subseteq DOMAIN coinStore

\* Where a handler is tells which request it answers, and before it has answered
\* there is no error.
PlaceInv ==
    /\ at \in {"idle", "peers", "head", "info", "lazy", "inline", "transaction", "balance",
               "amount", "coins", "unconfirmed", "lookups", "done"}
    /\ mode \in {"online", "offline"}
    /\ mode = "offline" => at \in {"idle", "info", "done"}
    /\ at \notin {"idle", "done"} => call.error = None
    /\ at \in {"peers", "head"} => call.endpoint = "status"
    /\ at = "info" => call.endpoint = "options"
    /\ at \in {"lazy", "inline"} => call.endpoint = "block"
    /\ at = "lazy" => call.ops = {}
    /\ at = "transaction" => call.endpoint = "blockTransaction"
    /\ at \in {"balance", "amount"} => call.endpoint = "balance" /\ call.account \in Account
    /\ at = "coins" => call.endpoint = "coins"
    /\ at = "unconfirmed" => \/ call.endpoint = "mempool"
                             \/ call.endpoint = "mempoolTransaction" /\ call.tx \in Submitted
    /\ at = "lookups" => call.endpoint = "mempoolTransaction" /\ call.tx \in Submitted

\* The open read transaction shows the balances of all blocks of one chain.
ViewInv ==
    at = "amount" =>
        /\ call.block \in Block
        /\ view.history \in [1 .. IF view.chain = << >> THEN 1 ELSE Len(view.chain)
                                 -> [Account -> Nat]]
        /\ \A n \in 1 .. Len(view.chain) :
               /\ Height[view.chain[n]] = n
               /\ \A a \in Account :
                      view.history[n][a] = TotalValue(Owned(Unspent[view.chain[n]], a))

\* What is still to do is the end of the block's list, and what comes before it is
\* in the answer.
InlineInv ==
    at = "inline" =>
        /\ call.block \in Block
        /\ \E k \in Nat : LET txs == Transactions[call.block] IN
               /\ Len(txs) = k + Len(call.todo)
               /\ \A n \in 1 .. Len(call.todo) : call.todo[n] = txs[k + n]
               /\ Served(call.ops, {txs[n] : n \in 1 .. k})

\* An input that was there all the time and comes from no listed transaction is
\* found or still looked for.
LookupInv ==
    at = "lookups" =>
        \A c \in TxInputs[call.tx] :
            \/ c \in DOMAIN call.coins \cup call.lookups
            \/ c \notin steady
            \/ \E t \in call.listed : c \in TxOutputs[t]

HInv ==
    /\ CallInv /\ PlaceInv /\ ViewInv /\ InlineInv /\ LookupInv
    /\ AccountsAnswerTheirBlock /\ TransactionsServedWhole /\ MempoolRefusedForCause

-----------------------------------------------------------------------------
(* Requests and answers *)

\* What every request starts with, and what the handlers rely on being there.
LEMMA RequestShape ==
    ASSUME NEW r \in Requests
    PROVE  /\ DOMAIN r = Fields /\ r.id \in PartialBlockIdentifier
           /\ r.endpoint \in {"list", "status", "options", "mempool", "block",
                              "blockTransaction", "balance", "coins", "mempoolTransaction"}
           /\ r.block = None /\ r.todo = << >> /\ r.ops = {} /\ r.amount = 0 /\ r.listed = {}
           /\ r.lookups = {} /\ r.coins = NoCoins /\ r.error = None
           /\ r.endpoint = "balance" => r.account \in Account
           /\ r.endpoint = "mempoolTransaction" => r.tx \in Submitted
<1> DEFINE To(endpoint) == [NoCall EXCEPT !.endpoint = endpoint]
           plain == {To("list"), To("status"), To("options"), To("mempool")}
           block == {[To("block") EXCEPT !.id = id] : id \in PartialBlockIdentifier}
           transaction(t) ==
               {[To("blockTransaction") EXCEPT !.id = [NoIdentifier EXCEPT !.hash = b], !.tx = t] :
                    b \in Block}
           balance(a) ==
               {[To("balance") EXCEPT !.id = id, !.account = a] : id \in PartialBlockIdentifier}
           coins == {[To("coins") EXCEPT !.account = a] : a \in Account}
           mempool == {[To("mempoolTransaction") EXCEPT !.tx = t] : t \in Submitted}
<1>1. /\ DOMAIN NoCall = Fields /\ NoCall.id \in PartialBlockIdentifier
      /\ NoCall.block = None /\ NoCall.todo = << >> /\ NoCall.ops = {} /\ NoCall.amount = 0
      /\ NoCall.listed = {} /\ NoCall.lookups = {} /\ NoCall.coins = NoCoins
      /\ NoCall.error = None
  BY ServicesAssumption DEF NoCall, Fields, NoIdentifier, PartialBlockIdentifier
<1>2. \A b \in Block : [NoIdentifier EXCEPT !.hash = b] \in PartialBlockIdentifier
  BY ServicesAssumption DEF NoIdentifier, PartialBlockIdentifier
<1>3. CASE r \in plain
  BY <1>1, <1>3 DEF Fields
<1>4. CASE r \in block
  BY <1>1, <1>4 DEF Fields
<1>5. ASSUME NEW t \in Submitted, r \in transaction(t)
      PROVE  \E id \in PartialBlockIdentifier :
                 r = [To("blockTransaction") EXCEPT !.id = id, !.tx = t]
  BY <1>1, <1>2, <1>5
<1>6. CASE \E t \in Submitted : r \in transaction(t)
  <2> HIDE DEF To, transaction
  <2>1. PICK t \in Submitted : r \in transaction(t)
    BY <1>6
  <2>2. PICK id \in PartialBlockIdentifier :
            r = [To("blockTransaction") EXCEPT !.id = id, !.tx = t]
    BY <1>5, <2>1
  <2> QED BY <1>1, <2>2 DEF To, Fields
<1>7. CASE \E a \in Account : r \in balance(a)
  BY <1>1, <1>7 DEF Fields
<1>8. CASE r \in coins
  BY <1>1, <1>8 DEF Fields
<1>9. CASE r \in mempool
  BY <1>1, <1>9 DEF Fields
<1>10. r \in plain \cup block \cup coins \cup mempool \cup (UNION {balance(a) : a \in Account})
                \cup (UNION {transaction(t) : t \in Submitted})
  BY DEF Requests
<1> HIDE DEF plain, block, transaction, balance, coins, mempool
<1> QED BY <1>3, <1>4, <1>6, <1>7, <1>8, <1>9, <1>10

\* No request is left, as at the start, after an answer was written and after a crash.
LEMMA Idle ==
    ASSUME mode \in {"online", "offline"},
           at = "idle", call = NoCall, view = NoView, steady = {}
    PROVE  HInv
<1>1. CallInv
  BY NoCoinsKept, ServicesAssumption
     DEF CallInv, NoCall, NoView, Fields, NoIdentifier, PartialBlockIdentifier
<1>2. PlaceInv /\ ViewInv /\ InlineInv /\ LookupInv
  BY DEF PlaceInv, ViewInv, InlineInv, LookupInv
<1>3. AccountsAnswerTheirBlock /\ TransactionsServedWhole /\ MempoolRefusedForCause
  BY DEF AccountsAnswerTheirBlock, TransactionsServedWhole, MempoolRefusedForCause, Answered
<1> QED BY <1>1, <1>2, <1>3 DEF HInv

\* An answer to a request that no property is about.
LEMMA OtherAnswer ==
    ASSUME HInv, at' = "done", mode' = mode, CallInv',
           call'.endpoint \notin {"balance", "coins", "block", "blockTransaction",
                                  "mempoolTransaction"}
    PROVE  HInv'
<1>1. PlaceInv' /\ ViewInv' /\ InlineInv' /\ LookupInv'
  BY DEF HInv, PlaceInv, ViewInv, InlineInv, LookupInv
<1>2. (AccountsAnswerTheirBlock /\ TransactionsServedWhole /\ MempoolRefusedForCause)'
  BY DEF AccountsAnswerTheirBlock, TransactionsServedWhole, MempoolRefusedForCause, Answered
<1> QED BY <1>1, <1>2 DEF HInv

\* An answer that is an error only needs a cause if it accuses the node.
LEMMA ErrorAnswer ==
    ASSUME HInv, at' = "done", mode' = mode, CallInv', call'.error # None,
           call'.endpoint = "mempoolTransaction" /\ call'.error = "ErrErgoNode" =>
               \/ call'.nodeFailed
               \/ \E c \in TxInputs[call'.tx] :
                      c \notin steady' \/ \E t \in call'.listed : c \in TxOutputs[t]
    PROVE  HInv'
<1>1. PlaceInv' /\ ViewInv' /\ InlineInv' /\ LookupInv'
  BY DEF HInv, PlaceInv, ViewInv, InlineInv, LookupInv
<1>2. AccountsAnswerTheirBlock' /\ TransactionsServedWhole'
  BY DEF AccountsAnswerTheirBlock, TransactionsServedWhole, Answered
<1>3. MempoolRefusedForCause'
  BY DEF MempoolRefusedForCause
<1> QED BY <1>1, <1>2, <1>3 DEF HInv

\* A handler refuses.
LEMMA Refused ==
    ASSUME HInv, NEW e \in Errors \cup {"panic"}, Refuse(e),
           UNCHANGED <<coinStore, mode, view, steady>>,
           call.endpoint = "mempoolTransaction" /\ e = "ErrErgoNode" =>
               \E c \in TxInputs[call.tx] :
                   c \notin steady \/ \E t \in call.listed : c \in TxOutputs[t]
    PROVE  HInv'
<1>1. at' = "done" /\ call' = [call EXCEPT !.error = e] /\ e # None
  BY ServicesAssumption DEF Refuse, Answer, Proceed
<1>2. /\ call'.error = e /\ call'.endpoint = call.endpoint /\ call'.tx = call.tx
      /\ call'.listed = call.listed
  BY <1>1 DEF HInv, CallInv, Fields
<1>3. CallInv'
  BY <1>1 DEF HInv, CallInv, Fields
<1> QED BY <1>1, <1>2, <1>3, ErrorAnswer

\* The node does not answer.
LEMMA NodeRefused ==
    ASSUME HInv, NodeError, UNCHANGED <<coinStore, mode, view, steady>>
    PROVE  HInv'
<1>1. /\ at' = "done"
      /\ call' = [call EXCEPT !.error = "ErrErgoNode", !.nodeFailed = TRUE]
      /\ "ErrErgoNode" # None
  BY ServicesAssumption DEF NodeError, Answer, Proceed, Errors
<1>2. call'.error = "ErrErgoNode" /\ call'.nodeFailed = TRUE
  BY <1>1 DEF HInv, CallInv, Fields
<1>3. CallInv'
  BY <1>1 DEF HInv, CallInv, Fields
<1> QED BY <1>1, <1>2, <1>3, ErrorAnswer

\* A read of the storage fails, which no handler takes for an error of the node.
LEMMA ReadRefused ==
    ASSUME HInv, StorageFails, UNCHANGED <<coinStore, mode, view, steady>>
    PROVE  HInv'
<1> DEFINE e == ReadErrors[at]
<1>1. at \in DOMAIN ReadErrors /\ at' = "done"
  BY DEF StorageFails, Answer, Proceed
<1>2. e \in Errors /\ e # "ErrErgoNode"
  BY <1>1 DEF ReadErrors, Errors
<1>3. call' = [call EXCEPT !.error = e, !.readFailed = TRUE]
  BY DEF StorageFails, Answer, Proceed
<1> HIDE DEF e
<1>4. call'.error = e /\ e # "ErrErgoNode" /\ e # None
  BY <1>2, <1>3, ServicesAssumption DEF HInv, CallInv, Fields
<1>5. CallInv'
  BY <1>3 DEF HInv, CallInv, Fields
<1> QED BY <1>1, <1>4, <1>5, ErrorAnswer

-----------------------------------------------------------------------------
(* The steps of the handlers *)

\* A request that comes in has fresh local variables.
LEMMA FreshCall ==
    ASSUME HInv, view' = view, steady' \subseteq DOMAIN coinStore',
           DOMAIN call' = Fields, call'.id \in PartialBlockIdentifier, call'.block = None,
           call'.todo = << >>, call'.ops = {}, call'.amount = 0, call'.listed = {},
           call'.lookups = {}, call'.coins = NoCoins
    PROVE  CallInv'
<1>1. Kept(call'.coins)
  BY NoCoinsKept, Zenon
<1>2. view'.chain \in Seq(Block)
  BY DEF HInv, CallInv
<1>3. << >> \in Seq(Tx) /\ 0 \in Nat
  OBVIOUS
<1> QED BY <1>1, <1>2, <1>3 DEF CallInv

\* A request comes in.
LEMMA ReceiveKeeps ==
    ASSUME HInv, NEW r \in Requests, Receive(r), UNCHANGED <<coinStore, mode>>
    PROVE  HInv'
<1>1. /\ DOMAIN r = Fields /\ r.id \in PartialBlockIdentifier
      /\ r.endpoint \in {"list", "status", "options", "mempool", "block",
                         "blockTransaction", "balance", "coins", "mempoolTransaction"}
      /\ r.block = None /\ r.todo = << >> /\ r.ops = {} /\ r.amount = 0 /\ r.listed = {}
      /\ r.lookups = {} /\ r.coins = NoCoins /\ r.error = None
      /\ r.endpoint = "balance" => r.account \in Account
      /\ r.endpoint = "mempoolTransaction" => r.tx \in Submitted
  BY RequestShape
<1>2. view' = view /\ steady' \subseteq DOMAIN coinStore'
  BY DEF Receive
<1>3. CASE Unavailable(r.endpoint)
  <2>1. /\ at' = "done" /\ call' = [r EXCEPT !.error = "ErrUnavailableOffline"]
        /\ "ErrUnavailableOffline" # None
    BY <1>3, ServicesAssumption DEF Receive, Answer, Proceed, Errors
  <2>2. call'.error = "ErrUnavailableOffline"
    BY <1>1, <2>1 DEF Fields
  <2>3. CallInv'
    <3>1. /\ DOMAIN call' = Fields /\ call'.id = r.id /\ call'.block = None /\ call'.todo = << >>
          /\ call'.ops = {} /\ call'.amount = 0 /\ call'.listed = {} /\ call'.lookups = {}
          /\ call'.coins = NoCoins
      BY <1>1, <2>1 DEF Fields
    <3> QED BY <1>1, <1>2, <3>1, FreshCall
  <2> QED BY <2>1, <2>2, <2>3, ErrorAnswer
<1>4. CASE ~Unavailable(r.endpoint)
  <2>1. /\ call' = r /\ at' = IF r.endpoint = "list" THEN "done" ELSE Handlers[r.endpoint]
        /\ mode = "offline" => r.endpoint \in {"list", "options"}
    BY <1>4 DEF Receive, Answer, Proceed, Unavailable
  <2>2. CallInv'
    BY <1>1, <1>2, <2>1, FreshCall
  <2>3. CASE r.endpoint = "list"
    BY <2>1, <2>2, <2>3, OtherAnswer
  <2>4. CASE r.endpoint # "list"
    <3>1. /\ r.endpoint = "status" => at' = "peers"
          /\ r.endpoint = "options" => at' = "info"
          /\ r.endpoint = "block" => at' = "lazy"
          /\ r.endpoint = "blockTransaction" => at' = "transaction"
          /\ r.endpoint = "balance" => at' = "balance"
          /\ r.endpoint = "coins" => at' = "coins"
          /\ r.endpoint \in {"mempool", "mempoolTransaction"} => at' = "unconfirmed"
      BY <2>1, <2>4 DEF Handlers
    <3>2. at' \in {"peers", "info", "lazy", "transaction", "balance", "coins", "unconfirmed"}
      BY <1>1, <2>4, <3>1
    <3>3. PlaceInv'
      BY <1>1, <2>1, <2>4, <3>1 DEF HInv, PlaceInv
    <3>4. ViewInv' /\ InlineInv' /\ LookupInv'
      BY <3>2 DEF ViewInv, InlineInv, LookupInv
    <3>5. (AccountsAnswerTheirBlock /\ TransactionsServedWhole /\ MempoolRefusedForCause)'
      BY <3>2 DEF AccountsAnswerTheirBlock, TransactionsServedWhole, MempoolRefusedForCause,
                  Answered
    <3> QED BY <2>2, <3>3, <3>4, <3>5 DEF HInv
  <2> QED BY <2>3, <2>4
<1> QED BY <1>3, <1>4

\* /network/status and /network/options.
LEMMA NetworkKeeps ==
    ASSUME HInv, NetworkStatusPeers \/ NetworkStatusHead \/ NetworkOptions, AInv,
           UNCHANGED <<vars, mode, steady>>
    PROVE  HInv'
<1>1. UNCHANGED <<coinStore, mode, view, steady>> /\ at \in {"peers", "head", "info"}
  BY DEF NetworkStatusPeers, NetworkStatusHead, NetworkOptions, vars, storageVars
<1>2. call.endpoint \in {"status", "options"}
  BY <1>1 DEF HInv, PlaceInv
<1>3. CASE NodeError
  BY <1>1, <1>3, NodeRefused
<1>4. CASE Proceed("head", call) /\ at = "peers"
  <2>1. at' = "head" /\ call' = call
    BY <1>4 DEF Proceed
  <2>2. CallInv' /\ PlaceInv'
    BY <1>1, <1>4, <2>1 DEF HInv, CallInv, PlaceInv
  <2>3. ViewInv' /\ InlineInv' /\ LookupInv'
    BY <2>1 DEF ViewInv, InlineInv, LookupInv
  <2>4. (AccountsAnswerTheirBlock /\ TransactionsServedWhole /\ MempoolRefusedForCause)'
    BY <2>1 DEF AccountsAnswerTheirBlock, TransactionsServedWhole, MempoolRefusedForCause,
                Answered
  <2> QED BY <2>2, <2>3, <2>4 DEF HInv
<1>5. CASE Refuse("ErrNotReady") \/ Refuse("panic")
  BY <1>1, <1>2, <1>5, Refused DEF Errors
<1>6. ASSUME NEW b \in Block \cup {None}, Answer([call EXCEPT !.block = b]) PROVE HInv'
  <2>1. at' = "done" /\ call' = [call EXCEPT !.block = b]
    BY <1>6 DEF Answer, Proceed
  <2>2. CallInv' /\ call'.endpoint = call.endpoint
    BY <1>1, <2>1 DEF HInv, CallInv, Fields
  <2> QED BY <1>1, <1>2, <2>1, <2>2, OtherAnswer
<1>7. CASE Answer(call)
  <2>1. at' = "done" /\ call' = call
    BY <1>7 DEF Answer, Proceed
  <2>2. CallInv' /\ call'.endpoint = call.endpoint
    BY <1>1, <2>1 DEF HInv, CallInv
  <2> QED BY <1>1, <1>2, <2>1, <2>2, OtherAnswer
<1>8. GetBlockLazy(NoIdentifier) \in Block \cup {None}
  BY DEF GetBlockLazy, AInv, BlockInv
<1> QED
  BY <1>3, <1>4, <1>5, <1>6, <1>7, <1>8
     DEF NetworkStatusPeers, NetworkStatusHead, NetworkOptions

\* A handler that reads has no error yet, and the process is online.
LEMMA Busy ==
    ASSUME HInv, at \notin {"idle", "info", "done"}
    PROVE  mode = "online" /\ call.error = None
BY DEF HInv, PlaceInv

\* How far a handler of /block is, by the transactions it has read.
LEMMA InlinePlace ==
    ASSUME NEW k \in Nat, NEW txs, call'.block \in Block, Transactions[call'.block] = txs,
           Len(txs) = k + Len(call'.todo),
           \A n \in 1 .. Len(call'.todo) : call'.todo[n] = txs[k + n],
           Served(call'.ops, {txs[n] : n \in 1 .. k})
    PROVE  InlineInv'
BY DEF InlineInv

\* /block finds the block, and answers with the ids of its transactions alone or
\* starts to read them.
LEMMA BlockLazyKeeps ==
    ASSUME HInv, AInv, BlockLazy, UNCHANGED <<vars, mode, steady>>
    PROVE  HInv'
<1> DEFINE b == GetBlockLazy(call.id)
           txs == Transactions[b]
           found == [call EXCEPT !.block = b, !.todo = txs]
<1>1. UNCHANGED <<coinStore, mode, view, steady>> /\ at = "lazy"
  BY DEF BlockLazy, vars, storageVars
<1>2. call.endpoint = "block" /\ call.ops = {} /\ call.error = None /\ mode = "online"
  BY <1>1, Busy DEF HInv, PlaceInv
<1>3. CASE b = None
  <2>1. Refuse("ErrBlockNotFound")
    BY <1>3 DEF BlockLazy
  <2> QED BY <1>1, <1>2, <2>1, Refused DEF Errors
<1>4. CASE b # None
  <2>1. b \in Block
    BY <1>4 DEF GetBlockLazy, AInv, BlockInv
  <2>2. txs \in Seq(Tx) /\ Len(txs) \in Nat
    BY <2>1, BlockBoxes
  <2>3. call' = found /\ at' = IF Len(txs) > TxFetchLimit THEN "done" ELSE "inline"
    BY <1>4 DEF BlockLazy, Answer, Proceed
  <2> HIDE DEF b, txs
  <2>4. /\ DOMAIN call' = Fields /\ call'.block = b /\ call'.todo = txs
        /\ call'.endpoint = "block" /\ call'.ops = {} /\ call'.error = None
    BY <1>2, <2>3 DEF HInv, CallInv, Fields
  <2>5. CallInv'
    BY <1>1, <2>1, <2>2, <2>3, <2>4 DEF HInv, CallInv, Fields
  <2>6. PlaceInv'
    BY <1>1, <1>2, <2>3, <2>4 DEF HInv, PlaceInv
  <2>7. ViewInv' /\ LookupInv' /\ AccountsAnswerTheirBlock' /\ MempoolRefusedForCause'
    BY <2>3, <2>4
       DEF ViewInv, LookupInv, AccountsAnswerTheirBlock, MempoolRefusedForCause, Answered
  <2>8. InlineInv'
    <3>1. call'.block = b /\ Transactions[call'.block] = txs /\ Len(txs) = 0 + Len(call'.todo)
      BY <2>2, <2>4 DEF txs
    <3>2. Served(call'.ops, {txs[n] : n \in 1 .. 0})
      BY <2>4 DEF Served
    <3>3. \A n \in 1 .. Len(call'.todo) : call'.todo[n] = txs[0 + n]
      BY <2>4
    <3>4. PICK m \in Nat : m = 0
      OBVIOUS
    <3>5. /\ Len(txs) = m + Len(call'.todo) /\ Served(call'.ops, {txs[n] : n \in 1 .. m})
          /\ \A n \in 1 .. Len(call'.todo) : call'.todo[n] = txs[m + n]
      BY <3>1, <3>2, <3>3, <3>4
    <3> QED BY <2>1, <2>4, <3>1, <3>5, InlinePlace
  <2>9. TransactionsServedWhole'
    <3>1. at' = "done" => call'.todo # << >>
      <4>1. at' = "done" => Len(txs) # 0
        BY <2>2, <2>3, ServicesAssumption
      <4>2. Len(<< >>) = 0
        OBVIOUS
      <4> QED BY <2>4, <4>1, <4>2
    <3>2. call'.todo = Transactions[call'.block]
      BY <2>4 DEF txs
    <3> QED BY <2>4, <3>1, <3>2 DEF TransactionsServedWhole, Answered
  <2> QED BY <2>5, <2>6, <2>7, <2>8, <2>9 DEF HInv
<1> QED BY <1>3, <1>4

\* /block reads one transaction after the other.
LEMMA BlockInlineKeeps ==
    ASSUME HInv, AInv, BlockInline, UNCHANGED <<vars, mode, steady>>
    PROVE  HInv'
<1> DEFINE txs == Transactions[call.block]
           t == Head(call.todo)
           those == GetBlockTransaction(call.block, t)
<1>1. UNCHANGED <<coinStore, mode, view, steady>> /\ at = "inline"
  BY DEF BlockInline, vars, storageVars
<1>2. call.endpoint = "block" /\ call.error = None /\ mode = "online"
  BY <1>1, Busy DEF HInv, PlaceInv
<1>3. call.block \in Block
  BY <1>1 DEF HInv, InlineInv
<1>4. /\ txs \in Seq(Tx) /\ Len(txs) \in Nat /\ DOMAIN txs = 1 .. Len(txs)
      /\ call.todo \in Seq(Tx) /\ Len(call.todo) \in Nat
  BY <1>3, BlockBoxes DEF HInv, CallInv
<1>5. PICK k \in Nat : /\ Len(txs) = k + Len(call.todo)
                       /\ \A n \in 1 .. Len(call.todo) : call.todo[n] = txs[k + n]
                       /\ Served(call.ops, {txs[n] : n \in 1 .. k})
  BY <1>1 DEF HInv, InlineInv
<1>6. CASE call.todo = << >>
  <2>1. at' = "done" /\ call' = call
    BY <1>6 DEF BlockInline, Answer, Proceed
  <2>2. CallInv' /\ PlaceInv'
    BY <1>1, <1>2, <2>1 DEF HInv, CallInv, PlaceInv
  <2>3. ViewInv' /\ InlineInv' /\ LookupInv'
    BY <2>1 DEF ViewInv, InlineInv, LookupInv
  <2>4. k = Len(txs)
    BY <1>4, <1>6, <1>5
  <2>5. {txs[n] : n \in 1 .. k} = ToSet(txs) /\ ToSet(txs) \in SUBSET Tx
    <3>1. ToSet(txs) = {txs[n] : n \in DOMAIN txs} /\ DOMAIN txs = 1 .. k
      BY <1>4, <2>4 DEF ToSet
    <3>2. \A n \in DOMAIN txs : txs[n] \in Tx
      BY <1>3, BlockBoxes
    <3> QED BY <3>1, <3>2
  <2>6. Unsigned(call.ops) = TrueOperations(ToSet(txs))
    BY <1>5, <2>5, ServedUnsigned
  <2>7. AccountsAnswerTheirBlock' /\ MempoolRefusedForCause'
    BY <1>2, <2>1 DEF AccountsAnswerTheirBlock, MempoolRefusedForCause, Answered
  <2>8. TransactionsServedWhole'
    <3>1. /\ call'.endpoint = "block" /\ call'.todo = << >>
          /\ Unsigned(call'.ops) = TrueOperations(ToSet(Transactions[call'.block]))
      BY <1>2, <1>6, <2>1, <2>6
    <3> QED BY <3>1 DEF TransactionsServedWhole, Answered
  <2> QED BY <2>2, <2>3, <2>7, <2>8 DEF HInv
<1>7. CASE call.todo # << >> /\ HasTransaction(call.block, t)
  <2>1. /\ at' = "inline"
        /\ call' = [call EXCEPT !.todo = Tail(@), !.ops = @ \cup those]
    BY <1>7 DEF BlockInline, Proceed
  <2>2. t \in Tx /\ Served(those, {t}) /\ those \subseteq Operation
    BY <1>7, ServedFromBlock
  <2>3. /\ Tail(call.todo) \in Seq(Tx) /\ Len(call.todo) \in Nat \ {0}
        /\ Len(Tail(call.todo)) = Len(call.todo) - 1 /\ t = call.todo[1]
        /\ \A n \in 1 .. Len(Tail(call.todo)) : Tail(call.todo)[n] = call.todo[n + 1]
    BY <1>4, <1>7
  <2> HIDE DEF those, t, txs
  <2>4. t = txs[k + 1]
    <3>1. 1 \in 1 .. Len(call.todo)
      BY <2>3
    <3> QED BY <1>5, <2>3, <3>1
  <2>5. /\ DOMAIN call' = Fields /\ call'.todo = Tail(call.todo) /\ call'.ops = call.ops \cup those
        /\ call'.endpoint = "block" /\ call'.error = None /\ call'.block = call.block
    BY <1>2, <2>1 DEF HInv, CallInv, Fields
  <2>6. CallInv'
    BY <1>1, <2>1, <2>2, <2>3, <2>5 DEF HInv, CallInv, Fields
  <2>7. PlaceInv'
    BY <1>1, <1>2, <2>1, <2>5 DEF HInv, PlaceInv
  <2>8. ViewInv' /\ LookupInv'
    BY <2>1 DEF ViewInv, LookupInv
  <2>9. (AccountsAnswerTheirBlock /\ TransactionsServedWhole /\ MempoolRefusedForCause)'
    BY <2>1 DEF AccountsAnswerTheirBlock, TransactionsServedWhole, MempoolRefusedForCause, Answered
  <2>10. InlineInv'
    <3>1. Len(txs) = (k + 1) + Len(call'.todo) /\ k + 1 \in Nat
      <4>1. PICK i, j, l : i = Len(txs) /\ j = Len(call.todo) /\ l = Len(Tail(call.todo))
        OBVIOUS
      <4>2. i = k + j /\ j \in Nat /\ l = j - 1
        BY <1>5, <2>3, <4>1
      <4>3. i = (k + 1) + l /\ k + 1 \in Nat
        BY ONLY <4>2, k \in Nat
      <4> QED BY <2>5, <4>1, <4>3
    <3>2. Served(call'.ops, {txs[n] : n \in 1 .. k} \cup {t})
      BY <1>5, <2>2, <2>5, ServedUnion
    <3>3. {txs[n] : n \in 1 .. k} \cup {t} = {txs[n] : n \in 1 .. k + 1}
      <4>1. \A n : n \in 1 .. k + 1 <=> n \in 1 .. k \/ n = k + 1
        OBVIOUS
      <4> QED BY <2>4, <4>1
    <3>4. \A n \in 1 .. Len(call'.todo) : call'.todo[n] = txs[(k + 1) + n]
      <4> SUFFICES ASSUME NEW n \in 1 .. Len(call'.todo) PROVE call'.todo[n] = txs[(k + 1) + n]
        OBVIOUS
      <4>1. n + 1 \in 1 .. Len(call.todo) /\ (k + 1) + n = k + (n + 1)
        BY <1>4, <2>3, <2>5
      <4> QED BY <1>5, <2>3, <2>5, <4>1
    <3>5. Transactions[call'.block] = txs /\ call'.block \in Block
      BY <1>3, <2>5 DEF txs
    <3>6. PICK m \in Nat : m = k + 1
      BY <3>1
    <3>7. /\ Len(txs) = m + Len(call'.todo) /\ Served(call'.ops, {txs[n] : n \in 1 .. m})
          /\ \A n \in 1 .. Len(call'.todo) : call'.todo[n] = txs[m + n]
      BY <3>1, <3>2, <3>3, <3>4, <3>6
    <3> QED BY <3>5, <3>7, InlinePlace
  <2> QED BY <2>6, <2>7, <2>8, <2>9, <2>10 DEF HInv
<1>8. CASE call.todo # << >> /\ ~HasTransaction(call.block, t)
  <2>1. Refuse("ErrTransactionNotFound")
    BY <1>8 DEF BlockInline, MissingTransaction
  <2> QED BY <1>1, <1>2, <2>1, Refused DEF Errors
<1> QED BY <1>6, <1>7, <1>8

\* /block/transaction reads one.
LEMMA BlockTransactionKeeps ==
    ASSUME HInv, AInv, BlockTransaction, UNCHANGED <<vars, mode, steady>>
    PROVE  HInv'
<1> DEFINE those == GetBlockTransaction(call.id.hash, call.tx)
<1>1. UNCHANGED <<coinStore, mode, view, steady>> /\ at = "transaction"
  BY DEF BlockTransaction, vars, storageVars
<1>2. call.endpoint = "blockTransaction"
  BY <1>1 DEF HInv, PlaceInv
<1>3. CASE HasTransaction(call.id.hash, call.tx)
  <2>1. at' = "done" /\ call' = [call EXCEPT !.block = call.id.hash, !.ops = those]
    BY <1>3 DEF BlockTransaction, Answer, Proceed
  <2>2. /\ call.tx \in Tx /\ Served(those, {call.tx}) /\ those \subseteq Operation
        /\ call.id.hash \in Block
    BY <1>3, ServedFromBlock DEF HasTransaction, AInv, BlockInv
  <2>3. Unsigned(those) = TrueOperations({call.tx})
    BY <2>2, ServedUnsigned
  <2> HIDE DEF those
  <2>4. /\ DOMAIN call' = Fields /\ call'.ops = those /\ call'.endpoint = call.endpoint
        /\ call'.tx = call.tx
    BY <2>1 DEF HInv, CallInv, Fields
  <2>5. CallInv'
    BY <1>1, <2>1, <2>2, <2>4 DEF HInv, CallInv, Fields
  <2>6. PlaceInv' /\ ViewInv' /\ InlineInv' /\ LookupInv'
    BY <1>1, <2>1 DEF HInv, PlaceInv, ViewInv, InlineInv, LookupInv
  <2>7. AccountsAnswerTheirBlock' /\ MempoolRefusedForCause'
    BY <1>2, <2>4 DEF AccountsAnswerTheirBlock, MempoolRefusedForCause, Answered
  <2>8. TransactionsServedWhole'
    BY <1>2, <2>3, <2>4 DEF TransactionsServedWhole, Answered
  <2> QED BY <2>5, <2>6, <2>7, <2>8 DEF HInv
<1>4. CASE ~HasTransaction(call.id.hash, call.tx)
  <2>1. Refuse("ErrTransactionNotFound")
    BY <1>4 DEF BlockTransaction
  <2> QED BY <1>1, <1>2, <2>1, Refused DEF Errors
<1> QED BY <1>3, <1>4

-----------------------------------------------------------------------------
(* /account *)

\* The lesser of two numbers.
LEMMA MinOfTwo ==
    ASSUME NEW x \in Nat, NEW y \in Nat
    PROVE  Min({x, y}) = IF x <= y THEN x ELSE y
<1> DEFINE m == IF x <= y THEN x ELSE y
<1>1. m \in {x, y} /\ \A z \in {x, y} : m <= z
  OBVIOUS
<1>2. \A z \in {x, y} : (\A w \in {x, y} : z <= w) => z = m
  OBVIOUS
<1> QED BY <1>1, <1>2 DEF Min

\* A sequence is as long as its domain.
LEMMA LengthOf ==
    ASSUME NEW n \in Nat, NEW S, NEW f \in [1 .. n -> S] PROVE Len(f) = n
OBVIOUS

\* The block is looked up in the transaction that the balance is read in.
LEMMA BalanceBlockKeeps ==
    ASSUME HInv, AInv, StoredInv, BalanceBlock, UNCHANGED <<vars, mode, steady>>
    PROVE  HInv'
<1> DEFINE b == GetBlockLazy(call.id)
<1>1. UNCHANGED <<coinStore, mode, steady>> /\ at = "balance"
  BY DEF BalanceBlock, vars, storageVars
<1>2. /\ call.endpoint = "balance" /\ call.account \in Account
      /\ call.error = None /\ mode = "online"
  BY <1>1, Busy DEF HInv, PlaceInv
<1>3. CASE b = None
  <2>1. Refuse("ErrUnableToGetBalance") /\ UNCHANGED view
    BY <1>3 DEF BalanceBlock
  <2> QED BY <1>1, <1>2, <2>1, Refused DEF Errors
<1>4. CASE b # None
  <2>1. b \in Block
    BY <1>4 DEF GetBlockLazy, AInv, BlockInv
  <2>2. /\ at' = "amount" /\ call' = [call EXCEPT !.block = b]
        /\ view' = [chain |-> chain, history |-> history]
    BY <1>4 DEF BalanceBlock, Proceed
  <2> HIDE DEF b
  <2>3. /\ DOMAIN call' = Fields /\ call'.block = b /\ call'.endpoint = "balance"
        /\ call'.account = call.account /\ call'.error = None
    BY <1>2, <2>2 DEF HInv, CallInv, Fields
  <2>4. CallInv'
    BY <1>1, <2>1, <2>2, <2>3 DEF HInv, CallInv, Fields, AInv, ChainInv
  <2>5. PlaceInv'
    BY <1>1, <1>2, <2>2, <2>3 DEF HInv, PlaceInv
  <2>6. view'.chain = chain /\ view'.history = history
    BY <2>2
  <2>7. ViewInv'
    BY <2>1, <2>3, <2>6 DEF ViewInv, StoredInv, AInv, HistoryInv, BalanceHeight
  <2>8. InlineInv' /\ LookupInv'
    BY <2>2 DEF InlineInv, LookupInv
  <2>9. (AccountsAnswerTheirBlock /\ TransactionsServedWhole /\ MempoolRefusedForCause)'
    BY <2>2 DEF AccountsAnswerTheirBlock, TransactionsServedWhole, MempoolRefusedForCause, Answered
  <2> QED BY <2>4, <2>5, <2>7, <2>8, <2>9 DEF HInv
<1> QED BY <1>3, <1>4

\* The balance is that at the height of the block, or at the head's if the block is
\* a seen one above it.
LEMMA BalanceAmountKeeps ==
    ASSUME HInv, BalanceAmount, UNCHANGED <<vars, mode, steady>>
    PROVE  HInv'
<1> DEFINE n == Min({Height[call.block], Len(BalancesInView)})
           amount == BalancesInView[n][call.account]
           last == IF view.chain = << >> THEN 1 ELSE Len(view.chain)
<1>1. UNCHANGED <<coinStore, mode, view, steady>> /\ at = "amount"
  BY DEF BalanceAmount, vars, storageVars
<1>2. /\ call.endpoint = "balance" /\ call.account \in Account /\ call.error = None
      /\ mode = "online" /\ view.chain \in Seq(Block)
  BY <1>1, Busy DEF HInv, PlaceInv, CallInv
<1>3. /\ call.block \in Block /\ view.history \in [1 .. last -> [Account -> Nat]]
      /\ \A m \in 1 .. Len(view.chain) :
             /\ Height[view.chain[m]] = m
             /\ \A a \in Account :
                    view.history[m][a] = TotalValue(Owned(Unspent[view.chain[m]], a))
  BY <1>1 DEF HInv, ViewInv
<1>4. /\ Len(view.chain) \in Nat /\ DOMAIN view.chain = 1 .. Len(view.chain)
      /\ view.chain # << >> => Len(view.chain) # 0
  BY <1>2
<1>5. last \in Nat \ {0} /\ Height[call.block] \in Nat \ {0}
  BY <1>3, <1>4, HeadersAssumption
<1>6. Len(BalancesInView) = last
  BY <1>3, <1>5, LengthOf DEF BalancesInView
<1>7. n = IF Height[call.block] <= last THEN Height[call.block] ELSE last
  BY <1>5, <1>6, MinOfTwo
<1>8. at' = "done" /\ call' = [call EXCEPT !.amount = amount]
  BY DEF BalanceAmount, Answer, Proceed
<1> HIDE DEF n, last
<1>9. n \in 1 .. last
  BY <1>5, <1>7
<1>10. amount = view.history[n][call.account] /\ amount \in Nat
  BY <1>2, <1>3, <1>9 DEF BalancesInView
<1>11. ASSUME call.block \in ToSet(view.chain)
       PROVE  amount = TotalValue({c \in Unspent[call.block] : Owner[c] = call.account})
  <2>1. PICK m \in 1 .. Len(view.chain) : call.block = view.chain[m]
    BY <1>4, <1>11 DEF ToSet
  <2>2. Height[call.block] = m
    BY <1>3, <2>1
  <2>3. last = Len(view.chain)
    BY <1>4, <2>1 DEF last
  <2>4. n = m
    BY <1>4, <1>7, <2>2, <2>3
  <2>5. amount = TotalValue(Owned(Unspent[call.block], call.account))
    BY <1>2, <1>3, <1>10, <2>1, <2>4
  <2> QED BY <2>5 DEF Owned
<1> HIDE DEF amount
<1>12. /\ DOMAIN call' = Fields /\ call'.amount = amount /\ call'.endpoint = "balance"
       /\ call'.block = call.block /\ call'.account = call.account
  BY <1>2, <1>8 DEF HInv, CallInv, Fields
<1>13. CallInv'
  BY <1>1, <1>8, <1>10, <1>12 DEF HInv, CallInv, Fields
<1>14. PlaceInv' /\ ViewInv' /\ InlineInv' /\ LookupInv'
  BY <1>1, <1>8 DEF HInv, PlaceInv, ViewInv, InlineInv, LookupInv
<1>15. AccountsAnswerTheirBlock'
  BY <1>1, <1>11, <1>12 DEF AccountsAnswerTheirBlock, Answered
<1>16. TransactionsServedWhole' /\ MempoolRefusedForCause'
  BY <1>12 DEF TransactionsServedWhole, MempoolRefusedForCause, Answered
<1> QED BY <1>13, <1>14, <1>15, <1>16 DEF HInv

\* Coins and head are read together.
LEMMA AccountCoinsKeeps ==
    ASSUME HInv, AInv, AccountCoins, UNCHANGED <<vars, mode, steady>>
    PROVE  HInv'
<1> DEFINE others == {c \in DOMAIN coinStore : coinStore[c].account # call.account}
           coins == Without(coinStore, others)
<1>1. UNCHANGED <<coinStore, mode, view, steady>> /\ at = "coins"
  BY DEF AccountCoins, vars, storageVars
<1>2. call.endpoint = "coins" /\ call.error = None
  BY <1>1 DEF HInv, PlaceInv
<1>3. CASE chain = << >>
  <2>1. Refuse("ErrUnableToGetCoins")
    BY <1>3 DEF AccountCoins
  <2> QED BY <1>1, <1>2, <2>1, Refused DEF Errors
<1>4. CASE chain # << >>
  <2>1. at' = "done" /\ call' = [call EXCEPT !.block = HeadBlock, !.coins = coins]
    BY <1>4 DEF AccountCoins, Answer, Proceed
  <2>2. Kept(coinStore) /\ DOMAIN coinStore = Unspent[HeadBlock] /\ HeadBlock \in Block
    BY <1>4, AccountsHead DEF AInv, CoinInv
  <2>3. Kept(coins) /\ DOMAIN coins = DOMAIN coinStore \ others
    BY <2>2, KeptWithout
  <2>4. \A c \in DOMAIN coinStore : coinStore[c].account = Owner[c]
    BY <2>2 DEF Kept, StoredCoins, TrueCoin
  <2>5. DOMAIN coins = {c \in Unspent[HeadBlock] : Owner[c] = call.account}
    BY <2>2, <2>3, <2>4
  <2> HIDE DEF coins
  <2>6. /\ DOMAIN call' = Fields /\ call'.block = HeadBlock /\ call'.coins = coins
        /\ call'.endpoint = "coins" /\ call'.account = call.account
    BY <1>2, <2>1 DEF HInv, CallInv, Fields
  <2>7. CallInv'
    BY <1>1, <2>1, <2>2, <2>3, <2>6 DEF HInv, CallInv, Fields
  <2>8. PlaceInv' /\ ViewInv' /\ InlineInv' /\ LookupInv'
    BY <1>1, <2>1 DEF HInv, PlaceInv, ViewInv, InlineInv, LookupInv
  <2>9. AccountsAnswerTheirBlock'
    BY <2>5, <2>6 DEF AccountsAnswerTheirBlock, Answered
  <2>10. TransactionsServedWhole' /\ MempoolRefusedForCause'
    BY <2>6 DEF TransactionsServedWhole, MempoolRefusedForCause, Answered
  <2> QED BY <2>7, <2>8, <2>9, <2>10 DEF HInv
<1> QED BY <1>3, <1>4

-----------------------------------------------------------------------------
(* /mempool *)

\* A list of the elements of a finite set.
LEMMA ListOf ==
    ASSUME NEW S, IsFiniteSet(S), NEW txs \in SetToSeqs(S)
    PROVE  /\ ToSet(txs) = {txs[n] : n \in DOMAIN txs} /\ ToSet(txs) \subseteq S
           /\ \A n \in DOMAIN txs : n \in Nat /\ 1 .. n \subseteq DOMAIN txs
<1>1. Cardinality(S) \in Nat
  BY FS_CardinalityType
<1>2. txs \in [1 .. Cardinality(S) -> S]
  BY DEF SetToSeqs
<1>3. ToSet(txs) = {txs[n] : n \in DOMAIN txs}
  BY DEF ToSet
<1> QED BY <1>1, <1>2, <1>3

\* /mempool answers with the list, /mempool/transaction looks the coins up that no
\* listed transaction creates before.
LEMMA UnconfirmedKeeps ==
    ASSUME HInv, GetUnconfirmedTxs, UNCHANGED <<vars, mode, steady>>
    PROVE  HInv'
<1>1. UNCHANGED <<coinStore, mode, view, steady>> /\ at = "unconfirmed"
  BY DEF GetUnconfirmedTxs, vars, storageVars
<1>2. /\ call.endpoint \in {"mempool", "mempoolTransaction"} /\ call.error = None
      /\ call.endpoint = "mempoolTransaction" => call.tx \in Submitted
      /\ mode = "online" /\ DOMAIN call = Fields
  BY <1>1, Busy DEF HInv, PlaceInv, CallInv
<1>3. CASE NodeError
  BY <1>1, <1>3, NodeRefused
<1>4. CASE ~NodeError
  <2>1. PICK b \in Block : \E txs \in UNION {SetToSeqs(S) : S \in Unconfirmed(b)} :
            LET listed == [call EXCEPT !.listed = ToSet(txs)] IN
            IF call.endpoint = "mempool" THEN Answer(listed)
            ELSE IF call.tx \notin ToSet(txs)
            THEN Answer([listed EXCEPT !.error = "ErrTransactionNotFound"])
            ELSE Proceed("lookups",
                     [listed EXCEPT !.lookups = {i.coin : i \in InputsForTxs(txs)}])
    BY <1>4 DEF GetUnconfirmedTxs
  <2>2. PICK txs \in UNION {SetToSeqs(S) : S \in Unconfirmed(b)} :
            LET listed == [call EXCEPT !.listed = ToSet(txs)] IN
            IF call.endpoint = "mempool" THEN Answer(listed)
            ELSE IF call.tx \notin ToSet(txs)
            THEN Answer([listed EXCEPT !.error = "ErrTransactionNotFound"])
            ELSE Proceed("lookups",
                     [listed EXCEPT !.lookups = {i.coin : i \in InputsForTxs(txs)}])
    BY <2>1
  <2>3. PICK S \in SUBSET Submitted : txs \in SetToSeqs(S)
    BY DEF Unconfirmed
  <2>4. IsFiniteSet(S)
    BY FS_Subset, ServicesAssumption
  <2>5. /\ ToSet(txs) = {txs[n] : n \in DOMAIN txs} /\ ToSet(txs) \subseteq Submitted
        /\ \A n \in DOMAIN txs : n \in Nat /\ 1 .. n \subseteq DOMAIN txs
    BY <2>3, <2>4, ListOf
  <2> DEFINE listed == [call EXCEPT !.listed = ToSet(txs)]
             coins == {i.coin : i \in InputsForTxs(txs)}
  <2>6. DOMAIN listed = Fields /\ listed.listed = ToSet(txs) /\ listed.lookups = call.lookups
    BY <1>2 DEF Fields
  <2>7. CASE call.endpoint = "mempool"
    <3>1. at' = "done" /\ call' = listed
      BY <2>2, <2>7 DEF Answer, Proceed
    <3>2. CallInv' /\ call'.endpoint = "mempool"
      BY <1>1, <2>5, <2>7, <3>1 DEF HInv, CallInv, Fields
    <3> QED BY <1>1, <3>1, <3>2, OtherAnswer
  <2>8. CASE call.endpoint # "mempool" /\ call.tx \notin ToSet(txs)
    <3>1. /\ at' = "done" /\ call' = [listed EXCEPT !.error = "ErrTransactionNotFound"]
          /\ "ErrTransactionNotFound" # None
      BY <2>2, <2>8, ServicesAssumption DEF Answer, Proceed, Errors
    <3>2. call'.error = "ErrTransactionNotFound"
      BY <2>6, <3>1 DEF Fields
    <3>3. CallInv'
      BY <1>1, <2>5, <3>1 DEF HInv, CallInv, Fields
    <3> QED BY <1>1, <3>1, <3>2, <3>3, ErrorAnswer
  <2>9. CASE call.endpoint # "mempool" /\ call.tx \in ToSet(txs)
    <3>1. at' = "lookups" /\ call' = [listed EXCEPT !.lookups = coins]
      BY <2>2, <2>9 DEF Proceed
    <3>2. call.tx \in Tx /\ ToSet(txs) \subseteq Tx
      BY <1>2, <2>5, <2>9, ServicesAssumption
    <3>3. \A t \in ToSet(txs) : TxInputs[t] \subseteq Coin
      BY <3>2, TransactionsAssumption
    <3>4. InputsForTxs(txs) =
              UNION {{[tx |-> txs[n], coin |-> c] : c \in TxInputs[txs[n]] \ OutputsUpTo(txs, n)}
                         : n \in DOMAIN txs}
      BY DEF InputsForTxs
    <3>5. coins \subseteq Coin
      <4> SUFFICES ASSUME NEW i \in InputsForTxs(txs) PROVE i.coin \in Coin
        OBVIOUS
      <4>1. PICK n \in DOMAIN txs :
                i \in {[tx |-> txs[n], coin |-> c] : c \in TxInputs[txs[n]] \ OutputsUpTo(txs, n)}
        BY <3>4
      <4> QED BY <2>5, <3>3, <4>1
    <3>6. ASSUME NEW c \in TxInputs[call.tx], c \notin coins
          PROVE  \E t \in ToSet(txs) : c \in TxOutputs[t]
      <4>1. PICK n \in DOMAIN txs : txs[n] = call.tx
        BY <2>5, <2>9
      <4>2. c \in OutputsUpTo(txs, n)
        <5>1. CASE c \notin OutputsUpTo(txs, n)
          <6>1. [tx |-> txs[n], coin |-> c] \in InputsForTxs(txs)
            BY <3>4, <4>1, <5>1
          <6>2. [tx |-> txs[n], coin |-> c].coin = c
            OBVIOUS
          <6> QED BY <3>6, <6>1, <6>2
        <5> QED BY <5>1
      <4>3. PICK m \in 1 .. n : c \in TxOutputs[txs[m]]
        BY <4>2 DEF OutputsUpTo
      <4> QED BY <2>5, <4>3
    <3> HIDE DEF coins
    <3>7. /\ DOMAIN call' = Fields /\ call'.lookups = coins /\ call'.listed = ToSet(txs)
          /\ call'.tx = call.tx /\ call'.endpoint = call.endpoint /\ call'.error = None
      BY <1>2, <3>1 DEF Fields
    <3>8. CallInv'
      BY <1>1, <2>5, <3>1, <3>5, <3>7 DEF HInv, CallInv, Fields
    <3>9. PlaceInv'
      BY <1>1, <1>2, <2>9, <3>1, <3>7 DEF HInv, PlaceInv
    <3>10. LookupInv'
      BY <3>6, <3>7 DEF LookupInv
    <3>11. ViewInv' /\ InlineInv'
      BY <3>1 DEF ViewInv, InlineInv
    <3>12. (AccountsAnswerTheirBlock /\ TransactionsServedWhole /\ MempoolRefusedForCause)'
      BY <3>1 DEF AccountsAnswerTheirBlock, TransactionsServedWhole, MempoolRefusedForCause,
                  Answered
    <3> QED BY <3>8, <3>9, <3>10, <3>11, <3>12 DEF HInv
  <2> HIDE DEF listed, coins
  <2> QED BY <2>7, <2>8, <2>9
<1> QED BY <1>3, <1>4

\* A coin that is looked up is found, or has left the storage since the request came.
LEMMA FindMempoolCoinKeeps ==
    ASSUME HInv, AInv, NEW c \in Coin, FindMempoolCoin(c), UNCHANGED <<vars, mode, steady>>
    PROVE  HInv'
<1>1. UNCHANGED <<coinStore, mode, view, steady>> /\ at = "lookups" /\ at' = "lookups"
  BY DEF FindMempoolCoin, Proceed, vars, storageVars
<1>2. /\ call.endpoint = "mempoolTransaction" /\ call.tx \in Submitted /\ call.error = None
      /\ mode = "online" /\ DOMAIN call = Fields /\ Kept(call.coins)
  BY <1>1, Busy DEF HInv, PlaceInv, CallInv
<1>3. PICK coins :
          /\ call' = [call EXCEPT !.lookups = @ \ {c}, !.coins = coins] /\ Kept(coins)
          /\ DOMAIN coins = DOMAIN call.coins \cup ({c} \cap DOMAIN coinStore)
  <2>1. CASE c \in DOMAIN coinStore
    <3>1. call' = [call EXCEPT !.lookups = @ \ {c}, !.coins = With(@, c, coinStore[c])]
      BY <2>1 DEF FindMempoolCoin, Proceed
    <3>2. coinStore[c] \in StoredCoins(c)
      BY <2>1 DEF AInv, CoinInv, Kept
    <3>3. /\ Kept(With(call.coins, c, coinStore[c]))
          /\ DOMAIN With(call.coins, c, coinStore[c]) = DOMAIN call.coins \cup {c}
      BY <1>2, <3>2, KeptWith
    <3>4. call' = [call EXCEPT !.lookups = @ \ {c}, !.coins = With(call.coins, c, coinStore[c])]
      BY <1>2, <3>1 DEF Fields
    <3> QED BY <2>1, <3>3, <3>4
  <2>2. CASE c \notin DOMAIN coinStore
    <3>1. call' = [call EXCEPT !.lookups = @ \ {c}]
      BY <2>2 DEF FindMempoolCoin, Proceed, NoSuchCoin
    <3>2. call' = [call EXCEPT !.lookups = @ \ {c}, !.coins = call.coins]
      BY <1>2, <3>1 DEF Fields
    <3> QED BY <1>2, <2>2, <3>2
  <2> QED BY <2>1, <2>2
<1>4. /\ DOMAIN call' = Fields /\ call'.lookups = call.lookups \ {c} /\ call'.coins = coins
      /\ call'.tx = call.tx /\ call'.endpoint = call.endpoint /\ call'.error = None
      /\ call'.listed = call.listed
  BY <1>2, <1>3 DEF Fields
<1>5. CallInv'
  BY <1>1, <1>3, <1>4 DEF HInv, CallInv, Fields
<1>6. PlaceInv'
  BY <1>1, <1>2, <1>4 DEF HInv, PlaceInv
<1>7. LookupInv'
  <2>1. c \in DOMAIN coins \/ c \notin steady
    BY <1>3 DEF HInv, CallInv
  <2> QED BY <1>1, <1>3, <1>4, <2>1 DEF HInv, LookupInv
<1>8. ViewInv' /\ InlineInv'
  BY <1>1 DEF ViewInv, InlineInv
<1>9. (AccountsAnswerTheirBlock /\ TransactionsServedWhole /\ MempoolRefusedForCause)'
  BY <1>1 DEF AccountsAnswerTheirBlock, TransactionsServedWhole, MempoolRefusedForCause, Answered
<1> QED BY <1>5, <1>6, <1>7, <1>8, <1>9 DEF HInv

\* With no coin left to look up, one that is missing is the cause of the refusal.
LEMMA ConvertKeeps ==
    ASSUME HInv, ConvertMempoolTx, UNCHANGED <<vars, mode, steady>>
    PROVE  HInv'
<1> DEFINE ops == TxToRosettaTx(call.tx, call.coins)
<1>1. UNCHANGED <<coinStore, mode, view, steady>> /\ at = "lookups" /\ call.lookups = {}
  BY DEF ConvertMempoolTx, vars, storageVars
<1>2. /\ call.endpoint = "mempoolTransaction" /\ call.tx \in Submitted /\ call.tx \in Tx
      /\ Kept(call.coins) /\ call.error = None
  BY <1>1, ServicesAssumption DEF HInv, PlaceInv, CallInv
<1>3. CASE NodeError
  BY <1>1, <1>3, NodeRefused
<1>4. CASE ~(TxInputs[call.tx] \subseteq DOMAIN call.coins)
  <2>1. PICK c \in TxInputs[call.tx] : c \notin DOMAIN call.coins
    BY <1>4
  <2>2. c \notin steady \/ \E t \in call.listed : c \in TxOutputs[t]
    BY <1>1, <2>1 DEF HInv, LookupInv
  <2>3. Refuse("ErrErgoNode")
    BY <1>4 DEF ConvertMempoolTx
  <2> QED BY <1>1, <2>2, <2>3, Refused DEF Errors
<1>5. CASE TxInputs[call.tx] \subseteq DOMAIN call.coins /\ ~NodeError
  <2>1. at' = "done" /\ call' = [call EXCEPT !.ops = ops]
    BY <1>5 DEF ConvertMempoolTx, Answer, Proceed
  <2>2. Served(ops, {call.tx}) /\ ops \subseteq Operation
    BY <1>2, <1>5, ServedFromCoins
  <2>3. Unsigned(ops) = TrueOperations({call.tx})
    BY <1>2, <2>2, ServedUnsigned
  <2> HIDE DEF ops
  <2>4. /\ DOMAIN call' = Fields /\ call'.ops = ops /\ call'.endpoint = "mempoolTransaction"
        /\ call'.tx = call.tx /\ call'.error = None
    BY <1>2, <2>1 DEF HInv, CallInv, Fields
  <2>5. CallInv'
    BY <1>1, <2>1, <2>2, <2>4 DEF HInv, CallInv, Fields
  <2>6. PlaceInv' /\ ViewInv' /\ InlineInv' /\ LookupInv'
    BY <1>1, <2>1 DEF HInv, PlaceInv, ViewInv, InlineInv, LookupInv
  <2>7. AccountsAnswerTheirBlock' /\ TransactionsServedWhole'
    BY <2>3, <2>4 DEF AccountsAnswerTheirBlock, TransactionsServedWhole, Answered
  <2>8. MempoolRefusedForCause'
    <3>1. "ErrErgoNode" # None
      BY ServicesAssumption DEF Errors
    <3> QED BY <2>4, <3>1 DEF MempoolRefusedForCause
  <2> QED BY <2>5, <2>6, <2>7, <2>8 DEF HInv
<1> QED BY <1>3, <1>4, <1>5

-----------------------------------------------------------------------------
(* The invariant *)

\* A step of the indexer changes nothing of a request but which coins have been in
\* the storage all the time.
LEMMA IndexerKeeps ==
    ASSUME HInv, UNCHANGED <<mode, handlerVars>>, steady' = steady \cap DOMAIN coinStore'
    PROVE  HInv'
<1>1. UNCHANGED <<mode, at, call, view>> /\ steady' \subseteq steady
  BY DEF handlerVars
<1>2. CallInv'
  BY <1>1 DEF HInv, CallInv
<1>3. PlaceInv'
  BY <1>1 DEF HInv, PlaceInv
<1>4. ViewInv'
  BY <1>1 DEF HInv, ViewInv
<1>5. InlineInv' /\ LookupInv'
  BY <1>1 DEF HInv, InlineInv, LookupInv
<1>6. AccountsAnswerTheirBlock' /\ TransactionsServedWhole'
  BY <1>1 DEF HInv, AccountsAnswerTheirBlock, TransactionsServedWhole, Answered
<1>7. MempoolRefusedForCause'
  BY <1>1 DEF HInv, MempoolRefusedForCause
<1> QED BY <1>2, <1>3, <1>4, <1>5, <1>6, <1>7 DEF HInv

\* Neither does a step that changes nothing of the service.
LEMMA ServicesStutter ==
    ASSUME HInv, UNCHANGED servicesVars PROVE HInv'
<1>1. UNCHANGED <<mode, handlerVars>> /\ coinStore' = coinStore /\ steady' = steady
  BY DEF servicesVars, vars, storageVars
<1>2. steady' = steady \cap DOMAIN coinStore'
  BY <1>1 DEF HInv, CallInv
<1> QED BY <1>1, <1>2, IndexerKeeps

\* A step of a handler keeps the invariant.
LEMMA HandlerKeeps ==
    ASSUME HInv, AInv, StoredInv, HandlerStep, UNCHANGED <<vars, mode, steady>>
    PROVE  HInv'
<1>1. CASE NetworkStatusPeers \/ NetworkStatusHead \/ NetworkOptions
  BY <1>1, NetworkKeeps
<1>2. CASE BlockLazy \/ BlockInline \/ BlockTransaction
  BY <1>2, BlockLazyKeeps, BlockInlineKeeps, BlockTransactionKeeps
<1>3. CASE BalanceBlock \/ BalanceAmount \/ AccountCoins
  BY <1>3, BalanceBlockKeeps, BalanceAmountKeeps, AccountCoinsKeeps
<1>4. CASE GetUnconfirmedTxs \/ ConvertMempoolTx
  BY <1>4, UnconfirmedKeeps, ConvertKeeps
<1>5. CASE \E c \in Coin : FindMempoolCoin(c)
  BY <1>5, FindMempoolCoinKeeps
<1>6. CASE StorageFails
  <2>1. UNCHANGED <<coinStore, mode, view, steady>>
    BY <1>6 DEF StorageFails, vars, storageVars
  <2> QED BY <1>6, <2>1, ReadRefused
<1> QED BY <1>1, <1>2, <1>3, <1>4, <1>5, <1>6 DEF HandlerStep

\* After a written answer or a crash no request is left.
LEMMA IdleAgain ==
    ASSUME mode' \in {"online", "offline"},
           at' = "idle", call' = NoCall, view' = NoView, steady' = {}
    PROVE  HInv'
<1>1. CallInv'
  BY NoCoinsKept, ServicesAssumption
     DEF CallInv, NoCall, NoView, Fields, NoIdentifier, PartialBlockIdentifier
<1>2. PlaceInv' /\ ViewInv' /\ InlineInv' /\ LookupInv'
  BY DEF PlaceInv, ViewInv, InlineInv, LookupInv
<1>3. (AccountsAnswerTheirBlock /\ TransactionsServedWhole /\ MempoolRefusedForCause)'
  BY DEF AccountsAnswerTheirBlock, TransactionsServedWhole, MempoolRefusedForCause, Answered
<1> QED BY <1>1, <1>2, <1>3 DEF HInv

\* To the accounts, every step of the service is one of theirs or none.
LEMMA ServicesStep == ASSUME [ServicesNext]_servicesVars PROVE [Next]_vars
BY DEF ServicesNext, IndexerGoesOn, Crash, Next, servicesVars

\* The storage as the indexer keeps it, what of it can be served, and the handler
SInv == AInv /\ StoredInv /\ HInv

\* Every step of the service keeps all three.
LEMMA ServicesNextKeeps ==
    ASSUME SInv, [ServicesNext]_servicesVars PROVE SInv'
<1>1. AInv' /\ StoredInv'
  BY ServicesStep, AccountsNext, StoredNext DEF SInv
<1>2. HInv /\ AInv /\ StoredInv /\ mode \in {"online", "offline"}
  BY DEF SInv, HInv, PlaceInv
<1> SUFFICES HInv'
  BY <1>1 DEF SInv
<1>3. CASE IndexerGoesOn
  BY <1>2, <1>3, IndexerKeeps DEF IndexerGoesOn
<1>4. CASE Crash
  BY <1>2, <1>4, IdleAgain DEF Crash
<1>5. CASE (\E r \in Requests : Receive(r)) /\ UNCHANGED <<vars, mode>>
  <2>1. UNCHANGED <<coinStore, mode>>
    BY <1>5 DEF vars, storageVars
  <2> QED BY <1>2, <1>5, <2>1, ReceiveKeeps
<1>6. CASE HandlerStep /\ UNCHANGED <<vars, mode, steady>>
  BY <1>2, <1>6, HandlerKeeps
<1>7. CASE Written /\ UNCHANGED <<vars, mode>>
  BY <1>2, <1>7, IdleAgain DEF Written
<1>8. CASE UNCHANGED servicesVars
  BY <1>2, <1>8, ServicesStutter
<1> QED
  BY <1>3, <1>4, <1>5, <1>6, <1>7, <1>8 DEF ServicesNext

\* The invariant holds in every state of the service.
THEOREM ServicesInductive == ServicesSpec => []SInv
<1>1. ServicesInit => SInv
  BY AccountsInit, StoredInit, Idle DEF ServicesInit, SInv
<1>2. SInv /\ [ServicesNext]_servicesVars => SInv'
  BY ServicesNextKeeps
<1> QED BY <1>1, <1>2, PTL DEF ServicesSpec

\* The handlers leave the accounts alone: whatever requests come in, the service
\* behaves, in what it stores, as the indexer does by itself.
THEOREM ServicesKeepAccounts == ServicesSpec => Spec
<1>1. ServicesInit => Init
  BY DEF ServicesInit
<1>2. [ServicesNext]_servicesVars => [Next]_vars
  BY ServicesStep
<1> QED BY <1>1, <1>2, PTL DEF ServicesSpec, Spec

-----------------------------------------------------------------------------
(* What the answers say *)

\* Every variable keeps its type, and offline no handler but those of /network/list
\* and /network/options does anything.
THEOREM ServicesTypeCorrect == ServicesSpec => []ServicesTypeOK
<1>1. ASSUME HInv, TypeOK PROVE ServicesTypeOK
  <2>1. ASSUME at \in {"peers", "info", "lazy", "transaction", "balance", "coins", "unconfirmed"}
        PROVE  at \in {Handlers[e] : e \in DOMAIN Handlers}
    <3>1. /\ {"status", "options", "block", "blockTransaction", "balance", "coins",
              "mempool"} \subseteq DOMAIN Handlers
          /\ Handlers["status"] = "peers" /\ Handlers["options"] = "info"
          /\ Handlers["block"] = "lazy" /\ Handlers["blockTransaction"] = "transaction"
          /\ Handlers["balance"] = "balance" /\ Handlers["coins"] = "coins"
          /\ Handlers["mempool"] = "unconfirmed"
      BY DEF Handlers
    <3> QED BY <2>1, <3>1
  <2>2. at \in {"idle", "head", "inline", "amount", "lookups", "done"}
                  \cup {Handlers[e] : e \in DOMAIN Handlers}
    BY <1>1, <2>1 DEF HInv, PlaceInv
  <2>3. DOMAIN call.coins \subseteq Coin /\ steady \subseteq Coin
    BY <1>1 DEF HInv, CallInv, Kept, TypeOK
  <2>4. mode \in {"online", "offline"} /\ (mode = "offline" => at \in {"idle", "info", "done"})
    BY <1>1 DEF HInv, PlaceInv
  <2> HIDE DEF Handlers
  <2> QED BY <1>1, <2>2, <2>3, <2>4 DEF ServicesTypeOK, HInv, CallInv
<1>2. SInv => HInv
  BY DEF SInv
<1> QED BY <1>1, <1>2, ServicesInductive, ServicesKeepAccounts, AccountsTypeCorrect, PTL

\* A balance is that of the block the answer names, and coins are those unspent
\* after it, however many blocks come and go meanwhile (account.go:105-141, 76-103).
THEOREM AnswersNameTheirBlock == ServicesSpec => []AccountsAnswerTheirBlock
<1>1. SInv => AccountsAnswerTheirBlock
  BY DEF SInv, HInv
<1> QED BY <1>1, ServicesInductive, PTL

\* A transaction that is answered has an operation for each of its boxes, and a
\* block all its transactions, although each was read by itself
\* (block.go:44-71, mempool.go:84-102).
THEOREM AnswersAreWhole == ServicesSpec => []TransactionsServedWhole
<1>1. SInv => TransactionsServedWhole
  BY DEF SInv, HInv
<1> QED BY <1>1, ServicesInductive, PTL

\* An unconfirmed transaction that the node lists is refused as an error of the
\* node only because the node failed, one of its coins was not in the storage
\* throughout the request, having left it, come late or never been there, or a
\* transaction of the list creates one (mempool.go:71-96, 106-143).
THEOREM MempoolRefusalsHaveCause == ServicesSpec => []MempoolRefusedForCause
<1>1. SInv => MempoolRefusedForCause
  BY DEF SInv, HInv
<1> QED BY <1>1, ServicesInductive, PTL

\* What cannot be found is not on the chain.
LEMMA NotFound ==
    ASSUME AInv, StoredInv, NEW id \in PartialBlockIdentifier, GetBlockLazy(id) = None
    PROVE  ~OnChain(id)
<1> SUFFICES ASSUME OnChain(id) PROVE FALSE
  OBVIOUS
<1>1. ToSet(chain) \subseteq DOMAIN blocks /\ None \notin DOMAIN blocks
  BY ChainStored
<1>2. CASE id.hash # None
  BY <1>1, <1>2 DEF GetBlockLazy, OnChain
<1>3. CASE id.hash = None
  <2> DEFINE n == IF id.index # 0 THEN id.index ELSE Len(chain)
  <2>1. chain # << >> /\ id.index <= Len(chain) /\ id.index \in Nat
    BY <1>3, ServicesAssumption DEF OnChain, PartialBlockIdentifier
  <2>2. DOMAIN chain = 1 .. Len(chain) /\ Len(chain) \in Nat \ {0}
    BY <2>1 DEF AInv, ChainInv
  <2>3. n \in DOMAIN chain
    BY <2>1, <2>2
  <2> HIDE DEF n
  <2>4. chain[n] \in DOMAIN blocks
    BY <2>2, <2>3 DEF StoredInv
  <2>5. GetBlockLazy(id) = chain[n]
    BY <1>3, <2>3, <2>4 DEF GetBlockLazy, Indexed, n
  <2> QED BY <1>1, <2>4, <2>5
<1> QED BY <1>2, <1>3

\* Unless a read fails, a client is only refused what the storage does not have at
\* that moment: the head when there is none, a block that is not on the chain, a
\* transaction of a block that left it (block.go:44-65, network.go:80-83,
\* account.go:50-61).
THEOREM RefusalsAreJustified == ServicesSpec => RefusalsJustified
<1> DEFINE Justified ==
        ~call'.readFailed =>
            /\ call'.error \in {"ErrNotReady", "ErrUnableToGetCoins"} => chain = << >>
            /\ call'.error \in {"ErrBlockNotFound", "ErrUnableToGetBalance"} => ~OnChain(call.id)
            /\ call'.error = "ErrTransactionNotFound" /\ call'.endpoint = "block"
                   => call.block \notin ToSet(chain)
<1>1. ASSUME SInv, [ServicesNext]_servicesVars, at # "done", at' = "done" PROVE Justified
  <2>1. AInv /\ StoredInv /\ HInv /\ CallInv /\ DOMAIN call = Fields
    BY <1>1 DEF SInv, HInv, CallInv
  <2>2. ASSUME call'.error \in {None, "ErrUnavailableOffline", "ErrErgoNode", "panic"}
        PROVE  Justified
    BY <2>2, ServicesAssumption DEF Errors
  <2>3. ASSUME NEW e, Refuse(e) PROVE call'.error = e /\ call'.endpoint = call.endpoint
    BY <2>1, <2>3 DEF Refuse, Answer, Proceed, Fields
  <2>4. NodeError => call'.error = "ErrErgoNode"
    BY <2>1 DEF NodeError, Answer, Proceed, Fields
  <2>5. ASSUME at \notin {"idle", "done"}, call'.error = call.error PROVE Justified
    BY <2>1, <2>2, <2>5 DEF HInv, PlaceInv
  <2>6. ASSUME NEW r \in Requests, Receive(r) PROVE Justified
    <3>1. r.error = None /\ DOMAIN r = Fields
      BY RequestShape
    <3>2. call' \in {r, [r EXCEPT !.error = "ErrUnavailableOffline"]}
      BY <2>6 DEF Receive, Answer, Proceed
    <3> QED BY <2>2, <3>1, <3>2 DEF Fields
  <2>7. CASE NetworkStatusPeers \/ NetworkOptions \/ ConvertMempoolTx
    BY <1>1, <2>1, <2>2, <2>3, <2>4, <2>5, <2>7
       DEF NetworkStatusPeers, NetworkOptions, ConvertMempoolTx, Answer, Proceed, Fields
  <2>8. CASE NetworkStatusHead
    <3>1. NoIdentifier \in PartialBlockIdentifier
      BY ServicesAssumption DEF NoIdentifier, PartialBlockIdentifier
    <3>2. CASE GetBlockLazy(NoIdentifier) = None
      <4>1. call'.error = "ErrNotReady"
        BY <2>3, <2>8, <3>2 DEF NetworkStatusHead
      <4>2. ~OnChain(NoIdentifier) /\ Len(chain) \in Nat
        BY <2>1, <3>1, <3>2, NotFound DEF AInv, ChainInv
      <4>3. chain = << >>
        BY <4>2 DEF OnChain, NoIdentifier
      <4> QED BY <4>1, <4>3
    <3>3. CASE GetBlockLazy(NoIdentifier) # None
      BY <2>1, <2>5, <2>8, <3>3 DEF NetworkStatusHead, Answer, Proceed, Fields
    <3> QED BY <3>2, <3>3
  <2>9. CASE BlockLazy
    <3>1. CASE GetBlockLazy(call.id) = None
      <4>1. call'.error = "ErrBlockNotFound" /\ ~OnChain(call.id)
        BY <2>1, <2>3, <2>9, <3>1, NotFound DEF BlockLazy, CallInv
      <4> QED BY <4>1
    <3>2. CASE GetBlockLazy(call.id) # None
      <4>1. call'.error = call.error
        BY <2>1, <2>9, <3>2 DEF BlockLazy, Answer, Proceed, Fields
      <4> QED BY <2>5, <2>9, <4>1 DEF BlockLazy
    <3> QED BY <3>1, <3>2
  <2>10. CASE BlockInline
    <3>1. CASE call.todo = << >>
      BY <2>5, <2>10, <3>1 DEF BlockInline, Answer, Proceed
    <3>2. CASE call.todo # << >>
      <4>1. ~HasTransaction(call.block, Head(call.todo)) /\ Refuse("ErrTransactionNotFound")
        BY <1>1, <2>10, <3>2 DEF BlockInline, MissingTransaction, Proceed
      <4>2. PICK k \in Nat :
                /\ Len(Transactions[call.block]) = k + Len(call.todo)
                /\ \A n \in 1 .. Len(call.todo) : call.todo[n] = Transactions[call.block][k + n]
        BY <2>1, <2>10 DEF BlockInline, HInv, InlineInv
      <4>3. Len(call.todo) \in Nat \ {0} /\ Head(call.todo) = call.todo[1]
        BY <2>1, <3>2 DEF CallInv
      <4>4. call.block \in Block
        BY <2>1, <2>10 DEF BlockInline, HInv, InlineInv
      <4>5. DOMAIN Transactions[call.block] = 1 .. Len(Transactions[call.block])
        BY <4>4, BlockBoxes
      <4>6. 1 \in 1 .. Len(call.todo) /\ k + 1 \in DOMAIN Transactions[call.block]
        <5>1. PICK i, j : i = Len(Transactions[call.block]) /\ j = Len(call.todo)
          OBVIOUS
        <5>2. i = k + j /\ j \in Nat \ {0}
          BY <4>2, <4>3, <5>1
        <5>3. 1 \in 1 .. j /\ k + 1 \in 1 .. i
          BY ONLY <5>2, k \in Nat
        <5> QED BY <4>5, <5>1, <5>3
      <4>7. Head(call.todo) \in ToSet(Transactions[call.block])
        BY <4>2, <4>3, <4>6 DEF ToSet
      <4>8. call.block \notin DOMAIN blocks
        BY <4>1, <4>7 DEF HasTransaction
      <4>9. call.block \notin ToSet(chain)
        BY <2>1, <4>8, ChainStored
      <4>10. call'.error = "ErrTransactionNotFound"
        BY <2>3, <4>1
      <4> QED BY <4>9, <4>10
    <3> QED BY <3>1, <3>2
  <2>11. CASE BlockTransaction
    <3>1. call.endpoint = "blockTransaction"
      BY <2>1, <2>11 DEF BlockTransaction, HInv, PlaceInv
    <3>2. CASE HasTransaction(call.id.hash, call.tx)
      <4>1. call'.error = call.error
        BY <2>1, <2>11, <3>2 DEF BlockTransaction, Answer, Proceed, Fields
      <4> QED BY <2>5, <2>11, <4>1 DEF BlockTransaction
    <3>3. CASE ~HasTransaction(call.id.hash, call.tx)
      <4>1. call'.error = "ErrTransactionNotFound" /\ call'.endpoint = "blockTransaction"
        BY <2>3, <2>11, <3>1, <3>3 DEF BlockTransaction
      <4> QED BY <4>1
    <3> QED BY <3>2, <3>3
  <2>12. CASE BalanceBlock
    <3>1. GetBlockLazy(call.id) = None /\ Refuse("ErrUnableToGetBalance")
      BY <1>1, <2>12 DEF BalanceBlock, Proceed
    <3>2. call'.error = "ErrUnableToGetBalance" /\ ~OnChain(call.id)
      BY <2>1, <2>3, <3>1, NotFound DEF CallInv
    <3> QED BY <3>2
  <2>13. CASE BalanceAmount
    <3>1. call'.error = call.error
      BY <2>1, <2>13 DEF BalanceAmount, Answer, Proceed, Fields
    <3> QED BY <2>5, <2>13, <3>1 DEF BalanceAmount
  <2>14. CASE AccountCoins
    <3>1. CASE chain = << >>
      <4>1. call'.error = "ErrUnableToGetCoins"
        BY <2>3, <2>14, <3>1 DEF AccountCoins
      <4> QED BY <3>1, <4>1
    <3>2. CASE chain # << >>
      <4>1. call'.error = call.error
        BY <2>1, <2>14, <3>2 DEF AccountCoins, Answer, Proceed, Fields
      <4> QED BY <2>5, <2>14, <4>1 DEF AccountCoins
    <3> QED BY <3>1, <3>2
  <2>15. CASE GetUnconfirmedTxs
    <3>1. at = "unconfirmed" /\ call.endpoint \in {"mempool", "mempoolTransaction"}
      BY <2>1, <2>15 DEF GetUnconfirmedTxs, HInv, PlaceInv
    <3>2. CASE NodeError
      BY <2>2, <2>4, <3>2
    <3>3. CASE ~NodeError
      <4>1. PICK listed \in {[call EXCEPT !.listed = S] : S \in SUBSET Submitted} :
                \/ Answer(listed) \/ Answer([listed EXCEPT !.error = "ErrTransactionNotFound"])
                \/ \E coins : Proceed("lookups", [listed EXCEPT !.lookups = coins])
        <5> PICK b \in Block : \E txs \in UNION {SetToSeqs(S) : S \in Unconfirmed(b)} :
                  LET listed == [call EXCEPT !.listed = ToSet(txs)] IN
                  IF call.endpoint = "mempool" THEN Answer(listed)
                  ELSE IF call.tx \notin ToSet(txs)
                  THEN Answer([listed EXCEPT !.error = "ErrTransactionNotFound"])
                  ELSE Proceed("lookups",
                           [listed EXCEPT !.lookups = {i.coin : i \in InputsForTxs(txs)}])
          BY <2>15, <3>3 DEF GetUnconfirmedTxs
        <5>1. PICK txs \in UNION {SetToSeqs(S) : S \in Unconfirmed(b)} :
                  LET listed == [call EXCEPT !.listed = ToSet(txs)] IN
                  IF call.endpoint = "mempool" THEN Answer(listed)
                  ELSE IF call.tx \notin ToSet(txs)
                  THEN Answer([listed EXCEPT !.error = "ErrTransactionNotFound"])
                  ELSE Proceed("lookups",
                           [listed EXCEPT !.lookups = {i.coin : i \in InputsForTxs(txs)}])
          OBVIOUS
        <5>2. PICK S \in SUBSET Submitted : txs \in SetToSeqs(S)
          BY DEF Unconfirmed
        <5>3. ToSet(txs) \in SUBSET Submitted
          BY <5>2, FS_Subset, ListOf, ServicesAssumption
        <5> QED BY <5>1, <5>3
      <4>2. call'.endpoint # "block" /\ call'.error \in {call.error, "ErrTransactionNotFound"}
        BY <1>1, <2>1, <3>1, <4>1 DEF Answer, Proceed, Fields
      <4>3. call.error = None
        BY <2>1, <3>1 DEF HInv, PlaceInv
      <4>4. CASE call'.error = None
        BY <2>2, <4>4
      <4>5. CASE call'.error = "ErrTransactionNotFound"
        BY <4>2, <4>5
      <4> QED BY <4>2, <4>3, <4>4, <4>5
    <3> QED BY <3>2, <3>3
  <2>16. CASE \E c \in Coin : FindMempoolCoin(c)
    BY <1>1, <2>16 DEF FindMempoolCoin, Proceed
  <2>17. CASE UNCHANGED at \/ at' = "idle"
    BY <1>1, <2>17
  <2>18. CASE StorageFails
    BY <2>1, <2>18 DEF StorageFails, Answer, Proceed, Fields
  <2> HIDE DEF Justified
  <2> QED
    BY <1>1, <2>6, <2>7, <2>8, <2>9, <2>10, <2>11, <2>12, <2>13, <2>14, <2>15, <2>16, <2>17,
       <2>18 DEF ServicesNext, HandlerStep, IndexerGoesOn, Crash, Written, servicesVars, handlerVars
<1>2. SInv /\ [ServicesNext]_servicesVars => [at # "done" /\ at' = "done" => Justified]_servicesVars
  BY <1>1
<1> QED BY <1>2, ServicesInductive, PTL DEF ServicesSpec, RefusalsJustified
=============================================================================
