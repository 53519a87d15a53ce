------------------------------ MODULE Accounts ------------------------------
(***************************************************************************)
(* What the indexer stores of amounts: the coins with their owners, the    *)
(* balances at every height, and the blocks that /block serves.  Amounts   *)
(* flow from the bootstrap files and the node's blocks through coin        *)
(* storage, cache and conversion into operations and back, and when a      *)
(* block is removed its stored operations are undone.                      *)
(*                                                                         *)
(* Coordination is reduced to what decides which copy of a coin a fetch    *)
(* gets: a coin is looked up when the coin storage or the cache has it     *)
(* (Indexer models how a fetcher comes to wait for that), and any head but *)
(* the genesis block may be removed at any time.                           *)
(*                                                                         *)
(* A definition introduced by "Mistake:" is explained in Indexer.          *)
(***************************************************************************)
EXTENDS Conversion

CONSTANT BootstrapBalances  \* the configured balances before the genesis block

\* The two files of a network agree: the configured balance of an account is
\* the value of its boxes among the genesis ones (pkg/config/mainnet, testnet).
ASSUME BootstrapAssumption ==
    BootstrapBalances = [a \in Account |-> TotalValue({c \in GenesisCoins : Owner[c] = a})]

VARIABLES
    phase,     \* Sync: bootstrapping balances, then coins, then syncing
    chain,     \* storage: the added blocks, oldest first
    coinStore, \* storage: a partial function from Coin to AccountCoin
    history,   \* storage: the balances of all accounts at every height
    blocks,    \* storage: the blocks seen, a partial function on Block
    coinCache, \* coins of seen blocks, a partial function from Coin
    fetches,   \* the coins found so far for each block being fetched
    results,   \* the blocks seen and not yet added, as they are in memory
    failed     \* the syncer ended with an error

storageVars == <<chain, coinStore, history, blocks>>
memoryVars == <<coinCache, fetches, results>>
vars == <<phase, storageVars, memoryVars, failed>>

NoCoins == CoinsOf({}, "created")
HeadBlock == chain[Len(chain)]
\* The height at which the next block finds the present balances: that of the
\* head, and for the genesis block its own, where bootstrapBalances put them
BalanceHeight == IF chain = << >> THEN 1 ELSE Len(chain)

Init ==
    /\ phase = "balances"
    /\ chain = << >> /\ coinStore = NoCoins /\ blocks = << >>
    /\ history = << [a \in Account |-> 0] >>
    /\ coinCache = NoCoins /\ fetches = << >> /\ results = << >>
    /\ failed = FALSE

-----------------------------------------------------------------------------
\* bootstrapBalances: one transaction sets the balances at the genesis height
bootstrapBalances ==
    /\ phase = "balances"
    /\ history' = [history EXCEPT ![1] = BootstrapBalances]
    /\ phase' = "coins"
    /\ UNCHANGED <<chain, coinStore, blocks, memoryVars, failed>>

\* SetCoinsImported, in a transaction of its own; coins it has are left alone
ImportGenesisCoins ==
    /\ phase = "coins"
    /\ coinStore' = Over(coinStore,
           [c \in GenesisCoins |-> [account |-> Owner[c], amount |-> Value[c]]])
    /\ phase' = "sync"
    /\ UNCHANGED <<chain, history, blocks, memoryVars, failed>>

\* A fetch of a block that the chain has no block in the place of
Fetch(b) ==
    /\ phase = "sync" /\ ~failed
    /\ b \notin DOMAIN fetches \cup DOMAIN results
    /\ Height[b] > Len(chain)
    /\ fetches' = With(fetches, b, NoCoins)
    /\ UNCHANGED <<phase, storageVars, coinCache, results, failed>>

Required(b) == {i.coin : i \in InputsForTxs(Transactions[b])}

\* findCoin: in the coin storage; or in the cache, when it was not in the coin
\* storage a moment ago.  Before there is a head only the genesis block looks.
FindCoin(b, c) ==
    /\ ~failed
    /\ chain # << >> \/ b = Genesis
    /\ c \in Required(b) \ DOMAIN fetches[b]
    /\ \E found \in {f[c] : f \in {g \in {coinStore, coinCache} : c \in DOMAIN g}} :
           fetches' = [fetches EXCEPT ![b] = With(@, c, found)]
    /\ UNCHANGED <<phase, storageVars, coinCache, results, failed>>

\* Mistake: the coins a block spends are cached as well
AllCoinsSeen(ops) == Over(CoinsOf(ops, "created"), CoinsOf(ops, "spent"))

CoinsSeen(ops) == CoinsOf(ops, "created")

\* All coins found: the block is converted and seen.  The storage keeps its
\* first copy of a block, the syncer works with this one.
BlockSeen(b) ==
    LET block == BlockToRosettaBlock(b, fetches[b]) IN
    /\ ~failed /\ Required(b) \subseteq DOMAIN fetches[b]
    /\ fetches' = Without(fetches, {b})
    /\ IF block.err
       THEN failed' = TRUE /\ UNCHANGED <<blocks, coinCache, results>>
       ELSE /\ coinCache' = Over(CoinsSeen(block.ops), coinCache)
            /\ blocks' = Over(blocks, [x \in {b} |-> block])
            /\ results' = With(results, b, block)
            /\ UNCHANGED failed
    /\ UNCHANGED <<phase, chain, coinStore, history>>

\* Mistake: inputs are believed to be negative
InputsAsConverted(ops) == ops

\* Inputs with a positive amount are negated, in the syncer's copy only
ensureNegativeValueInputs(ops) ==
    {IF op.action = "spent" /\ op.amount > 0 THEN [op EXCEPT !.amount = -@] ELSE op
        : op \in ops}

\* Mistake: coins that a block creates and spends are not left out
CoinsWithIntraBlock(ops, gone, new) ==
    Over(CoinsOf(ops, new), Without(coinStore, DOMAIN CoinsOf(ops, gone)))

\* The coin storage drops the coins of one action and takes those of the other,
\* but for coins that have both: AddingBlock and RemovingBlock.
CoinsAfter(ops, gone, new) ==
    LET lost == DOMAIN CoinsOf(ops, gone)
    IN  Over(Without(CoinsOf(ops, new), lost), Without(coinStore, lost))

\* Mistake: balances are kept at the height of the block before
HistoryAtHead(balances) == [history EXCEPT ![BalanceHeight] = balances]

\* Balances are kept at the height of the block that changed them
HistoryAfter(balances) ==
    [n \in 1 .. Len(chain) + 1 |-> IF n = Len(chain) + 1 THEN balances ELSE history[n]]

\* BlockAdded: one transaction for head, coins and balances, which fails if a
\* balance would become negative; then the coins leave the cache.
BlockAdded(b) ==
    LET ops == ensureNegativeValueInputs(results[b].ops)
        balances == [a \in Account |-> history[BalanceHeight][a] + BalanceChange(ops, a)]
    IN
    /\ ~failed
    /\ IF chain = << >> THEN b = Genesis ELSE b # Genesis /\ results[b].parent = HeadBlock
    /\ IF \E a \in Account : balances[a] < 0
       THEN failed' = TRUE /\ UNCHANGED <<chain, coinStore, history, coinCache, results>>
       ELSE /\ chain' = Append(chain, b)
            /\ coinStore' = CoinsAfter(ops, "spent", "created")
            /\ history' = HistoryAfter(balances)
            /\ coinCache' = Without(coinCache, DOMAIN CoinsOf(ops, "created"))
            /\ results' = Without(results, {b})
            /\ UNCHANGED failed
    /\ UNCHANGED <<phase, blocks, fetches>>

\* BlockRemoved: the operations of the stored copy are undone, the balances of
\* that height dropped and the copy deleted.
BlockRemoved ==
    /\ ~failed /\ Len(chain) > 1 /\ HeadBlock \in DOMAIN blocks
    /\ chain' = SubSeq(chain, 1, Len(chain) - 1)
    /\ coinStore' = CoinsAfter(blocks[HeadBlock].ops, "created", "spent")
    /\ history' = SubSeq(history, 1, Len(chain) - 1)
    /\ blocks' = Without(blocks, {HeadBlock})
    /\ UNCHANGED <<phase, memoryVars, failed>>

\* Mistake: every start bootstraps
AlwaysFirstRun == TRUE

\* There is no head block to read
FirstRun == chain = << >>

\* A crash, and Sync from its start
Restart ==
    /\ phase' = IF FirstRun THEN "balances" ELSE "sync"
    /\ coinCache' = NoCoins /\ fetches' = << >> /\ results' = << >>
    /\ UNCHANGED <<storageVars, failed>>

\* A step of the indexer and the syncer
IndexerStep ==
    \/ bootstrapBalances \/ ImportGenesisCoins \/ BlockRemoved
    \/ \E b \in Block : Fetch(b)
    \/ \E b \in DOMAIN fetches : BlockSeen(b) \/ \E c \in Coin : FindCoin(b, c)
    \/ \E b \in DOMAIN results : BlockAdded(b)

Next == IndexerStep \/ Restart

Spec == Init /\ [][Next]_vars

-----------------------------------------------------------------------------
(***************************************************************************)
(* Properties                                                              *)
(***************************************************************************)
UnspentAfter(n) == IF n = 0 THEN GenesisCoins ELSE Unspent[chain[n]]

\* Every variable keeps its type, and there are balances for every height.
TypeOK ==
    /\ phase \in {"balances", "coins", "sync"} /\ failed \in BOOLEAN
    /\ chain \in Seq(Block)
    /\ \A f \in {coinStore, coinCache} \cup {fetches[b] : b \in DOMAIN fetches} :
           DOMAIN f \subseteq Coin /\ f \in [DOMAIN f -> AccountCoin]
    /\ history \in [1 .. BalanceHeight -> [Account -> Nat]]
    /\ \A b \in DOMAIN blocks \cup DOMAIN results \cup DOMAIN fetches : b \in Block
    /\ \A f \in {blocks, results} : \A b \in DOMAIN f : f[b].ops \subseteq Operation

\* The balance of an account at any stored height is the value of the boxes it
\* owned unspent after that block: bootstrapping, the running sum of positive
\* and negative amounts, removals and crashes agree with the coins
\* (indexer.go:645-668, 695-744; account.go:105-141).
HistoryIsUnspentValue ==
    phase = "sync" => \A n \in 1 .. BalanceHeight, a \in Account :
        history[n][a] = TotalValue({c \in UnspentAfter(IF chain = << >> THEN 0 ELSE n) :
                                       Owner[c] = a})

\* No block fails to convert for want of an input, and none makes a balance
\* negative (converter.go:217-229, indexer.go:250-263).
BlocksNeverFail == ~failed

\* Wherever a coin is found it is one of its owner and of its value, if not of
\* its sign; in the cache its amount is positive (indexer.go:358-369).
CoinsKeepOwnerAndValue ==
    /\ \A c \in DOMAIN coinStore :
           /\ coinStore[c].account = Owner[c]
           /\ coinStore[c].amount \in {Value[c], -Value[c]}
    /\ \A c \in DOMAIN coinCache :
           coinCache[c] = [account |-> Owner[c], amount |-> Value[c]]

\* Undone and redone through their operations, the stored coins are a ledger.
\* Until the genesis coins are imported it is the configured ones that count.
Storage == INSTANCE Ledger WITH
               chain <- chain,
               coins <- DOMAIN coinStore \cup IF chain = << >> THEN GenesisCoins ELSE {}
CoinsAreLedger == Storage!Spec

\* The inputs of a block that /block serves have negative amounts.  BlockAdded
\* ensures "negative value inputs" (indexer.go:250-253) and "Stores the block
\* Hash/Index only. `BlockSeen` adds the actual block to storage." (indexer.go:247)
ServedInputsNegative ==
    \A n \in DOMAIN chain : chain[n] \in DOMAIN blocks =>
        \A op \in blocks[chain[n]].ops : op.action = "spent" => op.amount < 0
=============================================================================
