------------------------------ MODULE Services ------------------------------
(***************************************************************************)
(* The Rosetta API (pkg/services): handlers that read the storage, in one  *)
(* or in several read transactions, and the Ergo node, while the indexer   *)
(* (Accounts) adds and removes blocks and the node's mempool changes.      *)
(* Handlers write nothing, so one request at a time shows all they can do. *)
(*                                                                         *)
(* A definition introduced by "Mistake:" is explained in Indexer.          *)
(***************************************************************************)
EXTENDS Accounts

CONSTANTS
    TxFetchLimit, \* txFetchLimit
    Submitted,    \* the transactions that users submit, the others are miners'
    MaxIndex      \* a bound: the largest index that a request names

\* The errors that handlers return; a call without an error has none of them
Errors == {"ErrUnavailableOffline", "ErrNotReady", "ErrErgoNode", "ErrBlockNotFound",
           "ErrTransactionNotFound", "ErrUnableToGetBalance", "ErrUnableToGetCoins"}

\* None is no error, and transactions, known by digests of 32 bytes, are finitely many.
ASSUME ServicesAssumption ==
    /\ TxFetchLimit \in Nat /\ MaxIndex \in Nat
    /\ Submitted \subseteq Tx /\ IsFiniteSet(Submitted)
    /\ None \notin Errors \cup {"panic"}

VARIABLES
    mode,   \* cfg.Mode
    at,     \* where the handler of the request is
    call,   \* the request and its handler's local variables
    view,   \* what the open read transaction of /account/balance shows
    steady  \* the coins that were in the storage ever since the request came

handlerVars == <<at, call, view>>
servicesVars == <<vars, mode, handlerVars, steady>>

\* types.PartialBlockIdentifier: neither, or one of the two; 0 for no index
PartialBlockIdentifier ==
    {id \in [index: 0 .. MaxIndex, hash: Block \cup {None}] :
        id.index = 0 \/ id.hash = None}
NoIdentifier == [index |-> 0, hash |-> None]

NoCall == [endpoint |-> None, id |-> NoIdentifier, account |-> None, tx |-> None,
           block |-> None, todo |-> << >>, ops |-> {}, amount |-> 0,
           listed |-> {}, lookups |-> {}, coins |-> NoCoins,
           nodeFailed |-> FALSE, readFailed |-> FALSE, error |-> None]
NoView == [chain |-> << >>, history |-> << >>]

\* The first step of every handler that does not answer at once (NewBlockchainRouter)
Handlers == [status             |-> "peers",
             options            |-> "info",
             block              |-> "lazy",
             blockTransaction   |-> "transaction",
             balance            |-> "balance",
             coins              |-> "coins",
             mempool            |-> "unconfirmed",
             mempoolTransaction |-> "unconfirmed"]

Requests ==
    LET To(endpoint) == [NoCall EXCEPT !.endpoint = endpoint] IN
         {To("list"), To("status"), To("options"), To("mempool")}
    \cup {[To("block") EXCEPT !.id = id] : id \in PartialBlockIdentifier}
    \cup {[To("coins") EXCEPT !.account = a] : a \in Account}
    \cup {[To("mempoolTransaction") EXCEPT !.tx = t] : t \in Submitted}
    \cup (UNION {{[To("balance") EXCEPT !.id = id, !.account = a] :
                     id \in PartialBlockIdentifier} : a \in Account})
    \cup (UNION {{[To("blockTransaction") EXCEPT !.id = [NoIdentifier EXCEPT !.hash = b], !.tx = t] :
                     b \in Block} : t \in Submitted})

ServicesInit ==
    /\ Init
    /\ mode \in {"online", "offline"}
    /\ at = "idle" /\ call = NoCall /\ view = NoView /\ steady = {}

-----------------------------------------------------------------------------
\* The handler goes on, answers, or answers with an error
Proceed(step, c) == at' = step /\ call' = c
Answer(c) == Proceed("done", c)
Refuse(err) == Answer([call EXCEPT !.error = err])

\* makeRequest: the node does not answer, or not with what can be decoded
NodeError == Answer([call EXCEPT !.error = "ErrErgoNode", !.nodeFailed = TRUE])

\* Mistake: nobody looks at the mode
AvailableAnyway(endpoint) == FALSE

\* The handlers that look at the mode: all but /network/list and /network/options
Unavailable(endpoint) ==
    mode = "offline" /\ endpoint \notin {"list", "options"}

\* A request comes in while no other is being handled
Receive(r) ==
    /\ at = "idle"
    /\ IF Unavailable(r.endpoint) THEN Answer([r EXCEPT !.error = "ErrUnavailableOffline"])
       ELSE IF r.endpoint = "list" THEN Answer(r)
       ELSE Proceed(Handlers[r.endpoint], r)
    /\ steady' = IF r.endpoint = "mempoolTransaction" THEN DOMAIN coinStore ELSE {}
    /\ UNCHANGED view

\* The answer is written
Written ==
    /\ at = "done"
    /\ at' = "idle" /\ call' = NoCall /\ view' = NoView /\ steady' = {}

-----------------------------------------------------------------------------
(***************************************************************************)
(* Reads of the block storage, each in a transaction of its own            *)
(***************************************************************************)
\* Mistake: heights are counted from zero
IndexedFromZero(n) == IF n + 1 \in DOMAIN chain THEN chain[n + 1] ELSE None

\* The block that was added at a height
Indexed(n) == IF n \in DOMAIN chain THEN chain[n] ELSE None

\* GetBlockLazy: by hash every block that was seen, by index an added one,
\* otherwise the head; None stands for its error.
GetBlockLazy(id) ==
    LET b == IF id.hash # None THEN id.hash
             ELSE Indexed(IF id.index # 0 THEN id.index ELSE Len(chain))
    IN  IF b \in DOMAIN blocks THEN b ELSE None

\* GetBlockTransaction finds a transaction of a stored block
HasTransaction(b, t) == b \in DOMAIN blocks /\ t \in ToSet(Transactions[b])
GetBlockTransaction(b, t) ==
    {op \in blocks[b].ops :
        op.coin \in IF op.action = "spent" THEN TxInputs[t] ELSE TxOutputs[t]}

\* /network/status asks the node for its peers, then the storage for the head
NetworkStatusPeers ==
    /\ at = "peers"
    /\ Proceed("head", call) \/ NodeError
    /\ UNCHANGED view

NetworkStatusHead ==
    /\ at = "head"
    /\ LET b == GetBlockLazy(NoIdentifier) IN
       IF b = None THEN Refuse("ErrNotReady") ELSE Answer([call EXCEPT !.block = b])
    /\ UNCHANGED view

\* /network/options asks the node for its version. Offline there is no client,
\* and the handler panics; the server drops the connection.
NetworkOptions ==
    /\ at = "info"
    /\ IF mode = "offline" THEN Refuse("panic") ELSE Answer(call) \/ NodeError
    /\ UNCHANGED view

\* /block: the block, and if there are not too many its transactions inline
BlockLazy ==
    /\ at = "lazy"
    /\ LET b == GetBlockLazy(call.id)
           found == [call EXCEPT !.block = b, !.todo = Transactions[b]]
       IN  IF b = None THEN Refuse("ErrBlockNotFound")
           ELSE IF Len(Transactions[b]) > TxFetchLimit THEN Answer(found)
           ELSE Proceed("inline", found)
    /\ UNCHANGED view

\* Mistake: a transaction that is not found is left out
MissingLeftOut == Proceed("inline", [call EXCEPT !.todo = Tail(@)])

MissingTransaction == Refuse("ErrTransactionNotFound")

BlockInline ==
    /\ at = "inline"
    /\ IF call.todo = << >> THEN Answer(call)
       ELSE IF HasTransaction(call.block, Head(call.todo))
       THEN Proceed("inline", [call EXCEPT
                !.todo = Tail(@),
                !.ops = @ \cup GetBlockTransaction(call.block, Head(call.todo))])
       ELSE MissingTransaction
    /\ UNCHANGED view

BlockTransaction ==
    /\ at = "transaction"
    /\ IF HasTransaction(call.id.hash, call.tx)
       THEN Answer([call EXCEPT !.block = call.id.hash,
                                !.ops = GetBlockTransaction(call.id.hash, call.tx)])
       ELSE Refuse("ErrTransactionNotFound")
    /\ UNCHANGED view

-----------------------------------------------------------------------------
(***************************************************************************)
(* /account                                                                *)
(***************************************************************************)
\* /account/balance opens a read transaction and looks the block up in it
BalanceBlock ==
    /\ at = "balance"
    /\ LET b == GetBlockLazy(call.id) IN
       IF b = None THEN Refuse("ErrUnableToGetBalance") /\ UNCHANGED view
       ELSE /\ Proceed("amount", [call EXCEPT !.block = b])
            /\ view' = [chain |-> chain, history |-> history]

\* Mistake: the balance is read in a transaction of its own
BalancesNow == history

\* The balances that the open read transaction shows
BalancesInView == view.history

\* then the account's last balance at or below the block's height; an account
\* that is missing has none, which is zero.
BalanceAmount ==
    /\ at = "amount"
    /\ LET n == Min({Height[call.block], Len(BalancesInView)}) IN
       Answer([call EXCEPT !.amount = BalancesInView[n][call.account]])
    /\ UNCHANGED view

\* /account/coins: GetCoins reads the account's coins and the head together
AccountCoins ==
    /\ at = "coins"
    /\ IF chain = << >> THEN Refuse("ErrUnableToGetCoins")
       ELSE Answer([call EXCEPT
                !.block = HeadBlock,
                !.coins = Without(coinStore,
                              {c \in DOMAIN coinStore : coinStore[c].account # call.account})])
    /\ UNCHANGED view

-----------------------------------------------------------------------------
(***************************************************************************)
(* /mempool                                                                *)
(***************************************************************************)
\* What the node may hold unconfirmed when its tip is b: transactions that are
\* not in conflict and spend what is unspent or created by one of them
Unconfirmed(b) ==
    {S \in SUBSET Submitted :
        /\ \A t \in S : TxInputs[t] \subseteq Unspent[b] \cup UNION {TxOutputs[u] : u \in S}
        /\ \A t, u \in S : t # u => TxInputs[t] \cap TxInputs[u] = {}}

\* GetUnconfirmedTxs, a list in some order. /mempool answers with it; for
\* /mempool/transaction the inputs of all listed transactions are needed.
GetUnconfirmedTxs ==
    /\ at = "unconfirmed"
    /\ \/ NodeError
       \/ \E b \in Block : \E txs \in UNION {SetToSeqs(S) : S \in Unconfirmed(b)} :
            LET listed == [call EXCEPT !.listed = ToSet(txs)] IN
            IF call.endpoint = "mempool" THEN Answer(listed)
            ELSE IF call.tx \notin ToSet(txs)
            THEN Answer([listed EXCEPT !.error = "ErrTransactionNotFound"])
            ELSE Proceed("lookups",
                     [listed EXCEPT !.lookups = {i.coin : i \in InputsForTxs(txs)}])
    /\ UNCHANGED view

\* Mistake: the first coin that is not found ends the search
SearchEnds(c) == [call EXCEPT !.lookups = {}]

\* A coin that is not found is passed over
NoSuchCoin(c) == [call EXCEPT !.lookups = @ \ {c}]

\* findCoinsForMempoolTx: every coin is looked up in a transaction of its own
FindMempoolCoin(c) ==
    /\ at = "lookups" /\ c \in call.lookups
    /\ Proceed("lookups",
           IF c \in DOMAIN coinStore
           THEN [call EXCEPT !.lookups = @ \ {c}, !.coins = With(@, c, coinStore[c])]
           ELSE NoSuchCoin(c))
    /\ UNCHANGED view

\* TxToRosettaTx with the coins found; the addresses come from the node
ConvertMempoolTx ==
    /\ at = "lookups" /\ call.lookups = {}
    /\ IF ~(TxInputs[call.tx] \subseteq DOMAIN call.coins) THEN Refuse("ErrErgoNode")
       ELSE \/ Answer([call EXCEPT !.ops = TxToRosettaTx(call.tx, call.coins)])
            \/ NodeError
    /\ UNCHANGED view

-----------------------------------------------------------------------------
\* The error of a handler whose read of the storage fails, by where it reads
ReadErrors == [head        |-> "ErrNotReady",
               lazy        |-> "ErrBlockNotFound",
               inline      |-> "ErrTransactionNotFound",
               transaction |-> "ErrTransactionNotFound",
               balance     |-> "ErrUnableToGetBalance",
               amount      |-> "ErrUnableToGetBalance",
               coins       |-> "ErrUnableToGetCoins",
               lookups     |-> "ErrUnableToGetCoins"]

\* A read of the storage fails for another reason than that nothing is found
StorageFails ==
    /\ at \in DOMAIN ReadErrors
    /\ at = "inline" => call.todo # << >>
    /\ at = "lookups" => call.lookups # {}
    /\ Answer([call EXCEPT !.error = ReadErrors[at], !.readFailed = TRUE])
    /\ UNCHANGED view

HandlerStep ==
    \/ NetworkStatusPeers \/ NetworkStatusHead \/ NetworkOptions
    \/ BlockLazy \/ BlockInline \/ BlockTransaction
    \/ BalanceBlock \/ BalanceAmount \/ AccountCoins
    \/ GetUnconfirmedTxs \/ ConvertMempoolTx \/ \E c \in Coin : FindMempoolCoin(c)
    \/ StorageFails

\* Requests and handlers run beside an indexer, which offline is not started
IndexerGoesOn ==
    /\ mode = "online" /\ IndexerStep
    /\ steady' = steady \cap DOMAIN coinStore'
    /\ UNCHANGED <<mode, handlerVars>>

\* A crash drops the requests too
Crash ==
    /\ mode = "online" /\ Restart
    /\ at' = "idle" /\ call' = NoCall /\ view' = NoView /\ steady' = {}
    /\ UNCHANGED mode

ServicesNext ==
    \/ IndexerGoesOn \/ Crash
    \/ (\E r \in Requests : Receive(r)) /\ UNCHANGED <<vars, mode>>
    \/ HandlerStep /\ UNCHANGED <<vars, mode, steady>>
    \/ Written /\ UNCHANGED <<vars, mode>>

ServicesSpec == ServicesInit /\ [][ServicesNext]_servicesVars

-----------------------------------------------------------------------------
(***************************************************************************)
(* Properties                                                              *)
(***************************************************************************)
Answered(endpoint) == at = "done" /\ call.endpoint = endpoint /\ call.error = None

\* Every variable keeps its type, and no handler but those of /network/list and
\* /network/options goes beyond its look at the mode when it is offline.
ServicesTypeOK ==
    /\ TypeOK
    /\ mode \in {"online", "offline"}
    /\ at \in {"idle", "head", "inline", "amount", "lookups", "done"}
                  \cup {Handlers[e] : e \in DOMAIN Handlers}
    /\ call.block \in Block \cup {None} /\ call.todo \in Seq(Tx) /\ call.amount \in Nat
    /\ call.ops \subseteq Operation /\ call.listed \subseteq Submitted
    /\ call.lookups \subseteq Coin /\ DOMAIN call.coins \subseteq Coin
    /\ view.chain \in Seq(Block) /\ steady \subseteq Coin
    /\ mode = "offline" => at \in {"idle", "info", "done"}

\* A balance is that of the block the answer names, if the block was on the chain
\* when the handler opened its transaction, and coins are those unspent after the
\* block the answer names, however many blocks come and go meanwhile
\* (account.go:105-141, 76-103).
AccountsAnswerTheirBlock ==
    LET owned == {c \in Unspent[call.block] : Owner[c] = call.account} IN
    /\ Answered("balance") /\ call.block \in ToSet(view.chain)
           => call.amount = TotalValue(owned)
    /\ Answered("coins") => DOMAIN call.coins = owned

Unsigned(ops) == {[op EXCEPT !.amount = IF @ < 0 THEN -@ ELSE @] : op \in ops}
TrueOperations(txs) ==
    UNION {Unsigned({InputToRosettaOp(c, [account |-> Owner[c], amount |-> Value[c]]) :
                         c \in TxInputs[t]})
           \cup {OutputToRosettaOp(c) : c \in TxOutputs[t]} : t \in txs}

\* A transaction that is answered has an operation for each of its boxes, with
\* owner and value of the box, and a block that is answered all its transactions,
\* although each was read by itself, or none but their ids; signs apart, on which
\* see ServedInputsNegative (block.go:44-71, mempool.go:84-102).
TransactionsServedWhole ==
    /\ Answered("block") =>
           IF call.todo = << >>
           THEN Unsigned(call.ops) = TrueOperations(ToSet(Transactions[call.block]))
           ELSE call.ops = {} /\ call.todo = Transactions[call.block]
    /\ Answered("blockTransaction") \/ Answered("mempoolTransaction") =>
           Unsigned(call.ops) = TrueOperations({call.tx})

\* Unless a read fails, a client is only refused what the storage does not have at
\* that moment: the head when there is none, a block that is not on the chain, a
\* transaction of a block that left it (block.go:44-65, network.go:80-83,
\* account.go:50-61).
OnChain(id) ==
    IF id.hash # None THEN id.hash \in ToSet(chain)
    ELSE chain # << >> /\ id.index <= Len(chain)
RefusalsJustified ==
    [][at # "done" /\ at' = "done" /\ ~call'.readFailed =>
         /\ call'.error \in {"ErrNotReady", "ErrUnableToGetCoins"} => chain = << >>
         /\ call'.error \in {"ErrBlockNotFound", "ErrUnableToGetBalance"} => ~OnChain(call.id)
         /\ call'.error = "ErrTransactionNotFound" /\ call'.endpoint = "block"
                => call.block \notin ToSet(chain)]_servicesVars

\* A listed transaction is refused, with the node answering, only because one of
\* its coins was not in the storage throughout the request (it left or came since,
\* or was never there, as with an indexer behind the node), or is created by a
\* transaction of the list (mempool.go:71-96, 106-143).
MempoolRefusedForCause ==
    at = "done" /\ call.endpoint = "mempoolTransaction" /\ call.error = "ErrErgoNode" =>
        \/ call.nodeFailed
        \/ \E c \in TxInputs[call.tx] :
               c \notin steady \/ \E t \in call.listed : c \in TxOutputs[t]

\* "ErrErgoNode is returned when ergo node errors on a request." (errutil.go:52-53)
NodeErrorsAreTheNodes == call.error = "ErrErgoNode" => call.nodeFailed

\* "ErrUnavailableOffline is returned when an endpoint is called that is not
\* available offline." (errutil.go:37-38)
OfflineIsSaid == call.error # "panic"
=============================================================================
