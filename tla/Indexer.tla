------------------------------- MODULE Indexer -------------------------------
(***************************************************************************)
(* The block indexer of pkg/indexer, driven by the syncer of               *)
(* rosetta-sdk-go.  Several workers fetch blocks concurrently and resolve  *)
(* the coins their blocks spend from the coin storage, from the cache of   *)
(* coins of blocks that were seen and not yet added, or by waiting in the  *)
(* wait table.  One sequencer adds and removes blocks in index order; in a *)
(* reorg it also fetches blocks itself.  The node may switch to a longer   *)
(* chain at any time and the indexer may crash and restart.                *)
(*                                                                         *)
(* Every critical section under waiter.lock, coinCacheMutex or a database  *)
(* transaction is one step; everything a fetcher does between two of them  *)
(* is interleaved with everything the others do.                           *)
(*                                                                         *)
(* A definition introduced by "Mistake:" is a way to get the next one      *)
(* wrong; nothing uses it, and some property fails if it takes its place.  *)
(***************************************************************************)
EXTENDS Chain, Sequences, FiniteSets

CONSTANTS
    Worker, Sequencer, \* the syncer's fetch goroutines, and its sequencer
    NumCPU,            \* weight of seenSemaphore
    MaxRestarts,       \* bound on the crashes of a behaviour
    OrphanHead         \* the result syncer.ErrOrphanHead of a fetch

ASSUME FetchersAssumption ==
    /\ IsFiniteSet(Worker) /\ Sequencer \notin Worker
    /\ NumCPU \in Nat \ {0} /\ MaxRestarts \in Nat
    /\ OrphanHead \notin Block

Fetcher == Worker \cup {Sequencer}
Index == Nat \ {0}
NotInReorg == -1

-----------------------------------------------------------------------------
VARIABLES
    nodeTip,      \* head of the node's best chain
    chain,        \* storage: the added blocks, oldest first
    coins,        \* storage: the unspent coins
    stored,       \* storage: the blocks that /block can serve
    coinCache,    \* coins of seen blocks that are not yet added
    seenMoved,    \* the fetchers for which i.seen differs from their startSeen
    waiter,       \* wait table: a partial function from Tx to entries
    waiterLocked, \* waiter.lock is held by a call that has returned
    nextIndex,    \* index the sequencer must process next
    rangeEnd,     \* last index of the range being synced
    nextFetch,    \* next index handed to a worker
    results,      \* fetched results the sequencer has not processed
    reorgStart,   \* highest index to refetch in a reorg, or NotInReorg
    syncerPc,     \* where the sequencer is in BlockAdded
    pc, job,      \* where each fetcher is, and its local variables
    restarts

storageVars == <<chain, coins, stored>>
waitVars    == <<waiter, waiterLocked>>
syncVars    == <<nextIndex, rangeEnd, nextFetch, reorgStart, syncerPc>>
vars == <<nodeTip, storageVars, coinCache, seenMoved, waitVars, syncVars,
          results, pc, job, restarts>>

Entry == [listeners: Nat, closed: BOOLEAN, aborted: BOOLEAN, earliest: Index]
Job == [index: Nat, block: Block \cup {None}, input: TxCoin \cup {None},
        todo: SUBSET TxCoin, remaining: SUBSET TxCoin,
        listening: SUBSET TxCoin, abort: BOOLEAN, head: Block \cup {None}]
NoEntries == [k \in {} |-> None]
NoJob == [index |-> 0, block |-> None, input |-> None, todo |-> {},
          remaining |-> {}, listening |-> {}, abort |-> FALSE, head |-> None]
Result == [index: Nat, block: Block \cup {OrphanHead}]
PC == {"idle", "fetch", "check", "find", "snapshot", "cache", "lock", "wait",
       "see", "count", "store", "wake", "failed"}

\* GetHeadBlockIdentifier: None stands for ErrHeadBlockNotFound
HeadBlock == IF chain = << >> THEN None ELSE chain[Len(chain)]

\* A fetcher's next step, and its local variables after this one
Goto(f, p) == pc' = [pc EXCEPT ![f] = p]
SetJob(f, j) == job' = [job EXCEPT ![f] = j]

\* A new fetch of an index, at its first step
Fetching(f, i) ==
    /\ Goto(f, "fetch")
    /\ SetJob(f, [NoJob EXCEPT !.index = i])

\* The result of a fetch goes to the sequencer and the fetcher takes no part
\* until it is given another index
Deliver(f, b) ==
    /\ results' = results \cup {[index |-> job[f].index, block |-> b]}
    /\ Goto(f, "idle")
    /\ SetJob(f, NoJob)

\* Any error but ErrOrphanHead ends the syncer
Fail(f) == Goto(f, "failed")

-----------------------------------------------------------------------------
(***************************************************************************)
(* A fetch: Indexer.Block, then Indexer.BlockSeen                          *)
(***************************************************************************)

\* getBlockByIdentifier: the node answers with the block its best chain has at
\* that height now; it may be another one when the block is used.
FetchBlock(f) ==
    /\ pc[f] = "fetch"
    /\ \E b \in Branch[nodeTip] \cap Block :
         /\ Height[b] = job[f].index
         /\ SetJob(f, [job[f] EXCEPT !.block = b, !.todo = GetInputsForTxs(b)])
    /\ Goto(f, "check")
    /\ UNCHANGED <<nodeTip, storageVars, coinCache, seenMoved, waitVars,
                   syncVars, results, restarts>>

\* Mistake: no block is an orphan
NeverDisconnected(b) == FALSE

\* checkHeaderMatch: the head became another one than the block's parent
Disconnected(b) ==
    HeadBlock # None /\ Height[b] = Height[HeadBlock] + 1 /\ Parent[b] # HeadBlock

CheckHeaderMatch(f) ==
    /\ pc[f] = "check"
    /\ IF Disconnected(job[f].block)
       THEN Deliver(f, OrphanHead)
       ELSE /\ Goto(f, "find")
            /\ UNCHANGED <<job, results>>
    /\ UNCHANGED <<nodeTip, storageVars, coinCache, seenMoved, waitVars,
                   syncVars, restarts>>

\* The loop of findCoins over the inputs: the next input, in any order, and the
\* read of i.seen that opens every attempt of findCoin; after the last input,
\* wait for those that were missing or convert the block.
FindCoins(f) ==
    /\ pc[f] = "find"
    /\ IF job[f].todo = {}
       THEN /\ Goto(f, IF job[f].remaining = {} THEN "see" ELSE "wait")
            /\ UNCHANGED <<job, seenMoved>>
       ELSE /\ \E in \in job[f].todo : SetJob(f, [job[f] EXCEPT !.input = in])
            /\ seenMoved' = seenMoved \ {f}
            /\ Goto(f, "snapshot")
    /\ UNCHANGED <<nodeTip, storageVars, coinCache, waitVars, syncVars,
                   results, restarts>>

\* findCoin found the coin of its input
Found(f) ==
    /\ SetJob(f, [job[f] EXCEPT !.todo = @ \ {job[f].input},
                                         !.input = None, !.head = None])
    /\ Goto(f, "find")

\* findCoin tries again, from the read of i.seen
Retry(f) ==
    /\ SetJob(f, [job[f] EXCEPT !.input = None, !.head = None])
    /\ Goto(f, "find")

\* Mistake: nobody may look a coin up before there is a head block
NoExemption(b) == HeadBlock = None

\* Without a head only the genesis block may look a coin up
TooEarly(b) == HeadBlock = None /\ b # Genesis

\* One read transaction: the head block and the coin.  A fetcher that is too
\* early sleeps and tries again.
Snapshot(f) ==
    /\ pc[f] = "snapshot"
    /\ IF TooEarly(job[f].block) THEN Retry(f)
       ELSE IF job[f].input.coin \in coins THEN Found(f)
       ELSE /\ SetJob(f, [job[f] EXCEPT !.head = HeadBlock])
            /\ Goto(f, "cache")
    /\ UNCHANGED <<nodeTip, storageVars, coinCache, seenMoved, waitVars,
                   syncVars, results, restarts>>

LookUpCache(f) ==
    /\ pc[f] = "cache"
    /\ IF job[f].input.coin \in coinCache
       THEN Found(f)
       ELSE Goto(f, "lock") /\ UNCHANGED job
    /\ UNCHANGED <<nodeTip, storageVars, coinCache, seenMoved, waitVars,
                   syncVars, results, restarts>>

\* Mistake: an entry that was closed is replaced by a new one
ListenAfresh(k, h) ==
    [x \in DOMAIN waiter \cup {k} |->
        IF x # k THEN waiter[x]
        ELSE IF k \in DOMAIN waiter /\ ~waiter[k].closed
        THEN [waiter[k] EXCEPT !.listeners = @ + 1, !.earliest = IF @ > h THEN h ELSE @]
        ELSE [listeners |-> 1, closed |-> FALSE, aborted |-> FALSE, earliest |-> h]]

\* One more listener of an entry, created if there is none
Listen(k, h) ==
    LET old == IF k \in DOMAIN waiter THEN waiter[k]
               ELSE [listeners |-> 0, closed |-> FALSE, aborted |-> FALSE, earliest |-> h]
    IN  [x \in DOMAIN waiter \cup {k} |->
            IF x = k
            THEN [old EXCEPT !.listeners = @ + 1,
                             !.earliest = IF @ > h THEN h ELSE @]
            ELSE waiter[x]]

\* Mistake: nothing to look at again
NeverMoved(f) == FALSE

\* The head changed or a block was seen since the fetcher looked for its coin
Moved(f) == HeadBlock # job[f].head \/ f \in seenMoved

\* Under waiter.lock: look again if something moved, else put the transaction of
\* the input, the one that spends it, in the wait table.
RegisterListener(f) ==
    LET in == job[f].input IN
    /\ pc[f] = "lock" /\ ~waiterLocked
    /\ IF HeadBlock = None THEN Fail(f) /\ UNCHANGED <<job, waiter>>
       ELSE IF Moved(f) THEN Retry(f) /\ UNCHANGED waiter
       ELSE /\ waiter' = Listen(in.tx, Height[job[f].block])
            /\ SetJob(f, [job[f] EXCEPT !.todo = @ \ {in},
                                                 !.remaining = @ \cup {in},
                                                 !.listening = @ \cup {in},
                                                 !.input = None, !.head = None])
            /\ Goto(f, "find")
    /\ UNCHANGED <<nodeTip, storageVars, coinCache, seenMoved, waiterLocked,
                   syncVars, results, restarts>>

\* Mistake: the last listener leaves the entry behind
LeaveKeepingEntry(k) == [waiter EXCEPT ![k].listeners = @ - 1]

\* Mistake: the first listener to go deletes the entry
LeaveAlwaysDeleting(k) == [x \in DOMAIN waiter \ {k} |-> waiter[x]]

\* One listener less; the last one deletes the entry
Leave(k) ==
    IF waiter[k].listeners = 1
    THEN [x \in DOMAIN waiter \ {k} |-> waiter[x]]
    ELSE [waiter EXCEPT ![k].listeners = @ - 1]

\* An entry the fetcher waits on was closed: give the registration up under
\* waiter.lock.  The early return for a missing entry keeps the lock.
StopListening(f) ==
    /\ pc[f] = "wait" /\ ~waiterLocked
    /\ \E in \in job[f].listening :
         IF in.tx \in DOMAIN waiter
         THEN /\ waiter[in.tx].closed
              /\ waiter' = Leave(in.tx)
              /\ SetJob(f, [job[f] EXCEPT
                            !.listening = @ \ {in},
                            !.abort = @ \/ waiter[in.tx].aborted])
              /\ UNCHANGED <<pc, waiterLocked>>
         ELSE Fail(f) /\ waiterLocked' = TRUE /\ UNCHANGED <<waiter, job>>
    /\ UNCHANGED <<nodeTip, storageVars, coinCache, seenMoved, syncVars,
                   results, restarts>>

\* All registrations given up: report an orphan if one was aborted, else look
\* for the missing coins again (the recursive call of findCoins).
WaitDone(f) ==
    /\ pc[f] = "wait" /\ job[f].listening = {}
    /\ IF job[f].abort
       THEN Deliver(f, OrphanHead)
       ELSE /\ SetJob(f, [job[f] EXCEPT !.todo = job[f].remaining, !.remaining = {}])
            /\ Goto(f, "check")
            /\ UNCHANGED results
    /\ UNCHANGED <<nodeTip, storageVars, coinCache, seenMoved, waitVars,
                   syncVars, restarts>>

\* BlockSeen takes the semaphore and adds the created coins to the cache
SeeCoins(f) ==
    /\ pc[f] = "see"
    /\ Cardinality({g \in Fetcher : pc[g] \in {"count", "store", "wake"}}) < NumCPU
    /\ coinCache' = coinCache \cup Creates(job[f].block)
    /\ Goto(f, "count")
    /\ UNCHANGED <<nodeTip, storageVars, seenMoved, waitVars, syncVars,
                   results, job, restarts>>

\* i.seen++
CountSeen(f) ==
    /\ pc[f] = "count"
    /\ seenMoved' = Fetcher
    /\ Goto(f, "store")
    /\ UNCHANGED <<nodeTip, storageVars, coinCache, waitVars, syncVars,
                   results, job, restarts>>

\* Mistake: a height has room for one seen block
StoredPerHeight(b) ==
    IF \E a \in stored : Height[a] = Height[b] THEN stored ELSE stored \cup {b}

\* Blocks are stored under their hash
StoredWith(b) == stored \cup {b}

\* blockStorage.SeeBlock
StoreSeen(f) ==
    /\ pc[f] = "store"
    /\ stored' = StoredWith(job[f].block)
    /\ Goto(f, "wake")
    /\ UNCHANGED <<nodeTip, chain, coins, coinCache, seenMoved, waitVars,
                   syncVars, results, job, restarts>>

\* Close the open entries of the block's transactions, release the semaphore
\* and hand the block to the sequencer.
WakeListeners(f) ==
    /\ pc[f] = "wake" /\ ~waiterLocked
    /\ waiter' = [k \in DOMAIN waiter |->
                    IF k \in TxsOf(job[f].block) THEN [waiter[k] EXCEPT !.closed = TRUE]
                    ELSE waiter[k]]
    /\ Deliver(f, job[f].block)
    /\ UNCHANGED <<nodeTip, storageVars, coinCache, seenMoved, waiterLocked,
                   syncVars, restarts>>

FetcherStep(f) ==
    \/ FetchBlock(f) \/ CheckHeaderMatch(f) \/ FindCoins(f) \/ Snapshot(f)
    \/ LookUpCache(f) \/ RegisterListener(f) \/ StopListening(f) \/ WaitDone(f)
    \/ SeeCoins(f) \/ CountSeen(f) \/ StoreSeen(f) \/ WakeListeners(f)

-----------------------------------------------------------------------------
(***************************************************************************)
(* The syncer, and the handlers BlockAdded and BlockRemoved                *)
(***************************************************************************)
Processing == syncerPc = "process" /\ pc[Sequencer] = "idle"
HasNext == \E r \in results : r.index = nextIndex

\* The index of the node's latest header
NetworkStatus == Height[nodeTip]

\* A new range, from the next index to the node's tip, when the workers of the
\* last one have ended and the sequencer has processed what it could.
StartRange ==
    /\ Processing /\ ~HasNext /\ reorgStart < nextIndex
    /\ nextFetch > rangeEnd /\ \A w \in Worker : pc[w] = "idle"
    /\ nextIndex <= NetworkStatus
    /\ rangeEnd' = NetworkStatus /\ nextFetch' = nextIndex
    /\ results' = {} /\ reorgStart' = NotInReorg
    /\ UNCHANGED <<nodeTip, storageVars, coinCache, seenMoved, waitVars,
                   nextIndex, syncerPc, pc, job, restarts>>

\* A free worker takes the next index of the range
TakeIndex(w) ==
    /\ pc[w] = "idle" /\ nextFetch <= rangeEnd
    /\ Fetching(w, nextFetch)
    /\ nextFetch' = nextFetch + 1
    /\ UNCHANGED <<nodeTip, storageVars, coinCache, seenMoved, waitVars, nextIndex,
                   rangeEnd, reorgStart, syncerPc, results, restarts>>

\* In a reorg the sequencer fetches what it has no result for by itself
FetchInReorg ==
    /\ Processing /\ ~HasNext /\ reorgStart >= nextIndex
    /\ Fetching(Sequencer, nextIndex)
    /\ UNCHANGED <<nodeTip, storageVars, coinCache, seenMoved, waitVars, syncVars,
                   results, restarts>>

\* Past the start of the reorg a missing result is waited for again
LeaveReorg ==
    /\ Processing /\ ~HasNext /\ reorgStart \in 1 .. nextIndex - 1
    /\ reorgStart' = NotInReorg
    /\ UNCHANGED <<nodeTip, storageVars, coinCache, seenMoved, waitVars, nextIndex,
                   rangeEnd, nextFetch, syncerPc, results, pc, job, restarts>>

\* The syncer's checkRemove lets the result be added; otherwise the head goes
Connects(r) ==
    chain = << >> \/ (r.block \in Block /\ Parent[r.block] = HeadBlock)

\* The coins once a block's operations are reverted: what it created is gone,
\* what it spent is back.
Reverted(b) == (coins \ Creates(b)) \cup (Spends(b) \ Creates(b))

\* BlockRemoved(head): the block and its coin changes leave the storage; the
\* cache of seen coins and the wait table are not touched.
BlockRemoved(r) ==
    /\ Processing /\ r.index = nextIndex /\ ~Connects(r)
    /\ HeadBlock # Genesis
    /\ chain' = SubSeq(chain, 1, Len(chain) - 1)
    /\ coins' = Reverted(HeadBlock)
    /\ stored' = stored \ {HeadBlock}
    /\ nextIndex' = Height[HeadBlock]
    /\ reorgStart' = IF reorgStart = NotInReorg THEN nextIndex ELSE reorgStart
    /\ results' = results \ {r}
    /\ UNCHANGED <<nodeTip, coinCache, seenMoved, waitVars, rangeEnd, nextFetch,
                   syncerPc, pc, job, restarts>>

\* Mistake: the coin storage was not started as a block worker
WorkersNotStarted(b) == coins

\* The coin storage follows every block that is added
CoinsAfter(b) == (coins \cup Creates(b)) \ Spends(b)

\* BlockAdded, first AddBlock: one database transaction for head and coins
AddBlock(r) ==
    /\ Processing /\ r.index = nextIndex /\ r.block \in Block /\ Connects(r)
    /\ chain' = Append(chain, r.block)
    /\ coins' = CoinsAfter(r.block)
    /\ results' = results \ {r}
    /\ syncerPc' = "clean"
    /\ UNCHANGED <<nodeTip, stored, coinCache, seenMoved, waitVars, nextIndex,
                   rangeEnd, nextFetch, reorgStart, pc, job, restarts>>

\* Mistake: the cache is emptied
CacheEmptied(b) == {}

\* Mistake: the coins the block spent leave the cache
CacheWithoutSpent(b) == coinCache \ Spends(b)

CacheWithout(b) == coinCache \ Creates(b)

\* then the coins now in the storage leave the cache
CleanCache ==
    /\ syncerPc = "clean"
    /\ coinCache' = CacheWithout(HeadBlock)
    /\ syncerPc' = "abort"
    /\ UNCHANGED <<nodeTip, storageVars, seenMoved, waitVars, nextIndex, rangeEnd,
                   nextFetch, reorgStart, results, pc, job, restarts>>

\* then every open entry first wanted by the next block is aborted; BlockAdded
\* returns and the syncer moves to the next index.
AbortListeners ==
    /\ syncerPc = "abort" /\ ~waiterLocked
    /\ waiter' = [k \in DOMAIN waiter |->
                    IF waiter[k].earliest = Height[HeadBlock] + 1 /\ ~waiter[k].closed
                    THEN [waiter[k] EXCEPT !.closed = TRUE, !.aborted = TRUE]
                    ELSE waiter[k]]
    /\ syncerPc' = "process"
    /\ nextIndex' = nextIndex + 1
    /\ UNCHANGED <<nodeTip, storageVars, coinCache, seenMoved, waiterLocked, rangeEnd,
                   nextFetch, reorgStart, results, pc, job, restarts>>

\* At the tip the syncer sleeps and asks for the network status again
PollTip ==
    /\ Processing /\ nextIndex > NetworkStatus
    /\ UNCHANGED vars

SyncerStep ==
    \/ StartRange \/ FetchInReorg \/ LeaveReorg \/ CleanCache \/ AbortListeners
    \/ \E r \in results : BlockRemoved(r) \/ AddBlock(r)

\* The node adopts a longer chain, a fork of the present one or not
NodeStep ==
    /\ \E b \in Block : Height[b] > Height[nodeTip] /\ nodeTip' = b
    /\ UNCHANGED <<storageVars, coinCache, seenMoved, waitVars, syncVars, results,
                   pc, job, restarts>>

\* Mistake: a new database starts at index 0
StartIndexFromZero == IF HeadBlock = None THEN 0 ELSE Height[HeadBlock] + 1

\* Sync resumes after the stored head; a new database has none, and the syncer
\* then starts with the genesis block (initialStartIndex).
StartIndex == IF HeadBlock = None THEN 1 ELSE Height[HeadBlock] + 1

\* A crash loses everything but the storage
Restart ==
    /\ restarts < MaxRestarts
    /\ restarts' = restarts + 1
    /\ coinCache' = {} /\ seenMoved' = {}
    /\ waiter' = NoEntries /\ waiterLocked' = FALSE
    /\ nextIndex' = StartIndex
    /\ rangeEnd' = 0 /\ nextFetch' = 1 /\ reorgStart' = NotInReorg
    /\ syncerPc' = "process" /\ results' = {}
    /\ pc' = [f \in Fetcher |-> "idle"] /\ job' = [f \in Fetcher |-> NoJob]
    /\ UNCHANGED <<nodeTip, storageVars>>

\* A database that was bootstrapped with the genesis coins, and a fresh process
Init ==
    /\ nodeTip \in Block
    /\ chain = << >> /\ coins = GenesisCoins /\ stored = {}
    /\ coinCache = {} /\ seenMoved = {}
    /\ waiter = NoEntries /\ waiterLocked = FALSE
    /\ nextIndex = 1 /\ rangeEnd = 0 /\ nextFetch = 1
    /\ reorgStart = NotInReorg /\ syncerPc = "process" /\ results = {}
    /\ pc = [f \in Fetcher |-> "idle"] /\ job = [f \in Fetcher |-> NoJob]
    /\ restarts = 0

Next ==
    \/ \E f \in Fetcher : FetcherStep(f)
    \/ \E w \in Worker : TakeIndex(w)
    \/ SyncerStep \/ PollTip \/ NodeStep \/ Restart

Spec == Init /\ [][Next]_vars

\* Every goroutine of the indexer that can run does run; the node is free to
\* stay at its tip for ever.
Fairness ==
    /\ \A f \in Fetcher : WF_vars(FetcherStep(f))
    /\ \A w \in Worker : WF_vars(TakeIndex(w))
    /\ WF_vars(SyncerStep)

FairSpec == Spec /\ Fairness

-----------------------------------------------------------------------------
(***************************************************************************)
(* Properties                                                              *)
(***************************************************************************)
\* Every variable keeps its type.
TypeOK ==
    /\ nodeTip \in Block
    /\ chain \in Seq(Block) /\ coins \subseteq Coin /\ stored \subseteq Block
    /\ coinCache \subseteq Coin /\ seenMoved \subseteq Fetcher
    /\ DOMAIN waiter \subseteq Tx /\ waiter \in [DOMAIN waiter -> Entry]
    /\ waiterLocked \in BOOLEAN
    /\ nextIndex \in Index /\ rangeEnd \in Nat /\ nextFetch \in Index
    /\ reorgStart \in Index \cup {NotInReorg}
    /\ syncerPc \in {"process", "clean", "abort"}
    /\ results \subseteq Result
    /\ pc \in [Fetcher -> PC] /\ job \in [Fetcher -> Job]
    /\ restarts \in 0 .. MaxRestarts

\* The registrations of a key: which fetcher listens for which input.
Registrations(k) ==
    {r \in Fetcher \X TxCoin : r[2] \in job[r[1]].listening /\ r[2].tx = k}

\* The wait table has an entry for exactly the keys somebody is registered for,
\* and its listeners field counts those registrations (wait_table.go:74-81):
\* an entry is neither deleted under a listener nor left behind by the last one.
ListenersCounted ==
    /\ \A f \in Fetcher : \A in \in job[f].listening : in.tx \in DOMAIN waiter
    /\ \A k \in DOMAIN waiter :
           waiter[k].listeners = Cardinality(Registrations(k)) /\ waiter[k].listeners > 0

\* No call returns with waiter.lock held (the early return of
\* indexer.go:507-509 does not unlock) and no fetch ends in an error.
NoLockLeak == ~waiterLocked /\ \A f \in Fetcher : pc[f] # "failed"

\* The sequencer is the only one that aborts waits, so a fetch it does itself in
\* a reorg must never wait: every coin of a block connected to the head is found
\* (indexer.go:435-441, 446-525).
SequencerNeverWaits == pc[Sequencer] # "wait"

\* A block is stored by BlockSeen before it is added, also across a crash and
\* when it was removed before (indexer.go:246-247).
AddedBlocksStored == \A n \in DOMAIN chain : chain[n] \in stored

\* The coins of a block that was seen and waits to be added can be found, in the
\* cache or in the storage (indexer.go:349-372, 265-281).
SeenCoinsFindable ==
    \A r \in results : r.block \in Block /\ r.index >= nextIndex =>
        Creates(r.block) \subseteq coinCache

\* The cache holds no coin of a block that is already added: what BlockSeen puts
\* there BlockAdded takes out, and nobody puts it back (indexer.go:67-70, 349-372).
CacheHoldsOnlyUnadded ==
    \A n \in DOMAIN chain :
        Creates(chain[n]) \cap coinCache = {} \/ (syncerPc = "clean" /\ n = Len(chain))

\* Every open entry is still to be aborted: the block before the first one that
\* waits for it has yet to finish its BlockAdded.  "We should abort these waits
\* as they will never be closed by a new transaction." (indexer.go:283-285)
NoStrandedWait ==
    \A k \in DOMAIN waiter : ~waiter[k].closed =>
        nextIndex < waiter[k].earliest

\* A fetcher waits for no transaction that was seen: when the block creating
\* the coin was handed to the sequencer, BlockSeen has closed the channel of its
\* listeners.  "Close channels of all blocks waiting for this particular
\* transaction to be created." (indexer.go:389-391)
WokenByCreator ==
    \A f \in Fetcher : \A in \in job[f].listening :
        pc[f] = "wait" /\ (\E r \in results : r.block \in Block /\ in.coin \in Creates(r.block))
            => waiter[in.tx].closed

\* The sequencer never meets a result that asks to remove the genesis block: the
\* syncer would end with an error that every restart meets again
\* (indexer.go:564-570, 435-441).
GenesisUndisputed ==
    \A r \in results :
        Processing /\ r.index = nextIndex /\ ~Connects(r) => HeadBlock # Genesis

\* Through concurrent fetches, reorgs and crashes the storage is a ledger: its
\* chain is a path from the genesis block and its coins, updated by every added
\* and removed block, are those unspent after the head.
Storage == INSTANCE Ledger WITH chain <- chain, coins <- coins
StorageIsLedger == Storage!Spec

\* Counting listeners, sharing, closing and deleting entries implement Waiting: no
\* fetcher leaves before its channel is closed, loses the signal because another
\* one left first, or gets one that an earlier wait left behind
\* (indexer.go:488-524, 622-637).
Registered == UNION {{f} \X job[f].listening : f \in Fetcher}
Told == {r \in Registered : r[2].tx \in DOMAIN waiter /\ waiter[r[2].tx].closed}
Waits == INSTANCE Waiting WITH
             Registration <- Fetcher \X TxCoin,
             KeyOf <- [r \in Fetcher \X TxCoin |-> r[2].tx],
             listening <- Registered, told <- Told
WaitsAreTold == Waits!Spec

\* When the node keeps its tip, the storage reaches it and stays there.
CatchesUp == <>[](HeadBlock = nodeTip)
=============================================================================
