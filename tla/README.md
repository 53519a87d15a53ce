# rosetta-ergo in TLA+

`rosetta-ergo` makes the Ergo blockchain available through the Rosetta API. One
process fetches blocks from an Ergo node with several goroutines, resolves the
boxes each block spends, stores blocks, coins and balances in an embedded
database, follows the node through reorganisations, and serves the API from the
database and from the node. This directory models that process in TLA+, checks
the models with TLC on small instances and proves the central properties with
TLAPS for all instances. Sources are named relative to the repository (`src/`);
`I:` stands for `pkg/indexer/indexer.go`.

## 1. The system

| Component | Source | State | Operations | Module |
|---|---|---|---|---|
| Block indexer | `pkg/indexer/indexer.go` | `coinCache`, `seen`, `seenSemaphore` | `Sync`, `Block` (fetch, `findCoins`, `findCoin`, convert), `BlockSeen`, `BlockAdded`, `BlockRemoved`, `NetworkStatus` | `Indexer`, `Accounts`, `Lifecycle` |
| Wait table | `pkg/indexer/wait_table.go` | `table`: per transaction a channel, `listeners`, `earliestBlock`, `aborted` | `Get`, `Set`, `Delete` under `waiter.Lock` | `Indexer`, `Waiting` |
| Syncer | `rosetta-sdk-go/syncer` (external) | next index, range, results, reorg start | workers call `Block` and `BlockSeen`; one sequencer calls `BlockAdded` and `BlockRemoved` | `Indexer` |
| Storage | `pkg/storage`, SDK modules (external) | head, blocks, coins, balances | `SeeBlock`, `AddBlock`, `RemoveBlock` with the coin and balance workers in one transaction | `Indexer`, `Accounts`, `Ledger` |
| Block converter | `pkg/rosetta/converter.go`, `pkg/ergo/utils.go` | `blockTxInputs`, `preFetchedInputs` | `GetInputsForTxs`, `BlockToRosettaBlock` and its parts | `Conversion`, `Accounts` |
| Ergo node | external | a best chain that changes | block by height, latest header, unconfirmed transactions | `Chain`, `Indexer`, `Services` |
| Node client | `pkg/ergo/client.go` | none | requests | `Indexer`, `Lifecycle`, `Services` |
| Process | `cmd/run.go`, `cmd/root.go`, `pkg/util` | errgroup, its context, `SignalReceived`, database handle, requests in flight | start, signal, errors, shutdown | `Lifecycle` |
| Node launcher | `pkg/ergo/node.go` | the node's process | start, log pipes, interrupt, wait | `Lifecycle` |
| API services | `pkg/services`, `pkg/server` | the locals of each request | network list, status, options; block and its transactions; balance and coins of an account; mempool and its transactions | `Services` |
| Configuration, errors, logging, types | `pkg/config`, `pkg/errutil`, `pkg/logger`, `pkg/ergo/types` | constants | parse, format | the mode and the fatal error (`Lifecycle`), the kind of an error (`Services`) |

**How they interact.** The syncer hands indices to its workers. A worker runs
`Block`: it asks the node for the block at a height, looks every box the block
spends up in the coin storage and in `coinCache`, and otherwise registers in the
wait table and blocks on a channel. When all are found the block is converted
and `BlockSeen` puts its created coins into `coinCache`, increments `seen`,
stores the block and closes channels. The sequencer takes results in index
order. It either calls `BlockAdded` (head, coins and balances in one database
transaction, then clean the cache, then abort waits of the next index) or, when
the result does not connect to the head or is `ErrOrphanHead`, `BlockRemoved`
on the head. After a removal it fetches missing indices itself, in its own
goroutine. Handlers of the API read the same database, each in one or several read
transactions of its own, and some ask the node; they write nothing.

**What is hard.** Lookups and registration are separate from the events that
satisfy them. The head may move between any two reads of it. The node may switch
branches between any two requests. Two inputs of a transaction share one entry.
One early return keeps a lock. A removal reverts coins from stored operations
whose signs differ from those of the coins. A crash keeps only the database.
The context may end between any two steps of a worker, and while requests are
handled; a step of the start may fail, fatally, when earlier ones have started
goroutines. Blocks come and go between two reads of a handler. Everything above
runs without a test in the repository, which tests the converter's header function
and the error table only. `PROJECT.json` lists the hazards at their lines.

**What makes each part correct.**
The storage is a path of the block tree with exactly the coins unspent after its
head (indexer, storage). The wait table counts its listeners, no call leaves its
lock held, and a wait ends (wait table). The sequencer never waits for itself
(syncer and indexer). Balances at every height are the value of the boxes
unspent then, and each coin keeps owner and value (converter, storage). An
answer of the API describes one block or transaction, and a client is refused
only what is not there (services). The indexer reaches the node's tip. The process
ends once its context is done; if it waits for its goroutines, the database is closed
after the indexer and no node is left behind (process).

## 2. Modules

| Module | Content |
|---|---|
| `Chain` | constants: block tree, boxes spent and created, `ValidBlocks`; `GetInputsForTxs` on sets |
| `Ledger` | abstract specification: chain and coins, `Extend` and `Drop` |
| `Indexer` | the concurrent indexer, wait table, syncer, node, crashes |
| `Waiting` | abstract specification of the wait table: `Join`, `Tell`, `Leave`, `Forget` |
| `IndexerProofs` | types, wait table, sequencer, `Indexer` implements `Ledger` |
| `WaitingProofs` | `Indexer` implements `Waiting` |
| `StoredProofs` | indices of fetches and results, stored blocks, the genesis block |
| `BranchProofs` | coins of seen blocks, the cache, waits on a single branch |
| `MCIndexer` | instances `Line` (four blocks in a row) and `Fork` (two branches) |
| `Conversion` | operators: block to operations, operations to coins and balances |
| `Accounts` | coins with amounts, balances by height, stored blocks, bootstrap; EXTENDS `Conversion`, implements `Ledger` |
| `Sums` | theorems about sums over finite sets, and induction without an operator parameter |
| `AccountsProofs` | no block fails, coins and balances are what the boxes say, `Accounts` implements `Ledger` |
| `MCAccounts` | an instance with a fork and an intra-block spend |
| `Services` | the handlers of the API beside the indexer; EXTENDS `Accounts` |
| `ServicesProofs` | answers are consistent, refusals justified, `ServicesSpec => Spec` |
| `MCServices` | an instance with two competing blocks and two submitted transactions |
| `Lifecycle` | start, goroutines and end of the process, node launcher, request loop of `Block` |
| `LifecycleProofs` | theorems about `Lifecycle` |
| `MCLifecycle` | two workers, one retry |

A definition introduced by a comment "Mistake:" is a plausible way to get the
next definition wrong (a dropped guard, a wrong boundary, a missing step). No
specification uses it. Substituting it for that definition must make the
property that `PROJECT.json` names under "mutants" fail in its run; it shows
that the property depends on this piece of the code.

### Indexer

A fetcher is a worker or the sequencer (which fetches in a reorg). `pc` says
where it is and `job` holds its local variables. A step is what happens inside
one critical section (`waiter.lock`, `coinCacheMutex`, one database transaction)
or between two; the steps are

| Action | Code |
|---|---|
| `FetchBlock`, `CheckHeaderMatch` | `Block`, `checkHeaderMatch` (I:166-199, 425-453) |
| `FindCoins`, `Snapshot`, `LookUpCache`, `RegisterListener` | the loop of `findCoins` and an attempt of `findCoin` (I:455-643): read `seen`, read head and coin in one transaction, read the cache, then under the lock compare head and `seen` again and register |
| `StopListening`, `WaitDone` | wait on the channels, drop the registrations, repeat or report an orphan (I:488-545) |
| `SeeCoins`, `CountSeen`, `StoreSeen`, `WakeListeners` | `BlockSeen` (I:341-423), under the semaphore |
| `AddBlock`, `CleanCache`, `AbortListeners` | `BlockAdded` (I:246-316) |
| `BlockRemoved` | I:318-339 |
| `StartRange`, `TakeIndex`, `FetchInReorg`, `LeaveReorg`, `PollTip` | the SDK's syncer, from how it calls the handlers |
| `NodeStep` | the node adopts a longer chain |
| `Restart` | crash and `Sync` from the stored head (I:124-164) |

`seenMoved` replaces the counter `seen`: it holds the fetchers for which the
counter differs from the value they read, which is all the code compares, and it
keeps the state space finite. An error of the database, or any other of a handler,
ends `Sync` and the process: for the storage that is a `Restart`, which may come at
any step. `GetBlockByIndex` asks for the id at the height and then for the block of
that id, which never changes: its two requests are one `FetchBlock` at the first,
and a switch of the node between them is one after it. Conversion of a block and the amounts of coins are
left to `Accounts`; failing requests and cancellation to `Lifecycle`.

`Waiting` says what the table is for: whoever registers under a key is told with
everybody else of that key, leaves only when told, and joins those who were told
if they have not all left. `Indexer` maps its registrations (fetcher and input)
and the closed entries to it. Finding 1 is about which key is told, not about
this promise, so `WaitsAreTold` holds.

### Accounts

A removal takes coins back with the amount of the *stored* input operation,
which is negative, and a later block negates that again. `Accounts` follows
every amount: bootstrap files, coin storage, cache, `preFetchedInputs`,
operations, balances, stored blocks. A fetch looks each box up on its own, at
any moment the coin storage or the cache has it. Waiting, and when a block is
removed, are abstracted: any head but the genesis block may be removed at any
time, which is more than the syncer does. A crash may come at any step, also
between the two commits of the bootstrap, as often as it likes. The balances of
all accounts at a height are one function (the SDK stores one record per account
and change and looks up the last one at or below a height, which is the same).

`InputsForTxs` is the pass of `utils.go` over the transactions of a block: an input
counts unless an earlier transaction, or its own, created it. Theorem
`RequiredInputs` says that for a valid block it finds the same boxes as the set
expression of `Chain`, with which `Indexer` works; `MCAccounts` evaluates that on its
instance. Partial functions have operators of their own (`Over`, `With`, `Without`),
as the provers know nothing of `@@` and `:>`.

### Services

`Services` EXTENDS `Accounts` and runs one request at a time between its steps. As
handlers write nothing, requests do not notice each other, and one shows all that
any of them can meet. `at` is where the handler is, `call` holds request, locals
and answer. A step is one read transaction or one request to the node:

| Endpoint | Steps | Code |
|---|---|---|
| `/network/list`, `/status`, `/options` | `Receive`, `NetworkStatusPeers`, `NetworkStatusHead`, `NetworkOptions` | `network.go:42-116` |
| `/block` | `BlockLazy`, then `BlockInline` for each transaction, unless there are more than `txFetchLimit` | `block.go:34-72` |
| `/block/transaction` | `BlockTransaction` | `block.go:74-95` |
| `/account/balance` | `BalanceBlock` opens the transaction, `BalanceAmount` reads in the same one | `account.go:47-75, 105-141` |
| `/account/coins` | `AccountCoins` | `account.go:77-103` |
| `/mempool` | `GetUnconfirmedTxs` | `mempool.go:40-60` |
| `/mempool/transaction` | `GetUnconfirmedTxs`, `FindMempoolCoin` for each coin in any order, `ConvertMempoolTx` | `mempool.go:62-143` |

`view` is what the transaction that `/account/balance` keeps open shows, whatever
is committed meanwhile. `steady` is an observer: the coins that were in the
storage ever since the request came. `Unavailable` is the look at the mode that
most handlers begin with; offline the indexer does not run. `StorageFails` is a read
that fails for another reason than that nothing is found, at any step that reads:
the handler answers with the error in `ReadErrors`, and `readFailed` tells such a
refusal from one that says what the storage has. Requests enumerate
every identifier, also of blocks that are not on the chain or were never seen.

### Lifecycle

`main` follows `runCmdHandler`: `LoadConfiguration` starts the node launcher,
`StartOnlineDependencies` opens the database and starts `Sync`, `NewServer` starts
the server (`run.go:134-202`), then it waits for them all (`CloseDatabase`,
`Exit`). Each may fail, which is fatal: the process exits at once (`"setup failed"`),
as it does when the bootstrap in `Sync` fails (`"bootstrap failed"`, I:143-147) or the
database does not close (`"close failed"`). Everything that earlier steps have
started runs meanwhile, so an exit of the first two kinds may leave the launched
node running and the database open, as a panic may (`"crashed"`). Nothing in the
repository promises otherwise, and the model reaches these states.

`alive` holds the functions of the errgroup that have not returned; `Return`
cancels the context on an error. `stage` is how far `Sync` is: it waits for the node
(`WaitForNode`), finds the head or bootstraps (`Bootstrap`), and fetches. Each worker
then walks through the request loop of `Block`; `block[w]` says whether `ergoBlock`
is non-nil when the loop is left. `handling` stands for the requests in flight, from
connection to answer: they run outside the errgroup, `Shutdown` is called with a
context that is done and does not wait for them, and they may outlive the close of
the database (finding 7). `StartNode` has the three ends of the code: no log pipe, a
process that runs, and one that does not start after its pipes are being read.
`Mode` covers offline, online, and online with a launched node.

## 3. Runs

| Run | Checks | Shows |
|---|---|---|
| `fork` | `TypeOK`, `ListenersCounted`, `NoLockLeak`, `SequencerNeverWaits`, `AddedBlocksStored`, `GenesisUndisputed`, `SeenCoinsFindable`, `CacheHoldsOnlyUnadded`, `StorageIsLedger`, `WaitsAreTold` | through forks of the node, reorgs and a crash the storage implements `Ledger` and the wait table `Waiting`, the lock stays in order, and coins of seen blocks are found until they are added and no later |
| `live` | `NoStrandedWait`, `CatchesUp` | without forks every wait will be ended, and with fair goroutines the indexer reaches the node's tip |
| `accounts` | `TypeOK`, `HistoryIsUnspentValue`, `BlocksNeverFail`, `CoinsKeepOwnerAndValue`, `CoinsAreLedger` | amounts survive removal, refetch, bootstrap and crashes; the operations implement `Ledger` |
| `services` | `ServicesTypeOK`, `AccountsAnswerTheirBlock`, `TransactionsServedWhole`, `MempoolRefusedForCause`, `RefusalsJustified` | answers are consistent and refusals justified, whatever the indexer, the node and crashes do between the reads of a handler |
| `lifecycle` | `TypeOK`, `DatabaseOutlivesIndexer`, `NodeStopsFirst`, `Stops` | in all modes, whatever fails first, fatally or not, and whichever requests are handled: the database outlives the indexer, a process that waits for its goroutines leaves no node behind, and it ends |
| `woken` | `WokenByCreator` is violated | finding 1 |
| `stranded` | `NoStrandedWait` is violated with a fork | finding 2 |
| `served` | `ServedInputsNegative` is violated | finding 3 |
| `signal` | `DatabaseClosedAfterSignal` is violated | finding 4 |
| `nodeerror` | `NodeErrorsAreTheNodes` is violated | finding 5 |
| `offline` | `OfflineIsSaid` is violated | finding 6 |
| `graceful` | `RequestsFindDatabase` is violated | finding 7 |

**Bounds.** `Line`: four blocks, so that blocks one, two and three ahead of the
head are in flight together; an input from two blocks back, one from the same
block; two workers, one semaphore permit (fewer than workers, so permits run
out), one crash; theorem `NoWaitStranded` covers any number of each. `Fork`: branches of two and three blocks after the genesis
block, so that the node can switch in the middle, a transaction confirmed at
different heights on the two branches, two inputs of one transaction created on
the same branch, and a spend inside a block; three workers and the sequencer, one
crash. `Accounts`: the same kind of fork with one block less; no bound on crashes, removals or refetches. `Services`: two blocks compete for the
second height, so that a head can be replaced under a handler; a submitted
transaction that both confirm, and one that spends what it creates, which one of
them confirms; `txFetchLimit` is 2 and one block has three transactions, so both
ways of `/block` occur; requests name the heights up to `MaxIndex`, 3, one more than
there are; no bound on crashes, removals, requests or failed reads. `Lifecycle`: two
workers, so that one can fail while the other fetches, and a retry limit of 1
instead of 5, which has the cases below, at and past the limit. Workers are a
symmetry set in the safety runs of `Indexer` only.

**Deadlock.** `fork` runs with `CHECK_DEADLOCK FALSE`: after finding 2 all
workers may hang. The `lifecycle` runs do, because the process ends.

**Fairness.** `Indexer` assumes weak fairness of each fetcher's steps, of each
worker taking an index and of the sequencer: the Go scheduler runs every
runnable goroutine, the locks are held for finite sections, and a request is
answered or times out. Nothing is assumed about the node: it may keep its tip or
not, and `CatchesUp` is about behaviours in which it cannot move for ever, as
the tree is finite. `PollTip` and `Restart` are not fair. `Lifecycle` assumes the
same of every goroutine, and that the launched node exits when it is
interrupted; it assumes no signal, no failure, no success of a request to the node
and no end of a request of a user. `Services` states no liveness: a handler has a
bounded number of steps.

## 4. Findings

1. *Waits are keyed by the wrong transaction.* `findCoin` registers under the
   transaction that spends the box (`utils.go:32`), `BlockSeen` closes entries of
   the transactions it creates. A wait is never ended by the block it waits for,
   only by the abort pass of `BlockAdded`, as an orphan; the syncer then removes
   and refetches a block that was no orphan.
2. *A wait can be stranded.* The abort pass considers `earliestBlock == index+1`
   only. After a switch of the node's branch a worker can register a wait for the
   block right after the head when the pass for that index is over. The sequencer
   needs the result of that index, so nothing moves, nothing closes the wait, and the
   range never ends.
3. *`/block` may serve positive inputs.* `ensureNegativeValueInputs` repairs the
   syncer's copy of a block after `BlockSeen` stored it. After a reorg stored
   inputs can be positive, and restored coins are negative until spent: `/account/coins`
   shows them so, and a mempool transaction that spends one has a positive input.
4. *A signal can leave the database open.* A worker that enters `Block`, or wakes
   from a sleep, when its context is done leaves the loop without a block and
   without an error, and the conversion of the nil block panics. (The fatal exits
   leave it open too, with or without a signal; the property leaves them aside.)
5. *An error of the node that is none.* `/mempool/transaction` answers `ErrErgoNode`
   when the node answered and a coin was not found. `GetInputsForTxs` gets the whole
   mempool and leaves out what one of its transactions creates; only the requested
   one is converted. A transaction that spends an output of another unconfirmed one
   is never answered.
6. *`/network/options` panics offline.* The handler does not look at the mode and
   offline there is no client. The server drops the connection instead of answering
   or saying `ErrUnavailableOffline`.
7. *The database is closed under a request.* `server.Shutdown` gets the context whose
   end it waits for, so it returns at once when a request is in flight, and
   `storage.Shutdown` runs beside the handler.

`errutil.go:44-45` describes `ErrNotReady` as the node not being ready;
`/network/status` returns it when the storage has no head, after the node has
answered, and `RefusalsJustified` states it as the code has it.

## 5. Proofs

`IndexerProofs`, for every block tree that satisfies `Chain`'s assumptions, any
finite set of workers and any bounds:

* `TypeCorrect`: `TypeOK`.
* `ListenersAlwaysCounted`: an entry exists exactly while somebody is registered
  for it and its count is the number of registrations.
* `LockNeverLeaked`: the early return that keeps `waiter.lock` is unreachable and
  no fetch ends in an error of its own.
* `SequencerNeverBlocks`: a fetch of the sequencer never waits.
* `StorageImplementsLedger`: `Spec => StorageIsLedger`, the refinement.

They rest on one inductive invariant, `IInv` (theorem `Inductive`):

    IInv == TypeOK /\ JobShape /\ CountInv /\ LinkInv /\ IndexInv /\ LookInv /\ SequencerInv
            /\ NoLockLeak

`JobShape` ties a fetcher's local variables to its program counter (a registered
input is one of the remaining ones, and so on); without it an update of `job`
says nothing of the registrations. `CountInv` is `ListenersCounted` with the
finiteness that cardinalities need; `RegisterListener` adds one registration and
one listener, `StopListening` takes one of each, so an entry that is listened to
exists and the early return is dead code. `LinkInv` says that the chain is a
path from the genesis block and the coins are those unspent after its head; the
step of `AddBlock` and of `BlockRemoved` is `ValidBlocks`. `IndexInv` ties
`nextIndex` to the length of the chain and the sequencer's step. `LookInv` says
that whoever passed the early check looks coins up with a head in place.
`SequencerInv` says that while the sequencer fetches the head does not move, so
after `checkHeaderMatch` its block connects to the head and by `ValidBlocks`
all its coins are in the storage.

`WaitingProofs`: `WaitTableImplementsWaiting`, `Spec => WaitsAreTold`, from `IInv`.
That an entry exists exactly while somebody is registered is what makes closing an
entry tell everybody of its key, and what keeps a closed one from telling a later
registration after the last one left.

`StoredProofs`: `AddedBlocksAlwaysStored` (`AddedBlocksStored`) and
`GenesisNeverDisputed` (`GenesisUndisputed`). Neither is inductive, nor with `IInv`:
a removal deletes a block from the store, which must not be one that a result or
a fetch still refers to. `SInv` adds to `IInv`

* `HeightInv`: the chain's blocks are at their heights;
* `PlaceInv`: fetched and waiting indices lie above the chain, and what workers
  fetch above `reorgStart`, up to which the sequencer fetches by itself;
* `DistinctInv`: no index is fetched twice at a time, nor while its result is
  there, so that no other result or fetch is at the index a block is added at;
* `StoredInv`: what woke its listeners is stored, in flight and as a result;
* `EarlyInv`: a fetch of index 1 or 2 that passed `checkHeaderMatch` has a parent
  that is the genesis block or none, finds its coins in the storage, and so never
  looks into the cache, registers, or is reported an orphan.

The head is removed only for a result at the next index that does not connect. If
the head is the genesis block that index is 2, every block at height 2 connects,
and by `EarlyInv` no orphan is reported there.

`BranchProofs` is about the cache and the open waits, under conditions on the blocks
that the theorems name as hypotheses. They are not assumptions of the model: other
trees are allowed, and there the properties may fail.

* `SeenCoinsAlwaysFindable` (`SeenCoinsFindable`) and `CacheNeverHoldsAdded`
  (`CacheHoldsOnlyUnadded`), with any forks, if `LinkedBlocks` and `MadeOnce`.
* `NoWaitStranded` (`NoStrandedWait`), if `SingleBranch`.

`LinkedBlocks` says that every block has to find a box that only its parent creates.
The emission box of Ergo is one as long as competing blocks do not share the
emission transaction, which two blocks of one miner could do, and until the emission
ends. `MadeOnce` says that no branch creates a box twice: the id of a box is a digest
of the transaction that creates it, which spends boxes. `MCIndexer` assumes both of
its instances, and `SingleBranch` of `Line`, so that TLC evaluates them. The
conditions are needed: when `x2` and `y2` of `Fork` are given the same emission
transaction, TLC finds both properties violated, and `NoStrandedWait` fails with
a fork anyhow (finding 2). Neither property is inductive. `BInv` adds to `SInv`

* `OriginInv`, `CacheOriginInv`: a box that only one block creates is unspent only
  after that block, and in the cache only while that block is pending, that is,
  seen and not processed, or about to be cleaned away;
* `ParentInv`: once a fetch has found the box that links its block, the parent is
  known (pending or on the chain), and stays so until the block is processed.

So a seen block descends from the head through pending ones (`Descends`). A result
that is a block connects whenever its turn comes (`NextConnects`): heads are
removed for orphans only. No seen block is lost when a new range starts
(`NothingPending`). By `MadeOnce` a pending block shares no box with the chain
(`ApartFromChain`), so `CleanCache` after another block takes nothing of it away and
its `SeeCoins` brings nothing back. That is `CacheInv`, which covers fetches
inside `BlockSeen` as well as results.

`WaitInv` adds to `NoStrandedWait` that a coin a fetcher did not find is not among
those unspent after the head it read. The recheck under the lock sees that the head
is still that one; on a single branch the block that creates the coin is then above
the head and below the fetcher's (`WaitsAhead`), so that the pass of
`AbortListeners` for the fetcher's block is still to come.

`LifecycleProofs`, for any finite set of workers and any retry limit:
`TypeCorrect`, `IndexerHasDatabase` (`DatabaseOutlivesIndexer`) and `NoNodeLeftBehind`
(`NodeStopsFirst`). The invariant adds to the types that no goroutine is left once
`main` is past `g.Wait`, that there is no indexer before its dependencies are started
and then an open database (`IndexerInv`), and that a running node has a launcher
that has not returned (`NodeInv`). So a node can only be left by an exit that does
not wait, which is why the statement is about the others.

`Sums` is the ground for amounts. The library's sum over a function is a fold, that
is, a recursive function on sets, and its induction theorems take an operator that
no installed prover can instantiate. Induction by a *set* needs none: `NatInductionSet`
and `SetInductionSet` are proved by a least counterexample, from the
well-foundedness of the naturals and of inclusion among finite sets, for the set
of the numbers, or subsets, that have the property; each use names that set. From
them follow that the fold is defined, what it is after one element is taken away,
that it splits over disjoint sets (`SumUnion`), stays when values are carried over
one to one to other elements (`SumImage`) and turns with its sign (`SumNegative`).

`AccountsProofs`, for every tree of valid blocks and any accounts, owners and
values:

* `RequiredInputs`: what `GetInputsForTxs` returns for a block, as a set of boxes.
* `AccountsTypeCorrect`: `TypeOK`, with a balance that is a natural number for each
  account and height.
* `NoBlockFails` (`BlocksNeverFail`): every block converts and overdraws no account.
* `OwnerAndValueKept` (`CoinsKeepOwnerAndValue`).
* `HistoryAlwaysUnspentValue` (`HistoryIsUnspentValue`).
* `CoinsImplementLedger`: `Spec => CoinsAreLedger`, the refinement.

The invariant is

    AInv == ChainInv /\ PhaseInv /\ CoinInv /\ BlockInv /\ HistoryInv

`ChainInv` is the path from the genesis block. `PhaseInv` keeps fetches and blocks
out until both parts of the bootstrap are stored, and has `failed = FALSE`, so that a
failing conversion or a negative balance must be shown impossible. `CoinInv` says
that the stored coins are those unspent after the head, each `Kept`: its owner,
its value, either sign. Signs cannot be left out: a removal restores coins with the
sign of the stored operation. `BlockInv` says the same of the coins found for each
fetch, and that stored and waiting copies are `Whole`: an operation for every
box of the block, a spent one of either sign, and no other. Two copies of a block
may differ in signs and both are whole, so it does not matter which copy a
removal undoes. `HistoryInv` is the property itself, and what the genesis height
shows while there is no block. The step of `BlockAdded` is an account of sums
(`ChangeIsValue`, `ValueAfter`): the repaired operations change a balance by the
value created for the account minus the value spent of it, which makes it the value
of the boxes unspent after the block, and that is not negative.

`ServicesProofs`, moreover for any requests, any `txFetchLimit` and any set of
submitted transactions:

* `ServicesKeepAccounts`: `ServicesSpec => Spec`, so that all of the above holds of
  the service.
* `ServicesTypeCorrect` (`ServicesTypeOK`), which says that offline no handler goes
  beyond its look at the mode.
* `AnswersNameTheirBlock` (`AccountsAnswerTheirBlock`), `AnswersAreWhole`
  (`TransactionsServedWhole`), `MempoolRefusalsHaveCause` (`MempoolRefusedForCause`).
* `RefusalsAreJustified` (`RefusalsJustified`), about steps at which no read fails.

A coin is not in the storage throughout a request when it left meanwhile, came late,
or was never there, as when the indexer is behind the node; `steady` does not tell
these apart, and neither does `MempoolRefusalsHaveCause`.

Their invariant adds to `AInv` what of the storage can be served, `StoredInv`: blocks
of the chain are at their heights and stored, and none is fetched or waiting to be
added, so that a removal deletes no copy that a result still needs. `HInv` follows
each handler: `PlaceInv` which request it answers, `ViewInv` that the open read
transaction shows the balances of one chain, `InlineInv` that the transactions still
to read are the end of the block's list and those before it are `Served` (an
operation for each of their boxes), `LookupInv` that an input is found, still looked
for, not in the storage throughout the request, or created by a listed
transaction. The
last three are what the indexer's steps between two reads cannot disturb: a view does
not change, what is served of a transaction does not depend on which copy it was
read from, and `steady` only loses coins.

**Assumed.** `HeadersAssumption`, `BoxesAssumption`, `ValidBlocks` and
`ValidTransactions` (the node validates what it serves, block by block and
transaction by transaction), `BoxAssumption` (boxes are known by digests of
32 bytes, so there are finitely many, and a box holds at least a nanoERG),
`TransactionsAssumption` (the boxes of a block are those of its transactions),
`BootstrapAssumption` (the two files of a network agree: the balances in
`pkg/config/*/bootstrap_balances.json` are the sums of `genesis_utxos.json`),
`FetchersAssumption`, `LifecycleAssumption`, and `ServicesAssumption` (submitted
transactions are finitely many, and `None` is no error). TLC evaluates each on its
instances.

**Model-checked only.** Liveness, `CatchesUp` and `Stops`, which is out of the
prover's reach. Every safety and action property of a passing run, and every
refinement, is stated by a theorem, the three of `BranchProofs` under their conditions.

## 6. What is external, and what is left out

The SDK is not in the repository. From how the code uses it the models take: the
coin and balance workers run in the database transaction of the block;
`SeeBlock` keeps the first copy; `RemoveBlock` undoes the stored operations,
deletes the copy and the balances of that height, and refuses the first block;
the balance worker refuses a negative balance; coin operations of a block that
create and spend the same coin cancel; imported coins that exist are skipped. The
syncer fetches a range with several workers, processes in index order, removes
the head on a result that does not connect, and then fetches by itself up to
the highest index it had reached.

The node moves to longer chains only, and its mempool is any set of submitted
transactions that is valid after some block.

Not modelled:

* pruning, which the process does not start; the syncer's adjustable concurrency
  (a fixed set of workers; any number is covered by the proofs);
* time: the server drops an answer that is not written within 15 s while a request
  to the node may take 100 s, and a retry comes after a second;
* the cost of read transactions that a deferred `Discard` keeps open to the end of
  the function (I:558, `mempool.go:114`);
* reads of `i.seen` without `seenMutex` (I:556, 617) that are older than the counter:
  the model reads it as a 64-bit build on one memory does;
* a data directory that is used with another network: the path does not depend on
  the network, and `Chain` has one genesis block;
* the wording and layout of blocks (operation indices, timestamps, metadata,
  peers), error codes and texts, logs, conversion of trees to addresses (a constant
  per box; the request for it may fail), parsing of configuration, generated types.

## 7. Plan

1. Weaker conditions than `SingleBranch` for `NoStrandedWait`: which switches of the
   node strand a wait, and which do not.
2. What of `SeenCoinsFindable` is left when competing blocks share the emission
   transaction.
3. A tree with the genesis blocks of two networks, for the data directory above.
