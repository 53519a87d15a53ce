---------------------------- MODULE IndexerProofs ----------------------------
(***************************************************************************)
(* Theorems about Indexer, for any block tree, any number of workers and   *)
(* any bound on restarts.                                                  *)
(***************************************************************************)
EXTENDS Indexer, FiniteSetTheorems, TLAPS

USE DEF Index, NotInReorg, Goto, SetJob, Fail

-----------------------------------------------------------------------------
(* Type correctness *)

\* A chain that is not empty has a head, its last block.
LEMMA HeadIsBlock ==
    ASSUME chain \in Seq(Block)
    PROVE  /\ HeadBlock \in Block \cup {None}
           /\ chain # << >> => /\ Len(chain) \in Nat \ {0}
                               /\ HeadBlock = chain[Len(chain)] /\ HeadBlock \in Block
BY DEF HeadBlock

\* The locals of an idle fetcher, and of one that starts on an index, are typed.
LEMMA NoJobIsJob == NoJob \in Job /\ \A i \in Nat : [NoJob EXCEPT !.index = i] \in Job
BY DEF NoJob, Job

\* The updates that the steps of a fetch make to its local variables.
LEMMA JobUpdates ==
    ASSUME NEW j \in Job
    PROVE  /\ \A b \in Block, t \in SUBSET TxCoin :
                  [j EXCEPT !.block = b, !.todo = t] \in Job
           /\ \A i \in TxCoin : [j EXCEPT !.input = i] \in Job
           /\ \A h \in Block \cup {None} : [j EXCEPT !.head = h] \in Job
           /\ [j EXCEPT !.input = None, !.head = None] \in Job
           /\ [j EXCEPT !.todo = @ \ {j.input}, !.input = None, !.head = None] \in Job
           /\ \A i \in TxCoin :
                  [j EXCEPT !.todo = @ \ {i}, !.remaining = @ \cup {i},
                            !.listening = @ \cup {i}, !.input = None, !.head = None] \in Job
           /\ \A i \in TxCoin, a \in BOOLEAN :
                  [j EXCEPT !.listening = @ \ {i}, !.abort = @ \/ a] \in Job
           /\ [j EXCEPT !.todo = j.remaining, !.remaining = {}] \in Job
BY DEF Job

\* The initial state is typed.
LEMMA TypeInit == Init => TypeOK
<1> SUFFICES ASSUME Init PROVE TypeOK
  OBVIOUS
<1> USE HeadersAssumption, BoxesAssumption, FetchersAssumption DEF Init
<1>1. chain \in Seq(Block) /\ coins \subseteq Coin /\ stored \subseteq Block
  OBVIOUS
<1>2. DOMAIN waiter \subseteq Tx /\ waiter \in [DOMAIN waiter -> Entry]
  BY DEF NoEntries
<1>3. pc \in [Fetcher -> PC]
  BY DEF PC
<1>4. job \in [Fetcher -> Job]
  BY NoJobIsJob
<1>5. /\ nextIndex \in Index /\ rangeEnd \in Nat /\ nextFetch \in Index
      /\ restarts \in 0 .. MaxRestarts
  OBVIOUS
<1>6. /\ reorgStart \in Index \cup {NotInReorg} /\ results \subseteq Result
      /\ syncerPc \in {"process", "clean", "abort"}
  OBVIOUS
<1> QED BY <1>1, <1>2, <1>3, <1>4, <1>5, <1>6 DEF TypeOK

\* What the steps of a fetcher keep typed without looking at the wait table.
FetcherType ==
    /\ pc \in [Fetcher -> PC] /\ job \in [Fetcher -> Job] /\ results \subseteq Result
WaiterType == DOMAIN waiter \subseteq Tx /\ waiter \in [DOMAIN waiter -> Entry]

\* What the local variables of a fetch at step p hold.
Shape(p, j) ==
    /\ p \notin {"idle", "fetch"} =>
           /\ j.block \in Block /\ j.index = Height[j.block]
           /\ j.todo \cup j.remaining \subseteq GetInputsForTxs(j.block)
    /\ p \in {"snapshot", "cache", "lock"} => j.input \in j.todo
    /\ p \notin {"find", "snapshot", "cache", "lock", "wait", "failed"} => j.remaining = {}
    /\ j.listening \subseteq j.remaining
    /\ j.todo \cap j.remaining = {}

JobShape == \A f \in Fetcher : Shape(pc[f], job[f])

\* Delivering keeps the types, whatever the result.
LEMMA DeliverType ==
    ASSUME FetcherType, NEW f \in Fetcher, NEW b \in Block \cup {OrphanHead},
           Deliver(f, b)
    PROVE  FetcherType'
<1>1. job[f].index \in Nat
  BY DEF FetcherType, Job
<1> QED BY <1>1, NoJobIsJob DEF Deliver, FetcherType, PC, Result

\* The two ways back to the loop of findCoins keep the locals typed.
LEMMA FoundRetryType ==
    ASSUME FetcherType, NEW f \in Fetcher, Found(f) \/ Retry(f)
    PROVE  pc' \in [Fetcher -> PC] /\ job' \in [Fetcher -> Job]
<1>1. job[f] \in Job
  BY DEF FetcherType
<1>2. pc' \in [Fetcher -> PC]
  BY DEF FetcherType, PC, Found, Retry
<1>3. job' \in [Fetcher -> Job]
  <2>1. CASE Found(f)
    <3>1. [job[f] EXCEPT !.todo = @ \ {job[f].input}, !.input = None, !.head = None] \in Job
      BY <1>1, JobUpdates
    <3> QED BY <2>1, <3>1 DEF FetcherType, Found
  <2>2. CASE Retry(f)
    BY <2>2, <1>1, JobUpdates DEF FetcherType, Retry
  <2> QED BY <2>1, <2>2
<1> QED BY <1>2, <1>3

\* An entry with other values in its two numeric fields is typed.
LEMMA EntryUpdate ==
    ASSUME NEW e \in Entry, NEW n \in Nat, NEW h \in Index
    PROVE  /\ [e EXCEPT !.listeners = n, !.earliest = h] \in Entry
           /\ [e EXCEPT !.listeners = n, !.earliest = h].listeners = n
BY DEF Entry

\* The wait table with one more listener is typed.
LEMMA ListenType ==
    ASSUME WaiterType, NEW k \in Tx, NEW h \in Index
    PROVE  /\ DOMAIN Listen(k, h) = DOMAIN waiter \cup {k}
           /\ Listen(k, h) \in [DOMAIN Listen(k, h) -> Entry]
           /\ Listen(k, h)[k].listeners =
                  IF k \in DOMAIN waiter THEN waiter[k].listeners + 1 ELSE 1
           /\ \A x \in DOMAIN waiter \ {k} : Listen(k, h)[x] = waiter[x]
<1> DEFINE new == [listeners |-> 0, closed |-> FALSE, aborted |-> FALSE, earliest |-> h]
           old == IF k \in DOMAIN waiter THEN waiter[k] ELSE new
           e == [old EXCEPT !.listeners = @ + 1, !.earliest = IF @ > h THEN h ELSE @]
<1>1. old \in Entry
  BY DEF WaiterType, Entry
<1> HIDE DEF old
<1>2. e \in Entry /\ e.listeners = old.listeners + 1
  <2> DEFINE n == old.listeners + 1
             m == IF old.earliest > h THEN h ELSE old.earliest
  <2>1. n \in Nat /\ m \in Index
    BY <1>1 DEF Entry
  <2>2. e = [old EXCEPT !.listeners = n, !.earliest = m] /\ n = old.listeners + 1
    OBVIOUS
  <2> HIDE DEF e, n, m
  <2>3. /\ [old EXCEPT !.listeners = n, !.earliest = m] \in Entry
        /\ [old EXCEPT !.listeners = n, !.earliest = m].listeners = n
    BY <1>1, <2>1, EntryUpdate
  <2> QED BY <2>2, <2>3, Zenon
<1>3. Listen(k, h) = [x \in DOMAIN waiter \cup {k} |-> IF x = k THEN e ELSE waiter[x]]
  BY DEF Listen, old
<1>4. old.listeners + 1 = IF k \in DOMAIN waiter THEN waiter[k].listeners + 1 ELSE 1
  BY DEF old
<1> HIDE DEF e
<1> QED BY <1>2, <1>3, <1>4 DEF WaiterType

\* An action that leaves alone everything but the fetcher variables and the wait
\* table keeps TypeOK if it keeps those typed.
Elsewhere == <<nodeTip, storageVars, coinCache, waiterLocked, syncVars, restarts>>

\* The step keeps the types if it keeps those of the fetchers and of the table.
LEMMA FetcherFrame ==
    ASSUME TypeOK, UNCHANGED Elsewhere, seenMoved' \subseteq Fetcher,
           FetcherType', WaiterType'
    PROVE  TypeOK'
BY DEF TypeOK, Elsewhere, FetcherType, WaiterType, storageVars, syncVars

\* Fetching keeps the types: the block answered has the index asked for.
LEMMA FetchBlockType ==
    ASSUME TypeOK, NEW f \in Fetcher, FetchBlock(f) PROVE TypeOK'
<1>1. PICK b \in Block : SetJob(f, [job[f] EXCEPT !.block = b, !.todo = GetInputsForTxs(b)])
  BY DEF FetchBlock
<1>2. GetInputsForTxs(b) \in SUBSET TxCoin
  BY BoxesAssumption DEF GetInputsForTxs
<1>3. [job[f] EXCEPT !.block = b, !.todo = GetInputsForTxs(b)] \in Job
  BY <1>2, JobUpdates DEF TypeOK
<1>4. job' \in [Fetcher -> Job]
  BY <1>1, <1>3 DEF TypeOK
<1>5. FetcherType' /\ WaiterType'
  BY <1>4 DEF FetchBlock, TypeOK, FetcherType, WaiterType, PC, waitVars
<1> QED
  BY <1>5, FetcherFrame DEF FetchBlock, TypeOK, Elsewhere, waitVars

\* Comparing with the head keeps the types.
LEMMA CheckHeaderMatchType ==
    ASSUME TypeOK, NEW f \in Fetcher, CheckHeaderMatch(f) PROVE TypeOK'
<1>1. FetcherType'
  <2>1. CASE Disconnected(job[f].block)
    BY <2>1, DeliverType DEF CheckHeaderMatch, TypeOK, FetcherType
  <2>2. CASE ~Disconnected(job[f].block)
    BY <2>2 DEF CheckHeaderMatch, TypeOK, FetcherType, PC
  <2> QED BY <2>1, <2>2
<1> QED
  BY <1>1, FetcherFrame DEF CheckHeaderMatch, TypeOK, WaiterType, Elsewhere, waitVars

\* Taking the next input, or leaving the loop, keeps the types.
LEMMA FindCoinsType ==
    ASSUME TypeOK, NEW f \in Fetcher, FindCoins(f) PROVE TypeOK'
<1>1. pc' \in [Fetcher -> PC] /\ seenMoved' \subseteq Fetcher
  BY DEF FindCoins, TypeOK, PC
<1>2. job' \in [Fetcher -> Job]
  <2>1. CASE job[f].todo = {}
    BY <2>1 DEF FindCoins, TypeOK
  <2>2. CASE job[f].todo # {}
    <3>1. PICK in \in job[f].todo : SetJob(f, [job[f] EXCEPT !.input = in])
      BY <2>2 DEF FindCoins
    <3>2. job[f] \in Job /\ in \in TxCoin
      BY DEF TypeOK, Job
    <3>3. [job[f] EXCEPT !.input = in] \in Job
      BY <3>2, JobUpdates
    <3> QED BY <3>1, <3>3 DEF TypeOK
  <2> QED BY <2>1, <2>2
<1> QED
  BY <1>1, <1>2, FetcherFrame
     DEF FindCoins, TypeOK, FetcherType, WaiterType, Elsewhere, waitVars

\* The read transaction of findCoin keeps the types.
LEMMA SnapshotType ==
    ASSUME TypeOK, NEW f \in Fetcher, Snapshot(f) PROVE TypeOK'
<1>1. pc' \in [Fetcher -> PC] /\ job' \in [Fetcher -> Job]
  <2>1. CASE Found(f) \/ Retry(f)
    BY <2>1, FoundRetryType DEF TypeOK, FetcherType
  <2>2. CASE SetJob(f, [job[f] EXCEPT !.head = HeadBlock]) /\ Goto(f, "cache")
    <3>1. [job[f] EXCEPT !.head = HeadBlock] \in Job
      BY JobUpdates, HeadIsBlock DEF TypeOK
    <3> QED BY <2>2, <3>1 DEF TypeOK, PC
  <2> QED BY <2>1, <2>2 DEF Snapshot
<1> QED
  BY <1>1, FetcherFrame DEF Snapshot, TypeOK, FetcherType, WaiterType, Elsewhere, waitVars

\* The look into the cache keeps the types.
LEMMA LookUpCacheType ==
    ASSUME TypeOK, NEW f \in Fetcher, LookUpCache(f) PROVE TypeOK'
<1>1. pc' \in [Fetcher -> PC] /\ job' \in [Fetcher -> Job]
  <2>1. CASE Found(f)
    BY <2>1, FoundRetryType DEF TypeOK, FetcherType
  <2>2. CASE Goto(f, "lock") /\ UNCHANGED job
    BY <2>2 DEF TypeOK, PC
  <2> QED BY <2>1, <2>2 DEF LookUpCache
<1> QED
  BY <1>1, FetcherFrame DEF LookUpCache, TypeOK, FetcherType, WaiterType, Elsewhere, waitVars

\* Registering keeps the types, of the entry as well: its earliest index is
\* the height of a block.
LEMMA RegisterListenerType ==
    ASSUME TypeOK, JobShape, NEW f \in Fetcher, RegisterListener(f) PROVE TypeOK'
<1> DEFINE in == job[f].input
<1>1. in \in TxCoin /\ in.tx \in Tx /\ Height[job[f].block] \in Index /\ job[f] \in Job
  <2>1. Shape("lock", job[f]) /\ job[f] \in Job
    BY DEF JobShape, RegisterListener, TypeOK
  <2>2. in \in TxCoin /\ job[f].block \in Block
    BY <2>1 DEF Shape, Job
  <2> QED BY <2>1, <2>2, HeadersAssumption DEF TxCoin
<1>2. pc' \in [Fetcher -> PC] /\ job' \in [Fetcher -> Job] /\ WaiterType'
  <2>1. CASE Fail(f) /\ UNCHANGED <<job, waiter>>
    BY <2>1 DEF TypeOK, PC, WaiterType
  <2>2. CASE Retry(f) /\ UNCHANGED waiter
    BY <2>2, FoundRetryType DEF TypeOK, FetcherType, WaiterType
  <2>3. CASE /\ waiter' = Listen(in.tx, Height[job[f].block])
             /\ SetJob(f, [job[f] EXCEPT !.todo = @ \ {in}, !.remaining = @ \cup {in},
                                         !.listening = @ \cup {in},
                                         !.input = None, !.head = None])
             /\ Goto(f, "find")
    <3>1. WaiterType'
      <4> DEFINE h == Height[job[f].block]
      <4>1. WaiterType /\ in.tx \in Tx /\ h \in Index
        BY <1>1 DEF TypeOK, WaiterType
      <4>2. waiter' = Listen(in.tx, h)
        BY <2>3
      <4> HIDE DEF in, h
      <4>3. /\ DOMAIN Listen(in.tx, h) = DOMAIN waiter \cup {in.tx}
            /\ Listen(in.tx, h) \in [DOMAIN Listen(in.tx, h) -> Entry]
        BY <4>1, ListenType
      <4> QED BY <4>1, <4>2, <4>3 DEF WaiterType
    <3>2. [job[f] EXCEPT !.todo = @ \ {in}, !.remaining = @ \cup {in},
                         !.listening = @ \cup {in}, !.input = None, !.head = None] \in Job
      BY <1>1, JobUpdates
    <3> HIDE DEF in
    <3> QED BY <2>3, <3>1, <3>2 DEF TypeOK, PC
  <2> QED BY <2>1, <2>2, <2>3 DEF RegisterListener
<1> QED
  BY <1>2, FetcherFrame DEF RegisterListener, TypeOK, FetcherType, Elsewhere

\* A key that is left keeps a typed entry or none.
LEMMA LeaveType ==
    ASSUME WaiterType, NEW k \in DOMAIN waiter, waiter[k].listeners > 0
    PROVE  /\ DOMAIN Leave(k) \subseteq DOMAIN waiter
           /\ Leave(k) \in [DOMAIN Leave(k) -> Entry]
<1>1. CASE waiter[k].listeners = 1
  BY <1>1 DEF WaiterType, Leave
<1>2. CASE waiter[k].listeners # 1
  <2>1. [waiter[k] EXCEPT !.listeners = @ - 1] \in Entry
    BY <1>2 DEF WaiterType, Entry
  <2>2. Leave(k) = [waiter EXCEPT ![k] = [waiter[k] EXCEPT !.listeners = @ - 1]]
    BY <1>2 DEF Leave, WaiterType
  <2> QED BY <2>1, <2>2 DEF WaiterType
<1> QED BY <1>1, <1>2

\* Giving a registration up keeps the types: an entry that is left has a
\* listener to lose.
LEMMA StopListeningType ==
    ASSUME TypeOK, JobShape, ListenersCounted, NEW f \in Fetcher, StopListening(f)
    PROVE  TypeOK'
<1>1. PICK in \in job[f].listening :
         IF in.tx \in DOMAIN waiter
         THEN /\ waiter[in.tx].closed
              /\ waiter' = Leave(in.tx)
              /\ SetJob(f, [job[f] EXCEPT !.listening = @ \ {in},
                                          !.abort = @ \/ waiter[in.tx].aborted])
              /\ UNCHANGED <<pc, waiterLocked>>
         ELSE Fail(f) /\ waiterLocked' = TRUE /\ UNCHANGED <<waiter, job>>
  BY DEF StopListening
<1>2. in.tx \in DOMAIN waiter /\ in \in TxCoin /\ job[f] \in Job
  BY DEF ListenersCounted, TypeOK, Job
<1>3. waiter[in.tx].listeners > 0 /\ waiter[in.tx].aborted \in BOOLEAN
  BY <1>2 DEF ListenersCounted, TypeOK, Entry
<1>4. WaiterType'
  <2> DEFINE k == in.tx
  <2>1. WaiterType /\ k \in DOMAIN waiter /\ waiter[k].listeners > 0 /\ waiter' = Leave(k)
    BY <1>1, <1>2, <1>3 DEF TypeOK, WaiterType
  <2> HIDE DEF k
  <2> QED BY <2>1, LeaveType DEF WaiterType
<1>5. job' \in [Fetcher -> Job]
  <2>1. [job[f] EXCEPT !.listening = @ \ {in}, !.abort = @ \/ waiter[in.tx].aborted] \in Job
    BY <1>2, <1>3, JobUpdates
  <2> QED BY <1>1, <1>2, <2>1 DEF TypeOK
<1> QED
  BY <1>1, <1>2, <1>4, <1>5, FetcherFrame
     DEF StopListening, TypeOK, FetcherType, Elsewhere

\* The end of a wait keeps the types.
LEMMA WaitDoneType ==
    ASSUME TypeOK, NEW f \in Fetcher, WaitDone(f) PROVE TypeOK'
<1>1. FetcherType'
  <2>1. CASE job[f].abort
    BY <2>1, DeliverType DEF WaitDone, TypeOK, FetcherType
  <2>2. CASE ~job[f].abort
    <3>1. [job[f] EXCEPT !.todo = job[f].remaining, !.remaining = {}] \in Job
      BY JobUpdates DEF TypeOK
    <3> QED BY <2>2, <3>1 DEF WaitDone, TypeOK, FetcherType, PC
  <2> QED BY <2>1, <2>2
<1> QED
  BY <1>1, FetcherFrame DEF WaitDone, TypeOK, WaiterType, Elsewhere, waitVars

\* The steps of BlockSeen.
LEMMA BlockSeenType ==
    ASSUME TypeOK, JobShape, NEW f \in Fetcher,
           SeeCoins(f) \/ CountSeen(f) \/ StoreSeen(f) \/ WakeListeners(f)
    PROVE  TypeOK'
<1>1. job[f].block \in Block
  BY DEF JobShape, Shape, SeeCoins, CountSeen, StoreSeen, WakeListeners
<1>2. Creates(job[f].block) \subseteq Coin
  BY <1>1, BoxesAssumption DEF Creates, TxCoin
<1>3. CASE SeeCoins(f)
  BY <1>2, <1>3 DEF SeeCoins, TypeOK, PC, storageVars, waitVars, syncVars
<1>4. CASE CountSeen(f)
  BY <1>4 DEF CountSeen, TypeOK, PC, storageVars, waitVars, syncVars
<1>5. CASE StoreSeen(f)
  BY <1>1, <1>5 DEF StoreSeen, StoredWith, TypeOK, PC, waitVars, syncVars
<1>6. CASE WakeListeners(f)
  <2>1. FetcherType'
    BY <1>1, <1>6, DeliverType DEF WakeListeners, TypeOK, FetcherType
  <2>2. WaiterType'
    <3>1. \A e \in Entry : [e EXCEPT !.closed = TRUE] \in Entry
      BY DEF Entry
    <3> QED BY <1>6, <3>1 DEF WakeListeners, TypeOK, WaiterType
  <2> QED BY <1>6, <2>1, <2>2, FetcherFrame DEF WakeListeners, TypeOK, Elsewhere
<1> QED BY <1>3, <1>4, <1>5, <1>6

\* A fetcher that starts on an index is typed.
LEMMA FetchingType ==
    ASSUME TypeOK, NEW f \in Fetcher, NEW i \in Nat, Fetching(f, i)
    PROVE  pc' \in [Fetcher -> PC] /\ job' \in [Fetcher -> Job]
BY NoJobIsJob DEF Fetching, TypeOK, PC

\* Every step of the syncer and of BlockAdded and BlockRemoved keeps the types.
LEMMA SyncerType ==
    ASSUME TypeOK, SyncerStep \/ (\E w \in Worker : TakeIndex(w)) PROVE TypeOK'
<1> USE HeadersAssumption, HeadIsBlock
<1>1. ASSUME StartRange PROVE TypeOK'
  BY <1>1 DEF StartRange, NetworkStatus, TypeOK, storageVars, waitVars
<1>2. ASSUME NEW w \in Worker, TakeIndex(w) PROVE TypeOK'
  <2>1. w \in Fetcher
    BY DEF Fetcher
  <2>2. pc' \in [Fetcher -> PC] /\ job' \in [Fetcher -> Job]
    BY <1>2, <2>1, FetchingType DEF TakeIndex, TypeOK
  <2> QED BY <1>2, <2>2 DEF TakeIndex, TypeOK, storageVars, waitVars
<1>3. ASSUME FetchInReorg PROVE TypeOK'
  <2>1. Sequencer \in Fetcher
    BY DEF Fetcher
  <2>2. pc' \in [Fetcher -> PC] /\ job' \in [Fetcher -> Job]
    BY <1>3, <2>1, FetchingType DEF FetchInReorg, TypeOK
  <2> QED BY <1>3, <2>2 DEF FetchInReorg, TypeOK, storageVars, waitVars, syncVars
<1>4. ASSUME LeaveReorg PROVE TypeOK'
  BY <1>4 DEF LeaveReorg, TypeOK, storageVars, waitVars
<1>5. ASSUME CleanCache PROVE TypeOK'
  BY <1>5 DEF CleanCache, CacheWithout, TypeOK, storageVars, waitVars
<1>6. ASSUME AbortListeners PROVE TypeOK'
  <2>1. \A e \in Entry : [e EXCEPT !.closed = TRUE, !.aborted = TRUE] \in Entry
    BY DEF Entry
  <2>2. WaiterType'
    BY <1>6, <2>1 DEF AbortListeners, TypeOK, WaiterType
  <2>3. nextIndex' \in Index
    <3>1. nextIndex' = nextIndex + 1 /\ nextIndex \in Index
      BY <1>6 DEF AbortListeners, TypeOK
    <3> QED BY <3>1
  <2> QED BY <1>6, <2>2, <2>3 DEF AbortListeners, TypeOK, WaiterType, storageVars
<1>7. ASSUME NEW r \in results, BlockRemoved(r) PROVE TypeOK'
  <2>1. chain # << >> => HeadBlock \in Block
    BY DEF TypeOK
  <2>2. chain # << >>
    BY <1>7 DEF BlockRemoved, Connects
  <2>3. Creates(HeadBlock) \subseteq Coin /\ Spends(HeadBlock) \subseteq Coin
    BY <2>1, <2>2, BoxesAssumption DEF Creates, Spends, TxCoin
  <2>4. SubSeq(chain, 1, Len(chain) - 1) \in Seq(Block)
    BY <2>2 DEF TypeOK
  <2>5. Height[HeadBlock] \in Index
    BY <2>1, <2>2
  <2>6. chain' \in Seq(Block) /\ coins' \subseteq Coin /\ stored' \subseteq Block
    BY <1>7, <2>3, <2>4 DEF BlockRemoved, Reverted, TypeOK
  <2>7. nextIndex' \in Index /\ reorgStart' \in Index \cup {NotInReorg}
    BY <1>7, <2>5 DEF BlockRemoved, TypeOK
  <2> QED BY <1>7, <2>6, <2>7 DEF BlockRemoved, TypeOK, waitVars
<1>8. ASSUME NEW r \in results, AddBlock(r) PROVE TypeOK'
  <2>1. r.block \in Block
    BY <1>8 DEF AddBlock
  <2>2. Creates(r.block) \subseteq Coin
    BY <2>1, BoxesAssumption DEF Creates, TxCoin
  <2> QED BY <1>8, <2>1, <2>2 DEF AddBlock, CoinsAfter, TypeOK, waitVars
<1> QED
  BY <1>1, <1>2, <1>3, <1>4, <1>5, <1>6, <1>7, <1>8 DEF SyncerStep

\* The node, a restart and a sleep at the tip keep the types.
LEMMA EnvironmentType ==
    ASSUME TypeOK, PollTip \/ NodeStep \/ Restart \/ UNCHANGED vars PROVE TypeOK'
<1>1. CASE PollTip \/ UNCHANGED vars
  BY <1>1 DEF PollTip, vars, TypeOK, storageVars, waitVars, syncVars
<1>2. CASE NodeStep
  BY <1>2 DEF NodeStep, TypeOK, storageVars, waitVars, syncVars
<1>3. CASE Restart
  <2>1. WaiterType'
    BY <1>3 DEF Restart, NoEntries, WaiterType
  <2>2. FetcherType'
    BY <1>3, NoJobIsJob DEF Restart, FetcherType, PC
  <2>3. nextIndex' \in Index
    BY <1>3, HeadIsBlock, HeadersAssumption DEF Restart, StartIndex, TypeOK
  <2>4. restarts' \in 0 .. MaxRestarts
    BY <1>3, FetchersAssumption DEF Restart, TypeOK
  <2>5. /\ nodeTip' \in Block /\ chain' \in Seq(Block) /\ coins' \subseteq Coin
        /\ stored' \subseteq Block /\ coinCache' \subseteq Coin /\ seenMoved' \subseteq Fetcher
    BY <1>3 DEF Restart, TypeOK, storageVars
  <2>6. waiterLocked' = FALSE /\ rangeEnd' = 0 /\ nextFetch' = 1
    BY <1>3 DEF Restart
  <2>7. reorgStart' = NotInReorg /\ syncerPc' = "process"
    BY <1>3 DEF Restart
  <2>8. waiterLocked' \in BOOLEAN
    BY <2>6
  <2>9. /\ rangeEnd' \in Nat /\ nextFetch' \in Index
        /\ reorgStart' \in Index \cup {NotInReorg}
        /\ syncerPc' \in {"process", "clean", "abort"}
    BY <2>6, <2>7
  <2> QED BY <2>1, <2>2, <2>3, <2>4, <2>5, <2>8, <2>9 DEF TypeOK, WaiterType, FetcherType
<1> QED BY <1>1, <1>2, <1>3

\* Every step keeps the types of all variables.
LEMMA TypeNext ==
    ASSUME TypeOK, JobShape, ListenersCounted, [Next]_vars PROVE TypeOK'
<1>1. ASSUME NEW f \in Fetcher, FetcherStep(f) PROVE TypeOK'
  BY <1>1, FetchBlockType, CheckHeaderMatchType, FindCoinsType, SnapshotType,
     LookUpCacheType, RegisterListenerType, StopListeningType, WaitDoneType, BlockSeenType
     DEF FetcherStep
<1> QED
  BY <1>1, SyncerType, EnvironmentType DEF Next

-----------------------------------------------------------------------------
(* The local variables of the fetchers *)

\* Only fetcher f moved, to step p with local variables j.
LEMMA ShapeFrame ==
    ASSUME TypeOK, JobShape, NEW f \in Fetcher, NEW p, NEW j,
           Goto(f, p), SetJob(f, j), Shape(p, j)
    PROVE  JobShape'
BY DEF TypeOK, JobShape

\* A step that changes no fetcher's locals, or f's step only.
LEMMA ShapeGoto ==
    ASSUME TypeOK, JobShape, NEW f \in Fetcher, NEW p,
           Goto(f, p), UNCHANGED job, Shape(p, job[f])
    PROVE  JobShape'
BY DEF TypeOK, JobShape

\* The locals of an idle or starting fetcher fit its place.
LEMMA ShapeNoJob ==
    /\ Shape("idle", NoJob)
    /\ \A i \in Nat : Shape("fetch", [NoJob EXCEPT !.index = i])
BY DEF Shape, NoJob

\* Back at the loop of findCoins the locals fit the place.
LEMMA ShapeFound ==
    ASSUME TypeOK, JobShape, NEW f \in Fetcher, Found(f) \/ Retry(f),
           pc[f] \in {"snapshot", "cache", "lock"}
    PROVE  JobShape'
<1>1. Shape(pc[f], job[f]) /\ job[f] \in Job
  BY DEF JobShape, TypeOK
<1>2. CASE Found(f)
  <2> DEFINE j == [job[f] EXCEPT !.todo = @ \ {job[f].input}, !.input = None, !.head = None]
  <2>1. Shape("find", j)
    BY <1>1 DEF Shape, Job
  <2> QED BY <1>2, <2>1, ShapeFrame DEF Found
<1>3. CASE Retry(f)
  <2> DEFINE j == [job[f] EXCEPT !.input = None, !.head = None]
  <2>1. Shape("find", j)
    BY <1>1 DEF Shape, Job
  <2> QED BY <1>3, <2>1, ShapeFrame DEF Retry
<1> QED BY <1>2, <1>3

\* Every step of a fetch leaves its locals fitting the place it goes to.
LEMMA ShapeFetcherStep ==
    ASSUME TypeOK, JobShape, NEW f \in Fetcher, FetcherStep(f) PROVE JobShape'
<1>0. Shape(pc[f], job[f]) /\ job[f] \in Job
  BY DEF JobShape, TypeOK
<1>1. CASE FetchBlock(f)
  <2>1. PICK b \in Block : /\ Height[b] = job[f].index
                           /\ SetJob(f, [job[f] EXCEPT !.block = b, !.todo = GetInputsForTxs(b)])
    BY <1>1 DEF FetchBlock
  <2> DEFINE j == [job[f] EXCEPT !.block = b, !.todo = GetInputsForTxs(b)]
  <2>2. Shape("check", j)
    BY <1>0, <1>1, <2>1 DEF Shape, Job, FetchBlock
  <2> QED BY <1>1, <2>1, <2>2, ShapeFrame DEF FetchBlock
<1>2. CASE CheckHeaderMatch(f)
  <2>1. CASE Deliver(f, OrphanHead)
    BY <2>1, ShapeNoJob, ShapeFrame DEF Deliver
  <2>2. CASE Goto(f, "find") /\ UNCHANGED job
    <3>1. Shape("find", job[f])
      BY <1>0, <1>2 DEF Shape, CheckHeaderMatch
    <3> QED BY <2>2, <3>1, ShapeGoto
  <2> QED BY <1>2, <2>1, <2>2 DEF CheckHeaderMatch
<1>3. CASE FindCoins(f)
  <2>1. CASE job[f].todo = {}
    <3> DEFINE p == IF job[f].remaining = {} THEN "see" ELSE "wait"
    <3>1. Shape(p, job[f])
      BY <1>0, <1>3 DEF Shape, FindCoins
    <3> QED BY <1>3, <2>1, <3>1, ShapeGoto DEF FindCoins
  <2>2. CASE job[f].todo # {}
    <3>1. PICK in \in job[f].todo : SetJob(f, [job[f] EXCEPT !.input = in])
      BY <1>3, <2>2 DEF FindCoins
    <3> DEFINE j == [job[f] EXCEPT !.input = in]
    <3>2. Shape("snapshot", j)
      BY <1>0, <1>3 DEF Shape, Job, FindCoins
    <3> QED BY <1>3, <2>2, <3>1, <3>2, ShapeFrame DEF FindCoins
  <2> QED BY <2>1, <2>2
<1>4. CASE Snapshot(f)
  <2>1. CASE SetJob(f, [job[f] EXCEPT !.head = HeadBlock]) /\ Goto(f, "cache")
    <3> DEFINE j == [job[f] EXCEPT !.head = HeadBlock]
    <3>1. Shape("cache", j)
      BY <1>0, <1>4 DEF Shape, Job, Snapshot
    <3> QED BY <2>1, <3>1, ShapeFrame
  <2> QED BY <1>4, <2>1, ShapeFound DEF Snapshot
<1>5. CASE LookUpCache(f)
  <2>1. CASE Goto(f, "lock") /\ UNCHANGED job
    <3>1. Shape("lock", job[f])
      BY <1>0, <1>5 DEF Shape, LookUpCache
    <3> QED BY <2>1, <3>1, ShapeGoto
  <2> QED BY <1>5, <2>1, ShapeFound DEF LookUpCache
<1>6. CASE RegisterListener(f)
  <2> DEFINE in == job[f].input
             j == [job[f] EXCEPT !.todo = @ \ {in}, !.remaining = @ \cup {in},
                                 !.listening = @ \cup {in}, !.input = None, !.head = None]
  <2>1. CASE SetJob(f, j) /\ Goto(f, "find")
    <3>1. Shape("find", j)
      BY <1>0, <1>6 DEF Shape, Job, RegisterListener
    <3> HIDE DEF j
    <3> QED BY <2>1, <3>1, ShapeFrame
  <2>2. CASE Fail(f) /\ UNCHANGED job
    <3>1. Shape("failed", job[f])
      BY <1>0, <1>6 DEF Shape, RegisterListener
    <3> QED BY <2>2, <3>1, ShapeGoto
  <2> QED BY <1>6, <2>1, <2>2, ShapeFound DEF RegisterListener
<1>7. CASE StopListening(f)
  <2>1. PICK in \in job[f].listening :
          \/ /\ SetJob(f, [job[f] EXCEPT !.listening = @ \ {in},
                                         !.abort = @ \/ waiter[in.tx].aborted])
             /\ UNCHANGED pc
          \/ Fail(f) /\ UNCHANGED job
    BY <1>7 DEF StopListening
  <2> DEFINE j == [job[f] EXCEPT !.listening = @ \ {in}, !.abort = @ \/ waiter[in.tx].aborted]
  <2>2. Shape("wait", j) /\ Shape("failed", job[f])
    BY <1>0, <1>7 DEF Shape, Job, StopListening
  <2>3. CASE SetJob(f, j) /\ UNCHANGED pc
    <3>1. Goto(f, "wait")
      BY <1>7, <2>3 DEF StopListening, TypeOK
    <3> HIDE DEF j
    <3> QED BY <2>2, <2>3, <3>1, ShapeFrame
  <2> QED BY <2>1, <2>2, <2>3, ShapeGoto
<1>8. CASE WaitDone(f)
  <2> DEFINE j == [job[f] EXCEPT !.todo = job[f].remaining, !.remaining = {}]
  <2>1. CASE Deliver(f, OrphanHead)
    BY <2>1, ShapeNoJob, ShapeFrame DEF Deliver
  <2>2. CASE SetJob(f, j) /\ Goto(f, "check")
    <3>1. Shape("check", j)
      BY <1>0, <1>8 DEF Shape, Job, WaitDone
    <3> QED BY <2>2, <3>1, ShapeFrame
  <2> QED BY <1>8, <2>1, <2>2 DEF WaitDone
<1>9. CASE SeeCoins(f) \/ CountSeen(f) \/ StoreSeen(f)
  <2>1. \A p \in {"count", "store", "wake"} : Shape(p, job[f])
    BY <1>0, <1>9 DEF Shape, SeeCoins, CountSeen, StoreSeen
  <2>2. UNCHANGED job /\ \E p \in {"count", "store", "wake"} : Goto(f, p)
    BY <1>9 DEF SeeCoins, CountSeen, StoreSeen
  <2> QED BY <2>1, <2>2, ShapeGoto
<1>10. CASE WakeListeners(f)
  BY <1>10, ShapeNoJob, ShapeFrame DEF WakeListeners, Deliver
<1> QED
  BY <1>1, <1>2, <1>3, <1>4, <1>5, <1>6, <1>7, <1>8, <1>9, <1>10 DEF FetcherStep

\* Every step keeps the locals of all fetchers fitting their places.
LEMMA ShapeNext ==
    ASSUME TypeOK, JobShape, [Next]_vars PROVE JobShape'
<1>1. ASSUME NEW w \in Worker, TakeIndex(w) PROVE JobShape'
  BY <1>1, ShapeNoJob, ShapeFrame DEF TakeIndex, Fetching, Fetcher, TypeOK
<1>2. ASSUME FetchInReorg PROVE JobShape'
  BY <1>2, ShapeNoJob, ShapeFrame DEF FetchInReorg, Fetching, Fetcher, TypeOK
<1>3. ASSUME UNCHANGED <<pc, job>> PROVE JobShape'
  BY <1>3 DEF JobShape
<1>4. ASSUME Restart PROVE JobShape'
  BY <1>4, ShapeNoJob DEF Restart, JobShape
<1> QED
  BY <1>1, <1>2, <1>3, <1>4, ShapeFetcherStep
     DEF Next, SyncerStep, StartRange, LeaveReorg, BlockRemoved, AddBlock, CleanCache,
         AbortListeners, PollTip, NodeStep, vars

-----------------------------------------------------------------------------
(* The listeners of the wait table *)

\* ListenersCounted, with the finiteness Cardinality needs.
CountInv == ListenersCounted /\ \A k \in Tx : IsFiniteSet(Registrations(k))

\* Nobody's registrations changed, and no entry came, went or lost a listener.
LEMMA CountFrame ==
    ASSUME CountInv,
           \A f \in Fetcher : job'[f].listening = job[f].listening,
           DOMAIN waiter' = DOMAIN waiter,
           \A k \in DOMAIN waiter : waiter'[k].listeners = waiter[k].listeners
    PROVE  CountInv'
<1>1. \A k : Registrations(k)' = Registrations(k)
  BY DEF Registrations
<1> QED BY <1>1 DEF CountInv, ListenersCounted

\* Every step of a fetcher but two leaves the registrations alone.
LEMMA ListeningKept ==
    ASSUME TypeOK, JobShape, NEW f \in Fetcher, FetcherStep(f),
           ~RegisterListener(f), ~StopListening(f)
    PROVE  \A g \in Fetcher : job'[g].listening = job[g].listening
<1>0. Shape(pc[f], job[f]) /\ job[f] \in Job /\ NoJob.listening = {}
  BY DEF JobShape, TypeOK, NoJob
<1>1. ASSUME NEW b, Deliver(f, b), job[f].listening = {}
      PROVE  \A g \in Fetcher : job'[g].listening = job[g].listening
  BY <1>0, <1>1 DEF Deliver, TypeOK
<1>2. ASSUME NEW j, SetJob(f, j), j.listening = job[f].listening
      PROVE  \A g \in Fetcher : job'[g].listening = job[g].listening
  BY <1>2 DEF TypeOK
<1>3. CASE FetchBlock(f)
  <2>1. PICK b \in Block : SetJob(f, [job[f] EXCEPT !.block = b, !.todo = GetInputsForTxs(b)])
    BY <1>3 DEF FetchBlock
  <2> QED BY <1>0, <1>2, <2>1 DEF Job
<1>4. CASE CheckHeaderMatch(f)
  <2>1. job[f].listening = {}
    BY <1>0, <1>4 DEF CheckHeaderMatch, Shape
  <2> QED BY <1>1, <1>4, <2>1 DEF CheckHeaderMatch
<1>5. CASE FindCoins(f)
  <2>1. UNCHANGED job \/ \E in \in job[f].todo : SetJob(f, [job[f] EXCEPT !.input = in])
    BY <1>5 DEF FindCoins
  <2>2. \A in : [job[f] EXCEPT !.input = in].listening = job[f].listening
    BY <1>0 DEF Job
  <2> QED BY <1>2, <2>1, <2>2
<1>6. CASE Found(f) \/ Retry(f) \/ SetJob(f, [job[f] EXCEPT !.head = HeadBlock])
  <2>1. /\ [job[f] EXCEPT !.head = HeadBlock].listening = job[f].listening
        /\ [job[f] EXCEPT !.input = None, !.head = None].listening = job[f].listening
        /\ [job[f] EXCEPT !.todo = @ \ {job[f].input}, !.input = None,
                          !.head = None].listening = job[f].listening
    BY <1>0 DEF Job
  <2> QED BY <1>2, <1>6, <2>1 DEF Found, Retry
<1>7. CASE WaitDone(f)
  <2>1. job[f].listening = {}
    BY <1>7 DEF WaitDone
  <2>2. [job[f] EXCEPT !.todo = job[f].remaining, !.remaining = {}].listening = job[f].listening
    BY <1>0 DEF Job
  <2> QED BY <1>1, <1>2, <1>7, <2>1, <2>2 DEF WaitDone
<1>8. CASE WakeListeners(f)
  <2>1. job[f].listening = {}
    BY <1>0, <1>8 DEF WakeListeners, Shape
  <2> QED BY <1>1, <1>8, <2>1 DEF WakeListeners
<1> QED
  BY <1>3, <1>4, <1>5, <1>6, <1>7, <1>8
     DEF FetcherStep, Snapshot, LookUpCache, SeeCoins, CountSeen, StoreSeen

\* Fetcher f registers for one more input.
LEMMA CountAdd ==
    ASSUME TypeOK, CountInv, NEW f \in Fetcher, NEW in \in TxCoin, NEW h \in Index,
           in \notin job[f].listening,
           job'[f].listening = job[f].listening \cup {in},
           \A g \in Fetcher \ {f} : job'[g].listening = job[g].listening,
           waiter' = Listen(in.tx, h)
    PROVE  CountInv'
<1>1. PICK k \in Tx : k = in.tx
  BY DEF TxCoin
<1>2. /\ Registrations(k)' = Registrations(k) \cup {<<f, in>>}
      /\ <<f, in>> \notin Registrations(k)
  <2>1. ASSUME NEW g \in Fetcher, NEW i \in TxCoin
        PROVE  (i \in job'[g].listening /\ i.tx = k)
               <=> (i \in job[g].listening /\ i.tx = k) \/ (g = f /\ i = in)
    BY <1>1
  <2> QED BY <2>1 DEF Registrations
<1>3. ASSUME NEW x \in Tx \ {k} PROVE Registrations(x)' = Registrations(x)
  <2>1. ASSUME NEW g \in Fetcher, NEW i \in TxCoin
        PROVE  (i \in job'[g].listening /\ i.tx = x) <=> (i \in job[g].listening /\ i.tx = x)
    BY <1>1
  <2> QED BY <2>1 DEF Registrations
<1>4. /\ IsFiniteSet(Registrations(k)')
      /\ Cardinality(Registrations(k)') = Cardinality(Registrations(k)) + 1
  BY <1>1, <1>2, FS_AddElement DEF CountInv
<1>5. /\ DOMAIN waiter' = DOMAIN waiter \cup {k}
      /\ waiter'[k].listeners = IF k \in DOMAIN waiter THEN waiter[k].listeners + 1 ELSE 1
      /\ \A x \in DOMAIN waiter \ {k} : waiter'[x] = waiter[x]
  <2>1. WaiterType /\ waiter' = Listen(k, h)
    BY <1>1 DEF TypeOK, WaiterType
  <2>2. /\ DOMAIN Listen(k, h) = DOMAIN waiter \cup {k}
        /\ Listen(k, h)[k].listeners =
               IF k \in DOMAIN waiter THEN waiter[k].listeners + 1 ELSE 1
        /\ \A x \in DOMAIN waiter \ {k} : Listen(k, h)[x] = waiter[x]
    BY <2>1, ListenType
  <2> QED BY <2>1, <2>2
<1>6. waiter'[k].listeners = Cardinality(Registrations(k)) + 1
  <2>1. CASE k \in DOMAIN waiter
    BY <1>5, <2>1 DEF CountInv, ListenersCounted
  <2>2. CASE k \notin DOMAIN waiter
    <3>1. Registrations(k) = {}
      BY <2>2 DEF CountInv, ListenersCounted, Registrations
    <3> QED BY <1>5, <2>2, <3>1, FS_EmptySet
  <2> QED BY <2>1, <2>2
<1>7. Cardinality(Registrations(k)) \in Nat
  BY <1>1, FS_CardinalityType DEF CountInv
<1>8. waiter'[k].listeners = Cardinality(Registrations(k)') /\ waiter'[k].listeners > 0
  BY <1>4, <1>6, <1>7
<1>9. ASSUME NEW x \in DOMAIN waiter \ {k}
      PROVE  waiter'[x].listeners = Cardinality(Registrations(x)') /\ waiter'[x].listeners > 0
  BY <1>3, <1>5 DEF CountInv, ListenersCounted, TypeOK
<1>10. \A g \in Fetcher : \A i \in job'[g].listening : i.tx \in DOMAIN waiter'
  BY <1>1, <1>5 DEF CountInv, ListenersCounted
<1>11. ASSUME NEW x \in Tx PROVE IsFiniteSet(Registrations(x)')
  BY <1>3, <1>4 DEF CountInv
<1>12. ListenersCounted'
  BY <1>5, <1>8, <1>9, <1>10 DEF ListenersCounted
<1> QED BY <1>11, <1>12 DEF CountInv

\* Registering keeps the count: the input was not yet listened for.
LEMMA CountRegister ==
    ASSUME TypeOK, JobShape, CountInv, NEW f \in Fetcher, RegisterListener(f)
    PROVE  CountInv'
<1>0. Shape("lock", job[f]) /\ job[f] \in Job
  BY DEF JobShape, TypeOK, RegisterListener
<1>1. PICK in \in TxCoin : in = job[f].input /\ in \notin job[f].listening
  BY <1>0 DEF Shape, Job
<1>2. PICK h \in Index : h = Height[job[f].block]
  BY <1>0, HeadersAssumption DEF Shape
<1> DEFINE j == [job[f] EXCEPT !.todo = @ \ {in}, !.remaining = @ \cup {in},
                               !.listening = @ \cup {in}, !.input = None, !.head = None]
<1>3. CASE UNCHANGED <<job, waiter>>
  BY <1>3, CountFrame
<1>4. CASE Retry(f) /\ UNCHANGED waiter
  <2>1. [job[f] EXCEPT !.input = None, !.head = None].listening = job[f].listening
    BY <1>0 DEF Job
  <2>2. \A g \in Fetcher : job'[g].listening = job[g].listening
    BY <1>4, <2>1 DEF Retry, TypeOK
  <2> QED BY <1>4, <2>2, CountFrame
<1>5. CASE waiter' = Listen(in.tx, h) /\ SetJob(f, j)
  <2>1. j.listening = job[f].listening \cup {in}
    BY <1>0 DEF Job
  <2> HIDE DEF j
  <2>2. /\ job'[f].listening = job[f].listening \cup {in}
        /\ \A g \in Fetcher \ {f} : job'[g].listening = job[g].listening
    BY <1>5, <2>1 DEF TypeOK
  <2> QED BY <1>1, <1>2, <1>5, <2>2, CountAdd
<1> QED
  BY <1>1, <1>2, <1>3, <1>4, <1>5 DEF RegisterListener

\* Fetcher f gives one registration up.
LEMMA CountRemove ==
    ASSUME TypeOK, CountInv, NEW f \in Fetcher, NEW in \in TxCoin,
           in \in job[f].listening,
           job'[f].listening = job[f].listening \ {in},
           \A g \in Fetcher \ {f} : job'[g].listening = job[g].listening,
           waiter' = Leave(in.tx)
    PROVE  CountInv'
<1>1. PICK k \in Tx : k = in.tx /\ k \in DOMAIN waiter
  BY DEF TxCoin, CountInv, ListenersCounted
<1>2. /\ Registrations(k)' = Registrations(k) \ {<<f, in>>}
      /\ <<f, in>> \in Registrations(k)
  <2>1. ASSUME NEW g \in Fetcher, NEW i \in TxCoin
        PROVE  (i \in job'[g].listening /\ i.tx = k)
               <=> (i \in job[g].listening /\ i.tx = k) /\ ~(g = f /\ i = in)
    BY <1>1
  <2>2. in.tx = k
    BY <1>1
  <2> QED BY <2>1, <2>2 DEF Registrations
<1>3. ASSUME NEW x \in Tx \ {k} PROVE Registrations(x)' = Registrations(x)
  <2>1. ASSUME NEW g \in Fetcher, NEW i \in TxCoin
        PROVE  (i \in job'[g].listening /\ i.tx = x) <=> (i \in job[g].listening /\ i.tx = x)
    BY <1>1
  <2> QED BY <2>1 DEF Registrations
<1>4. /\ IsFiniteSet(Registrations(k)')
      /\ Cardinality(Registrations(k)') = Cardinality(Registrations(k)) - 1
      /\ Cardinality(Registrations(k)') \in Nat
  BY <1>1, <1>2, FS_RemoveElement, FS_CardinalityType DEF CountInv
<1>5. waiter[k].listeners = Cardinality(Registrations(k))
  BY <1>1 DEF CountInv, ListenersCounted
<1>6. ASSUME NEW x \in Tx PROVE IsFiniteSet(Registrations(x)')
  BY <1>3, <1>4 DEF CountInv
<1>7. waiter' = Leave(k) /\ waiter[k] \in Entry
  BY <1>1 DEF TypeOK
<1>8. CASE waiter[k].listeners = 1
  <2>1. DOMAIN waiter' = DOMAIN waiter \ {k} /\ \A x \in DOMAIN waiter \ {k} : waiter'[x] = waiter[x]
    BY <1>7, <1>8 DEF Leave
  <2>2. Registrations(k)' = {}
    BY <1>4, <1>5, <1>8, FS_EmptySet
  <2>3. ASSUME NEW g \in Fetcher, NEW i \in job'[g].listening PROVE i.tx \in DOMAIN waiter'
    <3>1. i \in job[g].listening /\ i \in TxCoin
      BY DEF TypeOK, Job
    <3>2. i.tx \in DOMAIN waiter
      BY <3>1 DEF CountInv, ListenersCounted
    <3>3. i.tx = k => <<g, i>> \in Registrations(k)'
      BY <3>1 DEF Registrations
    <3>4. i.tx # k
      BY <2>2, <3>3
    <3> QED BY <2>1, <3>2, <3>4
  <2>4. ASSUME NEW x \in DOMAIN waiter'
        PROVE  waiter'[x].listeners = Cardinality(Registrations(x)') /\ waiter'[x].listeners > 0
    BY <1>3, <2>1 DEF CountInv, ListenersCounted, TypeOK
  <2> QED BY <1>6, <2>3, <2>4 DEF CountInv, ListenersCounted
<1>9. CASE waiter[k].listeners # 1
  <2>1. /\ DOMAIN waiter' = DOMAIN waiter
        /\ waiter'[k].listeners = waiter[k].listeners - 1
        /\ \A x \in DOMAIN waiter \ {k} : waiter'[x] = waiter[x]
    BY <1>1, <1>7, <1>9 DEF Leave, Entry, TypeOK
  <2>2. waiter'[k].listeners = Cardinality(Registrations(k)') /\ waiter'[k].listeners > 0
    <3>1. waiter'[k].listeners = Cardinality(Registrations(k)')
      BY <1>4, <1>5, <2>1
    <3>2. waiter'[k].listeners \in Nat /\ waiter[k].listeners \in Nat /\ waiter[k].listeners > 0
      BY <1>1, <1>4, <1>7, <3>1 DEF CountInv, ListenersCounted, Entry
    <3> QED BY <1>9, <2>1, <3>1, <3>2
  <2>3. ASSUME NEW x \in DOMAIN waiter \ {k}
        PROVE  waiter'[x].listeners = Cardinality(Registrations(x)') /\ waiter'[x].listeners > 0
    BY <1>3, <2>1 DEF CountInv, ListenersCounted, TypeOK
  <2>4. \A g \in Fetcher : \A i \in job'[g].listening : i.tx \in DOMAIN waiter'
    BY <2>1 DEF CountInv, ListenersCounted
  <2>5. ListenersCounted'
    BY <2>1, <2>2, <2>3, <2>4 DEF ListenersCounted
  <2> QED BY <1>6, <2>5 DEF CountInv
<1> QED BY <1>8, <1>9

\* Giving a registration up keeps the count.
LEMMA CountStop ==
    ASSUME TypeOK, CountInv, NEW f \in Fetcher, StopListening(f)
    PROVE  CountInv' /\ UNCHANGED <<pc, waiterLocked>>
<1>1. PICK in \in job[f].listening :
         IF in.tx \in DOMAIN waiter
         THEN /\ waiter[in.tx].closed
              /\ waiter' = Leave(in.tx)
              /\ SetJob(f, [job[f] EXCEPT !.listening = @ \ {in},
                                          !.abort = @ \/ waiter[in.tx].aborted])
              /\ UNCHANGED <<pc, waiterLocked>>
         ELSE Fail(f) /\ waiterLocked' = TRUE /\ UNCHANGED <<waiter, job>>
  BY DEF StopListening
<1>2. in.tx \in DOMAIN waiter /\ in \in TxCoin /\ job[f] \in Job
  BY DEF CountInv, ListenersCounted, TypeOK, Job
<1> DEFINE j == [job[f] EXCEPT !.listening = @ \ {in}, !.abort = @ \/ waiter[in.tx].aborted]
<1>3. j.listening = job[f].listening \ {in}
  BY <1>2 DEF Job
<1> HIDE DEF j
<1>4. /\ job'[f].listening = job[f].listening \ {in}
      /\ \A g \in Fetcher \ {f} : job'[g].listening = job[g].listening
  BY <1>1, <1>2, <1>3 DEF TypeOK, j
<1> QED BY <1>1, <1>2, <1>4, CountRemove

\* Nobody is registered initially.
LEMMA CountInit == Init => CountInv
<1> SUFFICES ASSUME Init PROVE CountInv
  OBVIOUS
<1>1. \A f \in Fetcher : job[f].listening = {}
  BY DEF Init, NoJob
<1>2. DOMAIN waiter = {}
  BY DEF Init, NoEntries
<1>3. \A k \in Tx : Registrations(k) = {}
  BY <1>1 DEF Registrations
<1> QED BY <1>1, <1>2, <1>3, FS_EmptySet DEF CountInv, ListenersCounted

\* Every step keeps the listeners of all entries counted.
LEMMA CountNext ==
    ASSUME TypeOK, JobShape, CountInv, [Next]_vars PROVE CountInv'
<1>1. ASSUME NEW f \in Fetcher, FetcherStep(f) PROVE CountInv'
  <2>1. CASE RegisterListener(f) \/ StopListening(f)
    BY <2>1, CountRegister, CountStop
  <2>2. CASE ~RegisterListener(f) /\ ~StopListening(f)
    <3>1. \A g \in Fetcher : job'[g].listening = job[g].listening
      BY <1>1, <2>2, ListeningKept
    <3>2. CASE WakeListeners(f)
      <4>1. DOMAIN waiter' = DOMAIN waiter
        BY <3>2 DEF WakeListeners
      <4>2. \A k \in DOMAIN waiter : waiter'[k].listeners = waiter[k].listeners
        BY <3>2 DEF WakeListeners, TypeOK, Entry
      <4> QED BY <3>1, <4>1, <4>2, CountFrame
    <3>3. CASE ~WakeListeners(f)
      <4>1. UNCHANGED waiter
        BY <1>1, <2>2, <3>3
           DEF FetcherStep, FetchBlock, CheckHeaderMatch, FindCoins, Snapshot, LookUpCache,
               WaitDone, SeeCoins, CountSeen, StoreSeen, waitVars
      <4> QED BY <3>1, <4>1, CountFrame
    <3> QED BY <3>2, <3>3
  <2> QED BY <2>1, <2>2
<1>2. ASSUME NEW f \in Fetcher, NEW i \in Nat, Fetching(f, i), pc[f] = "idle", UNCHANGED waiter
      PROVE  CountInv'
  <2>1. job[f].listening = {} /\ [NoJob EXCEPT !.index = i].listening = {}
    BY <1>2 DEF JobShape, Shape, NoJob
  <2>2. \A g \in Fetcher : job'[g].listening = job[g].listening
    BY <1>2, <2>1 DEF Fetching, TypeOK
  <2> QED BY <1>2, <2>2, CountFrame
<1>3. ASSUME NEW w \in Worker, TakeIndex(w) PROVE CountInv'
  BY <1>2, <1>3 DEF TakeIndex, Fetcher, TypeOK, waitVars
<1>4. CASE FetchInReorg
  BY <1>2, <1>4 DEF FetchInReorg, Processing, Fetcher, TypeOK, waitVars
<1>5. CASE AbortListeners
  <2>1. DOMAIN waiter' = DOMAIN waiter /\ UNCHANGED job
    BY <1>5 DEF AbortListeners
  <2>2. \A k \in DOMAIN waiter : waiter'[k].listeners = waiter[k].listeners
    BY <1>5 DEF AbortListeners, TypeOK, Entry
  <2> QED BY <2>1, <2>2, CountFrame
<1>6. CASE Restart
  BY <1>6, FS_EmptySet DEF Restart, CountInv, ListenersCounted, Registrations, NoJob, NoEntries
<1>7. CASE UNCHANGED <<job, waiter>>
  BY <1>7, CountFrame
<1> QED
  BY <1>1, <1>3, <1>4, <1>5, <1>6, <1>7
     DEF Next, SyncerStep, StartRange, LeaveReorg, BlockRemoved, AddBlock, CleanCache,
         PollTip, NodeStep, vars, waitVars

-----------------------------------------------------------------------------
(* The storage is a ledger, and the sequencer finds every coin in it *)

\* The stored chain is a path from the genesis block, and the coins are those
\* unspent after its head.
LinkInv ==
    /\ chain # << >> => chain[1] = Genesis
    /\ \A n \in 2 .. Len(chain) : chain[n] # Genesis /\ Parent[chain[n]] = chain[n - 1]
    /\ coins = IF chain = << >> THEN GenesisCoins ELSE Unspent[HeadBlock]

\* The next index is the one after the head, and results are of their index.
IndexInv ==
    /\ syncerPc # "process" => chain # << >>
    /\ nextIndex = IF chain = << >> THEN 1
                   ELSE Height[HeadBlock] + (IF syncerPc = "process" THEN 1 ELSE 0)
    /\ \A r \in results : r.block \in Block => r.index = Height[r.block]

\* Nobody gets past the snapshot before there is a head: the genesis block finds
\* its coins among those that were bootstrapped.
LookInv == \A f \in Fetcher : pc[f] \in {"cache", "lock"} => chain # << >>

\* A fetch of the sequencer is for the next index and, once its header was
\* checked, for a block whose coins are all in the storage.
SequencerInv ==
    /\ pc[Sequencer] # "idle" =>
           syncerPc = "process" /\ job[Sequencer].index = nextIndex
    /\ pc[Sequencer] \in {"find", "snapshot", "see", "count", "store", "wake"} =>
           /\ UnspentBefore(job[Sequencer].block) = coins
           /\ job[Sequencer].remaining = {}
    /\ pc[Sequencer] \notin {"cache", "lock", "wait"}

IInv == TypeOK /\ JobShape /\ CountInv /\ LinkInv /\ IndexInv /\ LookInv /\ SequencerInv
        /\ NoLockLeak

\* Removing a block undoes what adding it did to the coins.
LEMMA UndoBlock ==
    ASSUME NEW b \in Block
    PROVE  (Unspent[b] \ Creates(b)) \cup (Spends(b) \ Creates(b)) = UnspentBefore(b)
<1>1. /\ Spends(b) \subseteq UnspentBefore(b) \cup Creates(b)
      /\ Creates(b) \cap UnspentBefore(b) = {}
      /\ Unspent[b] = (UnspentBefore(b) \cup Creates(b)) \ Spends(b)
  BY ValidBlocks
<1> QED BY <1>1

\* The block at height 1 is the genesis block.
LEMMA HeightOne == \A b \in Block : Height[b] = 1 <=> b = Genesis
<1> SUFFICES ASSUME NEW b \in Block PROVE Height[b] = 1 <=> b = Genesis
  OBVIOUS
<1>1. CASE b # Genesis
  <2>1. Height[b] = Height[Parent[b]] + 1 /\ Height[Parent[b]] \in Nat \ {0}
    BY <1>1, HeadersAssumption
  <2> QED BY <1>1, <2>1
<1> QED BY <1>1, HeadersAssumption

\* An added block is the genesis block or a child of the head.
LEMMA AddStep ==
    ASSUME TypeOK, LinkInv, IndexInv, NEW r \in results, AddBlock(r)
    PROVE  /\ r.block \in Block
           /\ chain = << >> => r.block = Genesis
           /\ chain # << >> => r.block # Genesis /\ Parent[r.block] = HeadBlock
           /\ UnspentBefore(r.block) = coins
           /\ chain' = Append(chain, r.block) /\ coins' = Unspent[r.block]
           /\ HeadBlock' = r.block /\ chain' # << >>
           /\ Height[r.block] = nextIndex
<1>1. r.block \in Block /\ r.index = nextIndex /\ Height[r.block] = nextIndex
  BY DEF AddBlock, IndexInv
<1>2. chain = << >> => r.block = Genesis
  BY <1>1, HeightOne DEF IndexInv
<1>3. ASSUME chain # << >> PROVE r.block # Genesis /\ Parent[r.block] = HeadBlock
  <2>1. Height[r.block] = Height[HeadBlock] + 1 /\ Height[HeadBlock] \in Nat \ {0}
    BY <1>1, <1>3, HeadIsBlock, HeadersAssumption DEF AddBlock, IndexInv, Processing, TypeOK
  <2> QED BY <1>1, <1>3, <2>1, HeightOne DEF AddBlock, Connects
<1>4. UnspentBefore(r.block) = coins
  BY <1>2, <1>3 DEF UnspentBefore, LinkInv
<1>5. coins' = Unspent[r.block]
  BY <1>1, <1>4, ValidBlocks DEF AddBlock, CoinsAfter
<1>6. chain' = Append(chain, r.block)
  BY DEF AddBlock
<1>7. HeadBlock' = r.block /\ chain' # << >>
  BY <1>1, <1>6 DEF HeadBlock, TypeOK
<1> QED BY <1>1, <1>2, <1>3, <1>4, <1>5, <1>6, <1>7

\* A removed block has a predecessor, which becomes the head.
LEMMA RemoveStep ==
    ASSUME TypeOK, LinkInv, NEW r \in results, BlockRemoved(r)
    PROVE  /\ chain # << >> /\ Len(chain) > 1
           /\ HeadBlock \in Block \ {Genesis}
           /\ chain' = SubSeq(chain, 1, Len(chain) - 1)
           /\ HeadBlock' = chain[Len(chain) - 1] /\ chain' # << >>
           /\ HeadBlock' = Parent[HeadBlock] /\ HeadBlock' \in Block
           /\ coins' = Unspent[chain[Len(chain) - 1]]
<1>1. chain # << >> /\ HeadBlock # Genesis
  BY DEF BlockRemoved, Connects
<1>2. HeadBlock \in Block /\ HeadBlock = chain[Len(chain)] /\ Len(chain) \in Nat \ {0}
  BY <1>1, HeadIsBlock DEF TypeOK
<1>3. Len(chain) > 1
  BY <1>1, <1>2 DEF LinkInv
<1>4. chain' = SubSeq(chain, 1, Len(chain) - 1)
  BY DEF BlockRemoved
<1>5. HeadBlock' = chain[Len(chain) - 1] /\ chain' # << >>
  <2> DEFINE n == Len(chain) - 1
  <2>1. n \in 1 .. Len(chain)
    BY <1>2, <1>3
  <2>2. Len(chain') = n /\ chain'[n] = chain[n]
    BY <1>4, <2>1 DEF TypeOK
  <2>3. chain' # << >>
    BY <2>1, <2>2
  <2> QED BY <2>2, <2>3 DEF HeadBlock
<1>6. chain[Len(chain) - 1] = Parent[HeadBlock] /\ chain[Len(chain) - 1] \in Block
  BY <1>2, <1>3 DEF LinkInv, TypeOK
<1>7. coins = Unspent[HeadBlock]
  BY <1>1 DEF LinkInv
<1>8. coins' = UnspentBefore(HeadBlock)
  BY <1>2, <1>7, UndoBlock DEF BlockRemoved, Reverted
<1> QED BY <1>1, <1>2, <1>3, <1>4, <1>5, <1>6, <1>8 DEF UnspentBefore

\* Every step keeps the stored chain a path from the genesis block, and the
\* stored coins those unspent after its head.
LEMMA LinkNext ==
    ASSUME TypeOK, LinkInv, IndexInv, [Next]_vars PROVE LinkInv'
<1>1. ASSUME NEW r \in results, AddBlock(r) PROVE LinkInv'
  <2>1. /\ chain = << >> => r.block = Genesis
        /\ chain # << >> => r.block # Genesis /\ Parent[r.block] = HeadBlock
        /\ chain' = Append(chain, r.block) /\ coins' = Unspent[r.block]
        /\ HeadBlock' = r.block /\ chain' # << >> /\ r.block \in Block
    BY <1>1, AddStep
  <2>2. chain'[1] = Genesis
    BY <2>1 DEF LinkInv, TypeOK
  <2>3. ASSUME NEW n \in 2 .. Len(chain') 
        PROVE  chain'[n] # Genesis /\ Parent[chain'[n]] = chain'[n - 1]
    <3>1. CASE n = Len(chain) + 1
      <4>1. chain # << >> /\ chain'[n] = r.block /\ chain'[n - 1] = HeadBlock
        BY <2>1, <3>1, HeadIsBlock DEF TypeOK
      <4> QED BY <2>1, <4>1
    <3>2. CASE n # Len(chain) + 1
      <4>1. n \in 2 .. Len(chain) /\ chain'[n] = chain[n] /\ chain'[n - 1] = chain[n - 1]
        BY <2>1, <3>2 DEF TypeOK
      <4> QED BY <4>1 DEF LinkInv
    <3> QED BY <3>1, <3>2
  <2> QED BY <2>1, <2>2, <2>3 DEF LinkInv
<1>2. ASSUME NEW r \in results, BlockRemoved(r) PROVE LinkInv'
  <2>1. /\ Len(chain) > 1 /\ chain' = SubSeq(chain, 1, Len(chain) - 1)
        /\ HeadBlock' = chain[Len(chain) - 1] /\ chain' # << >>
        /\ coins' = Unspent[chain[Len(chain) - 1]]
    BY <1>2, RemoveStep
  <2>2. Len(chain') = Len(chain) - 1 /\ \A n \in 1 .. Len(chain) - 1 : chain'[n] = chain[n]
    BY <2>1 DEF TypeOK
  <2>3. chain'[1] = Genesis
    BY <2>1, <2>2 DEF LinkInv, TypeOK
  <2>4. ASSUME NEW n \in 2 .. Len(chain')
        PROVE  chain'[n] # Genesis /\ Parent[chain'[n]] = chain'[n - 1]
    <3>1. n \in 2 .. Len(chain) /\ chain'[n] = chain[n] /\ chain'[n - 1] = chain[n - 1]
      <4>1. Len(chain) \in Nat /\ n \in 2 .. Len(chain) - 1 /\ n - 1 \in 1 .. Len(chain) - 1
        BY <2>2 DEF TypeOK
      <4> QED BY <2>2, <4>1
    <3> QED BY <3>1 DEF LinkInv
  <2> QED BY <2>1, <2>3, <2>4 DEF LinkInv
<1>3. ASSUME UNCHANGED <<chain, coins>> PROVE LinkInv'
  BY <1>3 DEF LinkInv, HeadBlock
<1> QED
  BY <1>1, <1>2, <1>3
     DEF Next, FetcherStep, FetchBlock, CheckHeaderMatch, FindCoins, Snapshot, LookUpCache,
         RegisterListener, StopListening, WaitDone, SeeCoins, CountSeen, StoreSeen,
         WakeListeners, TakeIndex, SyncerStep, StartRange, FetchInReorg, LeaveReorg,
         CleanCache, AbortListeners, PollTip, NodeStep, Restart, vars, storageVars

\* Every step keeps the sequencer's index next to the head.
LEMMA IndexNext ==
    ASSUME TypeOK, JobShape, LinkInv, IndexInv, [Next]_vars PROVE IndexInv'
<1>1. ASSUME NEW r \in results, AddBlock(r) PROVE IndexInv'
  <2>1. /\ HeadBlock' = r.block /\ chain' # << >> /\ Height[r.block] = nextIndex
        /\ r.block \in Block
    BY <1>1, AddStep
  <2>2. Height[r.block] \in Nat
    BY <2>1, HeadersAssumption
  <2> QED BY <1>1, <2>1, <2>2 DEF AddBlock, IndexInv, TypeOK
<1>2. ASSUME NEW r \in results, BlockRemoved(r) PROVE IndexInv'
  <2>1. /\ HeadBlock' = Parent[HeadBlock] /\ HeadBlock \in Block \ {Genesis} /\ chain' # << >>
    BY <1>2, RemoveStep
  <2>2. Height[HeadBlock] = Height[HeadBlock'] + 1
    BY <2>1, HeadersAssumption
  <2> QED BY <1>2, <2>1, <2>2 DEF BlockRemoved, IndexInv, Processing
<1>3. ASSUME AbortListeners PROVE IndexInv'
  <2>1. chain # << >> /\ Height[HeadBlock] \in Nat /\ syncerPc = "abort" /\ syncerPc' = "process"
    BY <1>3, HeadIsBlock, HeadersAssumption DEF AbortListeners, IndexInv, TypeOK
  <2>2. UNCHANGED <<chain, results>> /\ nextIndex' = nextIndex + 1
    BY <1>3 DEF AbortListeners, storageVars
  <2> QED BY <2>1, <2>2 DEF IndexInv, HeadBlock
<1>4. ASSUME CleanCache PROVE IndexInv'
  BY <1>4 DEF CleanCache, IndexInv, HeadBlock, storageVars
<1>5. ASSUME Restart PROVE IndexInv'
  <2>1. chain # << >> => Height[HeadBlock] \in Nat /\ HeadBlock # None
    BY HeadIsBlock, HeadersAssumption DEF TypeOK
  <2>2. chain = << >> => HeadBlock = None
    BY DEF HeadBlock
  <2> QED BY <1>5, <2>1, <2>2 DEF Restart, StartIndex, IndexInv, HeadBlock, storageVars
<1>6. ASSUME UNCHANGED <<chain, nextIndex, syncerPc>>, results' \subseteq results PROVE IndexInv'
  BY <1>6 DEF IndexInv, HeadBlock
<1>7. ASSUME NEW f \in Fetcher, NEW b \in Block \cup {OrphanHead}, Deliver(f, b),
             b = job[f].block \/ b = OrphanHead, pc[f] \in {"check", "wait", "wake"},
             UNCHANGED <<chain, nextIndex, syncerPc>>
      PROVE  IndexInv'
  <2>1. b \in Block => job[f].index = Height[b]
    BY <1>7, FetchersAssumption DEF JobShape, Shape
  <2>2. results' = results \cup {[index |-> job[f].index, block |-> b]}
    BY <1>7 DEF Deliver
  <2> QED BY <1>7, <2>1, <2>2 DEF IndexInv, HeadBlock
<1>8. ASSUME NEW f \in Fetcher, FetcherStep(f) PROVE IndexInv'
  <2>1. UNCHANGED <<chain, nextIndex, syncerPc>>
    BY <1>8 DEF FetcherStep, FetchBlock, CheckHeaderMatch, FindCoins, Snapshot, LookUpCache,
       RegisterListener, StopListening, WaitDone, SeeCoins, CountSeen, StoreSeen,
       WakeListeners, storageVars, syncVars
  <2>2. \/ UNCHANGED results
        \/ Deliver(f, OrphanHead) /\ pc[f] \in {"check", "wait"}
        \/ Deliver(f, job[f].block) /\ pc[f] = "wake"
    BY <1>8 DEF FetcherStep, FetchBlock, CheckHeaderMatch, FindCoins, Snapshot, LookUpCache,
       RegisterListener, StopListening, WaitDone, SeeCoins, CountSeen, StoreSeen, WakeListeners
  <2>3. pc[f] = "wake" => job[f].block \in Block
    BY <1>8 DEF JobShape, Shape
  <2> QED BY <1>6, <1>7, <2>1, <2>2, <2>3
<1>9. CASE \/ StartRange \/ FetchInReorg \/ LeaveReorg \/ PollTip \/ NodeStep \/ UNCHANGED vars
           \/ \E w \in Worker : TakeIndex(w)
  BY <1>6, <1>9 DEF StartRange, FetchInReorg, LeaveReorg, PollTip, NodeStep, TakeIndex, vars,
     storageVars, syncVars
<1> QED
  BY <1>1, <1>2, <1>3, <1>4, <1>5, <1>8, <1>9 DEF Next, SyncerStep

\* A step that can change the storage or the sequencer's place in a block.
StorageStep == \E r \in results : BlockRemoved(r) \/ AddBlock(r)

\* Every step keeps what a fetcher remembers of the head apart from an empty
\* storage, unless it looks for the genesis block's coins.
LEMMA LookNext ==
    ASSUME TypeOK, JobShape, LinkInv, IndexInv, LookInv, [Next]_vars PROVE LookInv'
<1>1. ASSUME StorageStep PROVE LookInv'
  BY <1>1, AddStep, RemoveStep DEF StorageStep, LookInv
<1>2. ASSUME UNCHANGED <<chain, pc>> PROVE LookInv'
  BY <1>2 DEF LookInv
<1>3. ASSUME NEW f \in Fetcher, NEW p, Goto(f, p), UNCHANGED chain,
             p \in {"cache", "lock"} => chain # << >>
      PROVE  LookInv'
  BY <1>3 DEF LookInv, TypeOK
<1>4. ASSUME NEW f \in Fetcher, Snapshot(f) PROVE LookInv'
  <2>1. Shape("snapshot", job[f])
    BY <1>4 DEF JobShape, Snapshot
  <2>2. ASSUME chain = << >>, job[f].block = Genesis PROVE job[f].input.coin \in coins
    <3>1. job[f].input \in GetInputsForTxs(Genesis)
      BY <2>1, <2>2 DEF Shape
    <3>2. job[f].input.coin \in Spends(Genesis) \ Creates(Genesis)
      BY <3>1 DEF GetInputsForTxs, Spends
    <3>3. Spends(Genesis) \subseteq GenesisCoins \cup Creates(Genesis)
      BY HeadersAssumption, ValidBlocks DEF UnspentBefore
    <3> QED BY <2>2, <3>2, <3>3 DEF LinkInv
  <2>3. CASE Goto(f, "find")
    BY <1>3, <1>4, <2>3 DEF Snapshot, storageVars
  <2>4. CASE Goto(f, "cache") /\ chain # << >>
    BY <1>3, <1>4, <2>4 DEF Snapshot, storageVars
  <2> QED BY <1>4, <2>2, <2>3, <2>4 DEF Snapshot, TooEarly, Found, Retry, HeadBlock
<1>5. ASSUME NEW f \in Fetcher, LookUpCache(f) PROVE LookInv'
  <2>1. chain # << >> /\ UNCHANGED chain
    BY <1>5 DEF LookUpCache, LookInv, storageVars
  <2> QED BY <1>3, <1>5, <2>1 DEF LookUpCache, Found
<1>6. ASSUME NEW f \in Fetcher, FetcherStep(f), ~Snapshot(f), ~LookUpCache(f) PROVE LookInv'
  <2>1. UNCHANGED chain
    BY <1>6 DEF FetcherStep, FetchBlock, CheckHeaderMatch, FindCoins,
       RegisterListener, StopListening, WaitDone, SeeCoins, CountSeen, StoreSeen,
       WakeListeners, storageVars
  <2>2. UNCHANGED pc \/ \E p \in PC \ {"cache", "lock"} : Goto(f, p)
    BY <1>6 DEF FetcherStep, FetchBlock, CheckHeaderMatch, FindCoins,
       RegisterListener, StopListening, WaitDone, SeeCoins, CountSeen, StoreSeen,
       WakeListeners, Deliver, Retry, PC
  <2> QED BY <1>2, <1>3, <2>1, <2>2
<1>7. ASSUME NEW w \in Worker, TakeIndex(w) PROVE LookInv'
  BY <1>3, <1>7 DEF TakeIndex, Fetching, Fetcher, storageVars
<1>8. ASSUME FetchInReorg PROVE LookInv'
  BY <1>3, <1>8 DEF FetchInReorg, Fetching, Fetcher, storageVars
<1>9. ASSUME Restart PROVE LookInv'
  BY <1>9 DEF Restart, LookInv
<1> QED
  BY <1>1, <1>2, <1>4, <1>5, <1>6, <1>7, <1>8, <1>9
     DEF Next, SyncerStep, StorageStep, StartRange, LeaveReorg, CleanCache, AbortListeners,
         PollTip, NodeStep, vars, storageVars

\* A coin that a block spends and has to find outside is unspent before it.
LEMMA InputUnspent ==
    ASSUME NEW b \in Block, NEW in \in GetInputsForTxs(b)
    PROVE  in.coin \in UnspentBefore(b)
<1>1. in.coin \in Spends(b) \ Creates(b)
  BY DEF GetInputsForTxs, Spends
<1> QED BY <1>1, ValidBlocks

\* A step of a fetch by the sequencer finds all coins: the head is the parent
\* of its block and does not move while it fetches.
LEMMA SequencerOwnStep ==
    ASSUME TypeOK, JobShape, LinkInv, IndexInv, SequencerInv, FetcherStep(Sequencer)
    PROVE  SequencerInv'
<1> DEFINE f == Sequencer
           j == job[Sequencer]
<1>0. /\ f \in Fetcher /\ Shape(pc[f], j) /\ j \in Job
      /\ pc[f] \notin {"cache", "lock", "wait"}
  BY DEF Fetcher, JobShape, TypeOK, SequencerInv
<1>1. CASE FetchBlock(f)
  <2>1. PICK b \in Block : SetJob(f, [j EXCEPT !.block = b, !.todo = GetInputsForTxs(b)])
    BY <1>1 DEF FetchBlock
  <2>2. job'[f].index = j.index
    BY <1>0, <2>1 DEF TypeOK, Job
  <2> QED BY <1>0, <1>1, <2>2 DEF FetchBlock, SequencerInv, TypeOK, syncVars
<1>2. CASE CheckHeaderMatch(f)
  <2>1. CASE Goto(f, "idle")
    BY <1>0, <2>1 DEF SequencerInv, TypeOK
  <2>2. CASE Goto(f, "find") /\ UNCHANGED job /\ ~Disconnected(j.block)
    <3>1. j.block \in Block /\ Height[j.block] = nextIndex /\ j.remaining = {} /\ syncerPc = "process"
      BY <1>0, <1>2 DEF Shape, CheckHeaderMatch, SequencerInv
    <3>2. CASE chain = << >>
      <4>1. j.block = Genesis
        BY <3>1, <3>2, HeightOne DEF IndexInv
      <4> QED BY <1>0, <1>2, <2>2, <3>1, <3>2, <4>1
              DEF CheckHeaderMatch, SequencerInv, UnspentBefore, LinkInv, TypeOK, storageVars, syncVars
    <3>3. CASE chain # << >>
      <4>1. /\ HeadBlock \in Block /\ HeadBlock # None
            /\ Height[j.block] = Height[HeadBlock] + 1 /\ Height[HeadBlock] \in Nat \ {0}
        BY <3>1, <3>3, HeadIsBlock, HeadersAssumption DEF IndexInv, TypeOK
      <4>2. Parent[j.block] = HeadBlock /\ j.block # Genesis
        BY <2>2, <3>1, <4>1, HeightOne DEF Disconnected
      <4>3. UnspentBefore(j.block) = coins
        BY <3>3, <4>2 DEF UnspentBefore, LinkInv
      <4> QED BY <1>0, <1>2, <2>2, <3>1, <4>3
              DEF CheckHeaderMatch, SequencerInv, TypeOK, storageVars, syncVars
    <3> QED BY <3>2, <3>3
  <2> QED BY <1>2, <2>1, <2>2 DEF CheckHeaderMatch, Deliver
<1>3. CASE FindCoins(f)
  <2>1. j.remaining = {} /\ UnspentBefore(j.block) = coins
    BY <1>3 DEF FindCoins, SequencerInv
  <2>2. CASE j.todo = {}
    BY <1>0, <1>3, <2>1, <2>2 DEF FindCoins, SequencerInv, TypeOK, storageVars, syncVars
  <2>3. CASE j.todo # {}
    <3>1. PICK in \in j.todo : SetJob(f, [j EXCEPT !.input = in]) /\ Goto(f, "snapshot")
      BY <1>3, <2>3 DEF FindCoins
    <3>2. /\ job'[f].index = j.index /\ job'[f].block = j.block
          /\ job'[f].remaining = j.remaining
      BY <1>0, <3>1 DEF TypeOK, Job
    <3> QED BY <1>0, <1>3, <2>1, <3>1, <3>2
            DEF FindCoins, SequencerInv, TypeOK, UnspentBefore, storageVars, syncVars
  <2> QED BY <2>2, <2>3
<1>4. CASE Snapshot(f)
  <2>1. j.remaining = {} /\ UnspentBefore(j.block) = coins
    BY <1>4 DEF Snapshot, SequencerInv
  <2>2. j.block \in Block /\ j.input \in GetInputsForTxs(j.block)
    BY <1>0, <1>4 DEF Shape, Snapshot
  <2>3. j.input.coin \in coins
    BY <2>1, <2>2, InputUnspent
  <2>4. Found(f) \/ Retry(f)
    BY <1>4, <2>3 DEF Snapshot
  <2>5. /\ job'[f].index = j.index /\ job'[f].block = j.block
        /\ job'[f].remaining = j.remaining
    <3>1. CASE SetJob(f, [j EXCEPT !.todo = @ \ {j.input}, !.input = None, !.head = None])
      BY <1>0, <3>1 DEF TypeOK, Job
    <3>2. CASE SetJob(f, [j EXCEPT !.input = None, !.head = None])
      BY <1>0, <3>2 DEF TypeOK, Job
    <3> QED BY <2>4, <3>1, <3>2 DEF Found, Retry
  <2>6. Goto(f, "find")
    BY <2>4 DEF Found, Retry
  <2> QED BY <1>0, <1>4, <2>1, <2>5, <2>6
          DEF Snapshot, SequencerInv, TypeOK, UnspentBefore, storageVars, syncVars
<1>5. CASE SeeCoins(f) \/ CountSeen(f) \/ StoreSeen(f)
  <2>1. /\ pc[f] \in {"see", "count", "store"} /\ UNCHANGED <<job, coins, syncVars>>
        /\ \E p \in {"count", "store", "wake"} : Goto(f, p)
    BY <1>5 DEF SeeCoins, CountSeen, StoreSeen, storageVars
  <2> QED BY <1>0, <2>1 DEF SequencerInv, TypeOK, syncVars
<1>6. CASE WakeListeners(f)
  BY <1>0, <1>6 DEF WakeListeners, Deliver, SequencerInv, TypeOK
<1>7. ~(LookUpCache(f) \/ RegisterListener(f) \/ StopListening(f) \/ WaitDone(f))
  BY <1>0 DEF LookUpCache, RegisterListener, StopListening, WaitDone
<1> QED
  BY <1>1, <1>2, <1>3, <1>4, <1>5, <1>6, <1>7 DEF FetcherStep

\* Every step keeps the sequencer from having anything to wait for.
LEMMA SequencerNext ==
    ASSUME TypeOK, JobShape, LinkInv, IndexInv, SequencerInv, [Next]_vars PROVE SequencerInv'
<1>1. ASSUME pc'[Sequencer] = pc[Sequencer], job'[Sequencer] = job[Sequencer],
             UNCHANGED <<coins, syncerPc, nextIndex>>
      PROVE  SequencerInv'
  BY <1>1 DEF SequencerInv
<1>2. ASSUME pc[Sequencer] = "idle", UNCHANGED pc PROVE SequencerInv'
  BY <1>2 DEF SequencerInv
<1>3. ASSUME NEW f \in Fetcher, f # Sequencer, FetcherStep(f) PROVE SequencerInv'
  <2>1. UNCHANGED <<coins, syncerPc, nextIndex>>
    BY <1>3 DEF FetcherStep, FetchBlock, CheckHeaderMatch, FindCoins, Snapshot, LookUpCache,
       RegisterListener, StopListening, WaitDone, SeeCoins, CountSeen, StoreSeen,
       WakeListeners, storageVars, syncVars
  <2>2. /\ UNCHANGED pc \/ \E p : Goto(f, p)
        /\ UNCHANGED job \/ \E j : SetJob(f, j)
    BY <1>3 DEF FetcherStep, FetchBlock, CheckHeaderMatch, FindCoins, Snapshot, LookUpCache,
       RegisterListener, StopListening, WaitDone, SeeCoins, CountSeen, StoreSeen,
       WakeListeners, Deliver, Found, Retry
  <2>3. pc'[Sequencer] = pc[Sequencer]
    BY <1>3, <2>2 DEF TypeOK, Fetcher
  <2>4. job'[Sequencer] = job[Sequencer]
    BY <1>3, <2>2 DEF TypeOK, Fetcher
  <2> QED BY <1>1, <2>1, <2>3, <2>4
<1>4. ASSUME NEW w \in Worker, TakeIndex(w) PROVE SequencerInv'
  <2>1. w # Sequencer
    BY FetchersAssumption
  <2> QED BY <1>1, <1>4, <2>1 DEF TakeIndex, Fetching, storageVars
<1>5. ASSUME FetchInReorg PROVE SequencerInv'
  <2>1. [NoJob EXCEPT !.index = nextIndex].index = nextIndex
    BY DEF NoJob
  <2> QED BY <1>5, <2>1 DEF FetchInReorg, Fetching, Processing, SequencerInv, Fetcher, TypeOK,
          syncVars
<1>6. ASSUME CleanCache \/ AbortListeners \/ StorageStep PROVE SequencerInv'
  <2>1. pc[Sequencer] = "idle" /\ UNCHANGED pc
    BY <1>6 DEF CleanCache, AbortListeners, StorageStep, BlockRemoved, AddBlock, Processing,
       SequencerInv
  <2> QED BY <1>2, <2>1
<1>7. ASSUME Restart PROVE SequencerInv'
  BY <1>7 DEF Restart, SequencerInv, Fetcher
<1>8. ASSUME StartRange \/ LeaveReorg \/ PollTip \/ NodeStep \/ UNCHANGED vars PROVE SequencerInv'
  BY <1>1, <1>8 DEF StartRange, LeaveReorg, PollTip, NodeStep, vars, storageVars, syncVars
<1> QED
  BY <1>3, <1>4, <1>5, <1>6, <1>7, <1>8, SequencerOwnStep DEF Next, SyncerStep, StorageStep

\* Every step keeps waiter.lock released and every fetch without an error.
LEMMA LeakNext ==
    ASSUME TypeOK, JobShape, CountInv, LookInv, NoLockLeak, [Next]_vars PROVE NoLockLeak'
<1>1. ASSUME NEW f \in Fetcher, RegisterListener(f) PROVE NoLockLeak'
  <2>1. HeadBlock \in Block
    BY <1>1, HeadIsBlock DEF RegisterListener, LookInv, TypeOK
  <2>2. Goto(f, "find") /\ UNCHANGED waiterLocked
    BY <1>1, <2>1, HeadersAssumption DEF RegisterListener, Retry
  <2> QED BY <2>2 DEF NoLockLeak, TypeOK
<1>2. ASSUME NEW f \in Fetcher, StopListening(f) PROVE NoLockLeak'
  BY <1>2, CountStop DEF NoLockLeak
<1>3. ASSUME NEW f \in Fetcher, FetcherStep(f), ~RegisterListener(f), ~StopListening(f)
      PROVE  NoLockLeak'
  <2>1. UNCHANGED waiterLocked
    BY <1>3 DEF FetcherStep, FetchBlock, CheckHeaderMatch, FindCoins, Snapshot, LookUpCache,
       WaitDone, SeeCoins, CountSeen, StoreSeen, WakeListeners, waitVars
  <2>2. \E p \in PC \ {"failed"} : Goto(f, p)
    BY <1>3 DEF FetcherStep, FetchBlock, CheckHeaderMatch, FindCoins, Snapshot, LookUpCache,
       WaitDone, SeeCoins, CountSeen, StoreSeen, WakeListeners, Deliver, Found, Retry, PC
  <2> QED BY <2>1, <2>2 DEF NoLockLeak, TypeOK
<1>4. ASSUME NEW w \in Worker, TakeIndex(w) PROVE NoLockLeak'
  BY <1>4 DEF TakeIndex, Fetching, NoLockLeak, Fetcher, TypeOK, waitVars
<1>5. ASSUME FetchInReorg PROVE NoLockLeak'
  BY <1>5 DEF FetchInReorg, Fetching, NoLockLeak, Fetcher, TypeOK, waitVars
<1>6. ASSUME Restart PROVE NoLockLeak'
  BY <1>6 DEF Restart, NoLockLeak
<1>7. ASSUME UNCHANGED <<pc, waiterLocked>> PROVE NoLockLeak'
  BY <1>7 DEF NoLockLeak
<1> QED
  BY <1>1, <1>2, <1>3, <1>4, <1>5, <1>6, <1>7
     DEF Next, SyncerStep, StartRange, LeaveReorg, CleanCache, AbortListeners, BlockRemoved,
         AddBlock, PollTip, NodeStep, vars, waitVars

-----------------------------------------------------------------------------
(* Theorems *)

\* The inductive invariant holds initially.
LEMMA InductiveInit == Init => IInv
<1> SUFFICES ASSUME Init PROVE IInv
  OBVIOUS
<1>1. JobShape
  BY ShapeNoJob DEF Init, JobShape
<1>2. LinkInv /\ IndexInv
  BY DEF Init, LinkInv, IndexInv
<1>3. LookInv /\ SequencerInv /\ NoLockLeak
  BY DEF Init, LookInv, SequencerInv, NoLockLeak, Fetcher
<1> QED BY <1>1, <1>2, <1>3, TypeInit, CountInit DEF IInv

\* Every step preserves the inductive invariant.
LEMMA InductiveNext == IInv /\ [Next]_vars => IInv'
<1> SUFFICES ASSUME IInv, [Next]_vars PROVE IInv'
  OBVIOUS
<1> QED
  BY TypeNext, ShapeNext, CountNext, LinkNext, IndexNext, LookNext, SequencerNext, LeakNext
     DEF IInv, CountInv

\* The inductive invariant holds in every reachable state.
THEOREM Inductive == Spec => []IInv
BY InductiveInit, InductiveNext, PTL DEF Spec

\* All variables keep their types.
THEOREM TypeCorrect == Spec => []TypeOK
BY Inductive, PTL DEF IInv

\* The wait table never loses an entry somebody is registered for, and never
\* keeps one nobody is registered for (indexer.go:505-524, 622-637).
THEOREM ListenersAlwaysCounted == Spec => []ListenersCounted
<1>1. IInv => ListenersCounted
  BY DEF IInv, CountInv
<1> QED BY <1>1, Inductive, PTL

\* waiter.lock is never left locked and no fetch ends in an error
\* (indexer.go:507-509, 609-613).
THEOREM LockNeverLeaked == Spec => []NoLockLeak
<1>1. IInv => NoLockLeak
  BY DEF IInv
<1> QED BY <1>1, Inductive, PTL

\* The sequencer never waits in the wait table that only it can clear
\* (indexer.go:435-441, 488-503).
THEOREM SequencerNeverBlocks == Spec => []SequencerNeverWaits
<1>1. IInv => SequencerNeverWaits
  BY DEF IInv, SequencerInv, SequencerNeverWaits
<1> QED BY <1>1, Inductive, PTL

\* The storage the indexer maintains implements the ledger: whatever is fetched,
\* seen, reorganised or restarted, chain and coins take the ledger's steps.
THEOREM StorageImplementsLedger == Spec => StorageIsLedger
<1>1. Init => Storage!Init
  BY DEF Init, Storage!Init
<1>2. ASSUME IInv, [Next]_vars PROVE [Storage!Next]_(Storage!ledger)
  <2>1. ASSUME NEW r \in results, AddBlock(r) PROVE Storage!Next
    <3>1. /\ r.block \in Block
          /\ chain = << >> => r.block = Genesis
          /\ chain # << >> => r.block # Genesis /\ Parent[r.block] = HeadBlock
          /\ chain' = Append(chain, r.block) /\ coins' = Unspent[r.block]
      BY <1>2, <2>1, AddStep DEF IInv
    <3>2. chain # << >> => HeadBlock = Storage!Last
      BY DEF HeadBlock, Storage!Last
    <3>3. Storage!Extend(r.block)
      BY <3>1, <3>2 DEF Storage!Extend
    <3> QED BY <3>1, <3>3 DEF Storage!Next
  <2>2. ASSUME NEW r \in results, BlockRemoved(r) PROVE Storage!Next
    BY <1>2, <2>2, RemoveStep DEF IInv, Storage!Next, Storage!Drop
  <2>3. ASSUME UNCHANGED <<chain, coins>> PROVE UNCHANGED Storage!ledger
    BY <2>3 DEF Storage!ledger
  <2> QED
    BY <1>2, <2>1, <2>2, <2>3
       DEF Next, FetcherStep, FetchBlock, CheckHeaderMatch, FindCoins, Snapshot, LookUpCache,
           RegisterListener, StopListening, WaitDone, SeeCoins, CountSeen, StoreSeen,
           WakeListeners, TakeIndex, SyncerStep, StartRange, FetchInReorg, LeaveReorg,
           CleanCache, AbortListeners, PollTip, NodeStep, Restart, vars, storageVars
<1> QED BY <1>1, <1>2, Inductive, PTL DEF Spec, StorageIsLedger, Storage!Spec
=============================================================================
