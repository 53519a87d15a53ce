---------------------------- MODULE StoredProofs ----------------------------
(***************************************************************************)
(* Two promises of the sequencer of Indexer, for any block tree and any    *)
(* number of workers: a block is stored when it is added, and nothing ever *)
(* asks to remove the genesis block.  Both rest on where the indices of    *)
(* fetches and results lie: above the chain, and none of them twice.       *)
(***************************************************************************)
EXTENDS IndexerProofs

USE DEF Index, NotInReorg, Goto, SetJob, Fail

\* Every block of the chain is at its height.
HeightInv == \A n \in DOMAIN chain : Height[chain[n]] = n

\* Whatever is fetched or waits to be processed is above the chain, and what the
\* workers fetch is above the indices a sequencer in a reorg fetches by itself.
PlaceInv ==
    /\ \A r \in results : r.index > Len(chain) /\ r.index < nextFetch
    /\ \A f \in Fetcher : pc[f] # "idle" =>
           job[f].index > Len(chain) /\ job[f].index < nextFetch
    /\ \A w \in Worker : pc[w] # "idle" => job[w].index > reorgStart
    /\ reorgStart < nextFetch
    /\ nextFetch <= rangeEnd => Len(chain) < nextFetch
    /\ pc[Sequencer] # "idle" => nextIndex <= reorgStart

\* No index is fetched by two at a time, nor again while its result is there.
DistinctInv ==
    /\ \A r, s \in results : r.index = s.index => r = s
    /\ \A f \in Fetcher, r \in results : pc[f] # "idle" => job[f].index # r.index
    /\ \A f, g \in Fetcher :
           f # g /\ pc[f] # "idle" /\ pc[g] # "idle" => job[f].index # job[g].index

\* What was seen is stored until it is added, and then until it is removed.
StoredInv ==
    /\ AddedBlocksStored
    /\ \A r \in results : r.block \in Block => r.block \in stored
    /\ \A f \in Fetcher : pc[f] = "wake" => job[f].block \in stored

\* The first two blocks find their coins in the storage: they wait for nothing
\* and are never reported as orphans.
EarlyInv ==
    /\ \A f \in Fetcher :
           pc[f] # "idle" /\ job[f].index <= 2 =>
               /\ pc[f] \notin {"cache", "lock"}
               /\ job[f].remaining = {} /\ job[f].listening = {} /\ ~job[f].abort
    /\ \A r \in results : r.block = OrphanHead => r.index > 2

SInv == IInv /\ HeightInv /\ PlaceInv /\ DistinctInv /\ StoredInv /\ EarlyInv

-----------------------------------------------------------------------------
(* Where the sequencer is *)

\* The head is at the length of the chain, and the next index at it or after it.
LEMMA HeadHeight ==
    ASSUME TypeOK, IndexInv, HeightInv
    PROVE  /\ Len(chain) \in Nat /\ (Len(chain) = 0 <=> chain = << >>)
           /\ chain # << >> => HeadBlock \in Block /\ Height[HeadBlock] = Len(chain)
           /\ Processing => nextIndex = Len(chain) + 1
<1>1. Len(chain) \in Nat /\ (Len(chain) = 0 <=> chain = << >>)
  BY DEF TypeOK
<1>2. chain # << >> => HeadBlock \in Block /\ Height[HeadBlock] = Len(chain)
  BY <1>1, HeadIsBlock DEF TypeOK, HeightInv
<1> QED BY <1>1, <1>2 DEF IndexInv, Processing

\* Adding and removing keep every block at its height.
LEMMA HeightNext ==
    ASSUME TypeOK, LinkInv, IndexInv, HeightInv, [Next]_vars PROVE HeightInv'
<1>1. ASSUME NEW r \in results, AddBlock(r) PROVE HeightInv'
  <2>1. /\ chain' = Append(chain, r.block) /\ Height[r.block] = nextIndex
        /\ r.block \in Block
    BY <1>1, AddStep
  <2>2. nextIndex = Len(chain) + 1
    BY <1>1, HeadHeight DEF AddBlock
  <2> QED BY <2>1, <2>2 DEF HeightInv, TypeOK
<1>2. ASSUME NEW r \in results, BlockRemoved(r) PROVE HeightInv'
  <2>1. chain' = SubSeq(chain, 1, Len(chain) - 1) /\ Len(chain) > 1
    BY <1>2, RemoveStep
  <2>2. Len(chain') = Len(chain) - 1 /\ \A n \in 1 .. Len(chain) - 1 : chain'[n] = chain[n]
    BY <2>1 DEF TypeOK
  <2>3. DOMAIN chain' = 1 .. Len(chain) - 1 /\ DOMAIN chain = 1 .. Len(chain)
    BY <2>1 DEF TypeOK
  <2>4. Len(chain) \in Nat
    BY DEF TypeOK
  <2> QED BY <2>2, <2>3, <2>4 DEF HeightInv
<1>3. ASSUME UNCHANGED chain PROVE HeightInv'
  BY <1>3 DEF HeightInv
<1> QED
  BY <1>1, <1>2, <1>3
     DEF Next, FetcherStep, FetchBlock, CheckHeaderMatch, FindCoins, Snapshot, LookUpCache,
         RegisterListener, StopListening, WaitDone, SeeCoins, CountSeen, StoreSeen,
         WakeListeners, TakeIndex, SyncerStep, StartRange, FetchInReorg, LeaveReorg,
         CleanCache, AbortListeners, PollTip, NodeStep, Restart, vars, storageVars

-----------------------------------------------------------------------------
(* What a step of a fetch leaves alone *)

\* Every update of a fetcher's local variables but delivery keeps the index.
LEMMA IndexKept ==
    ASSUME NEW j \in Job
    PROVE  /\ \A b, t : [j EXCEPT !.block = b, !.todo = t].index = j.index
           /\ \A i : [j EXCEPT !.input = i].index = j.index
           /\ \A h : [j EXCEPT !.head = h].index = j.index
           /\ [j EXCEPT !.input = None, !.head = None].index = j.index
           /\ [j EXCEPT !.todo = @ \ {j.input}, !.input = None, !.head = None].index = j.index
           /\ \A i : [j EXCEPT !.todo = @ \ {i}, !.remaining = @ \cup {i},
                               !.listening = @ \cup {i}, !.input = None,
                               !.head = None].index = j.index
           /\ \A i, a : [j EXCEPT !.listening = @ \ {i}, !.abort = @ \/ a].index = j.index
           /\ [j EXCEPT !.todo = j.remaining, !.remaining = {}].index = j.index
BY DEF Job

\* f goes on with the index it fetches.
Keeps(f) ==
    /\ results' = results /\ pc'[f] # "idle" /\ job'[f].index = job[f].index

\* A step of f goes on with its index or hands its result over, a block that
\* BlockSeen stored or an orphan; it disturbs no other fetcher.
LEMMA FetcherEffect ==
    ASSUME TypeOK, NEW f \in Fetcher, FetcherStep(f)
    PROVE  /\ pc[f] # "idle"
           /\ \A g \in Fetcher \ {f} : pc'[g] = pc[g] /\ job'[g] = job[g]
           /\ UNCHANGED <<chain, coins, syncVars>>
           /\ \/ Keeps(f)
              \/ Deliver(f, OrphanHead)
              \/ pc[f] = "wake" /\ Deliver(f, job[f].block)
<1> DEFINE j == job[f]
<1>0. j \in Job
  BY DEF TypeOK
<1>1. pc[f] # "idle" /\ UNCHANGED <<chain, coins, syncVars>>
  BY DEF FetcherStep, FetchBlock, CheckHeaderMatch, FindCoins, Snapshot, LookUpCache,
     RegisterListener, StopListening, WaitDone, SeeCoins, CountSeen, StoreSeen,
     WakeListeners, storageVars
<1>2. \/ Deliver(f, OrphanHead)
      \/ pc[f] = "wake" /\ Deliver(f, j.block)
      \/ /\ UNCHANGED results
         /\ UNCHANGED pc \/ \E p \in PC \ {"idle"} : Goto(f, p)
         /\ UNCHANGED job \/ \E i : SetJob(f, i) /\ i.index = j.index
  <2>1. CASE FetchBlock(f)
    <3>1. PICK b \in Block : SetJob(f, [j EXCEPT !.block = b, !.todo = GetInputsForTxs(b)])
      BY <2>1 DEF FetchBlock
    <3>2. [j EXCEPT !.block = b, !.todo = GetInputsForTxs(b)].index = j.index
      BY <1>0, IndexKept
    <3> QED BY <2>1, <3>1, <3>2 DEF FetchBlock, PC
  <2>2. CASE CheckHeaderMatch(f)
    BY <2>2 DEF CheckHeaderMatch, PC
  <2>3. CASE FindCoins(f)
    <3>1. \A in : [j EXCEPT !.input = in].index = j.index
      BY <1>0, IndexKept
    <3>2. UNCHANGED job \/ \E in : SetJob(f, [j EXCEPT !.input = in])
      BY <2>3 DEF FindCoins
    <3> QED BY <2>3, <3>1, <3>2 DEF FindCoins, PC
  <2>5. CASE Snapshot(f)
    <3>1. /\ UNCHANGED results
          /\ UNCHANGED pc \/ \E p \in PC \ {"idle"} : Goto(f, p)
      BY <2>5 DEF Snapshot, Found, Retry, PC
    <3>2. \/ SetJob(f, [j EXCEPT !.head = HeadBlock])
          \/ SetJob(f, [j EXCEPT !.input = None, !.head = None])
          \/ SetJob(f, [j EXCEPT !.todo = @ \ {j.input}, !.input = None, !.head = None])
      BY <2>5 DEF Snapshot, Found, Retry
    <3>3. /\ [j EXCEPT !.head = HeadBlock].index = j.index
          /\ [j EXCEPT !.input = None, !.head = None].index = j.index
          /\ [j EXCEPT !.todo = @ \ {j.input}, !.input = None, !.head = None].index = j.index
      BY <1>0, IndexKept
    <3> QED BY <3>1, <3>2, <3>3
  <2>6. CASE LookUpCache(f)
    BY <1>0, <2>6, IndexKept DEF LookUpCache, Found, PC
  <2>7. CASE RegisterListener(f)
    <3>1. /\ UNCHANGED results
          /\ UNCHANGED pc \/ \E p \in PC \ {"idle"} : Goto(f, p)
      BY <2>7 DEF RegisterListener, Retry, PC
    <3> DEFINE in == j.input
               i == [j EXCEPT !.todo = @ \ {in}, !.remaining = @ \cup {in},
                              !.listening = @ \cup {in}, !.input = None, !.head = None]
    <3>2. i.index = j.index
      BY <1>0, IndexKept
    <3>3. UNCHANGED job \/ SetJob(f, [j EXCEPT !.input = None, !.head = None]) \/ SetJob(f, i)
      BY <2>7 DEF RegisterListener, Retry
    <3> HIDE DEF i
    <3> QED BY <1>0, <3>1, <3>2, <3>3, IndexKept
  <2>8. CASE StopListening(f)
    <3>1. PICK in \in j.listening :
            \/ UNCHANGED pc /\ SetJob(f, [j EXCEPT !.listening = @ \ {in},
                                                    !.abort = @ \/ waiter[in.tx].aborted])
            \/ Fail(f) /\ UNCHANGED job
      BY <2>8 DEF StopListening
    <3>2. [j EXCEPT !.listening = @ \ {in}, !.abort = @ \/ waiter[in.tx].aborted].index
              = j.index
      BY <1>0, IndexKept
    <3> QED BY <2>8, <3>1, <3>2 DEF StopListening, PC
  <2>9. CASE WaitDone(f)
    <3>1. [j EXCEPT !.todo = j.remaining, !.remaining = {}].index = j.index
      BY <1>0, IndexKept
    <3> QED BY <2>9, <3>1 DEF WaitDone, PC
  <2>10. CASE SeeCoins(f) \/ CountSeen(f) \/ StoreSeen(f) \/ WakeListeners(f)
    BY <2>10 DEF SeeCoins, CountSeen, StoreSeen, WakeListeners, PC
  <2> QED
    BY <2>1, <2>2, <2>3, <2>5, <2>6, <2>7, <2>8, <2>9, <2>10 DEF FetcherStep
<1>3. \A g \in Fetcher \ {f} : pc'[g] = pc[g] /\ job'[g] = job[g]
  BY <1>2 DEF Deliver, TypeOK
<1>4. CASE /\ UNCHANGED results
           /\ UNCHANGED pc \/ \E p \in PC \ {"idle"} : Goto(f, p)
           /\ UNCHANGED job \/ \E i : SetJob(f, i) /\ i.index = j.index
  BY <1>1, <1>4 DEF Keeps, TypeOK
<1> QED BY <1>1, <1>2, <1>3, <1>4

-----------------------------------------------------------------------------
(* Indices *)

\* Delivering keeps the indices apart: the result takes the place of the fetch.
LEMMA DeliverPlaces ==
    ASSUME TypeOK, PlaceInv, DistinctInv, NEW f \in Fetcher, pc[f] # "idle",
           \A g \in Fetcher \ {f} : pc'[g] = pc[g] /\ job'[g] = job[g],
           UNCHANGED <<chain, coins, syncVars>>, NEW b, Deliver(f, b)
    PROVE  PlaceInv' /\ DistinctInv'
<1> DEFINE new == [index |-> job[f].index, block |-> b]
<1>1. results' = results \cup {new} /\ new.index = job[f].index
  BY DEF Deliver
<1>2. pc'[f] = "idle"
  BY DEF Deliver, TypeOK
<1>3. \A g \in Fetcher : pc'[g] # "idle" => pc[g] # "idle" /\ job'[g] = job[g] /\ g # f
  BY <1>2
<1> HIDE DEF new
<1>4. PlaceInv'
  BY <1>1, <1>3 DEF PlaceInv, syncVars, Fetcher
<1>5. DistinctInv'
  BY <1>1, <1>3 DEF DistinctInv
<1> QED BY <1>4, <1>5

\* A step that keeps the index of every fetch, and what was fetched, keeps the
\* indices apart.
LEMMA KeptPlaces ==
    ASSUME TypeOK, PlaceInv, DistinctInv, UNCHANGED <<chain, results, syncVars>>,
           \A g \in Fetcher : /\ pc'[g] # "idle" <=> pc[g] # "idle"
                              /\ job'[g].index = job[g].index
    PROVE  PlaceInv' /\ DistinctInv'
<1>1. PlaceInv'
  BY DEF PlaceInv, syncVars, Fetcher
<1>2. DistinctInv'
  BY DEF DistinctInv
<1> QED BY <1>1, <1>2

\* A fetcher starts on an index nobody else has.
LEMMA FetchingPlaces ==
    ASSUME TypeOK, PlaceInv, DistinctInv, NEW f \in Fetcher, NEW i \in Nat, Fetching(f, i),
           nextFetch' \in Nat, i > Len(chain), i < nextFetch', nextFetch' >= nextFetch,
           f \in Worker => i > reorgStart, f = Sequencer => i = nextIndex /\ i <= reorgStart,
           nextFetch' <= rangeEnd => Len(chain) < nextFetch',
           UNCHANGED <<chain, results, nextIndex, reorgStart, rangeEnd>>,
           \A r \in results : r.index # i,
           \A g \in Fetcher \ {f} : pc[g] # "idle" => job[g].index # i
    PROVE  PlaceInv' /\ DistinctInv'
<1>1. [NoJob EXCEPT !.index = i].index = i
  BY DEF NoJob
<1>2. /\ pc'[f] = "fetch" /\ job'[f].index = i
      /\ \A g \in Fetcher \ {f} : pc'[g] = pc[g] /\ job'[g] = job[g]
  BY <1>1 DEF Fetching, TypeOK
<1>3. /\ Len(chain) \in Nat /\ nextFetch \in Nat /\ reorgStart \in Int
      /\ \A g \in Fetcher : job[g].index \in Nat
      /\ \A r \in results : r.index \in Nat
  BY DEF TypeOK, Job, Result
<1>4. PlaceInv'
  BY <1>2, <1>3 DEF PlaceInv, Fetcher
<1>5. DistinctInv'
  BY <1>2 DEF DistinctInv
<1> QED BY <1>4, <1>5

\* Processing a result moves the end of the chain, but past no index that is
\* fetched or waits: no other has the index of the result.
LEMMA StorageStepPlaces ==
    ASSUME TypeOK, LinkInv, IndexInv, HeightInv, PlaceInv, DistinctInv, StorageStep
    PROVE  PlaceInv' /\ DistinctInv'
<1>1. PICK r \in results : BlockRemoved(r) \/ AddBlock(r)
  BY DEF StorageStep
<1>2. /\ Len(chain) \in Nat /\ nextFetch \in Nat /\ reorgStart \in Int /\ nextIndex \in Nat
      /\ \A g \in Fetcher : job[g].index \in Nat
      /\ \A s \in results : s.index \in Nat
  <2>1. \A g \in Fetcher : job[g].index \in Nat
    BY DEF TypeOK, Job
  <2>2. \A s \in results : s.index \in Nat
    BY DEF TypeOK, Result
  <2> QED BY <2>1, <2>2 DEF TypeOK
<1>3. /\ r.index = nextIndex /\ nextIndex = Len(chain) + 1 /\ nextIndex < nextFetch
      /\ pc[Sequencer] = "idle"
      /\ results' = results \ {r} /\ UNCHANGED <<pc, job, nextFetch, rangeEnd>>
  BY <1>1, HeadHeight DEF BlockRemoved, AddBlock, Processing, PlaceInv
<1>4. DistinctInv'
  BY <1>3 DEF DistinctInv
<1>5. /\ \A s \in results' : s.index > Len(chain) + 1
      /\ \A f \in Fetcher : pc[f] # "idle" => job[f].index > Len(chain) + 1
  BY <1>2, <1>3 DEF PlaceInv, DistinctInv
<1>6. CASE AddBlock(r)
  <2>1. Len(chain') = Len(chain) + 1 /\ UNCHANGED reorgStart
    BY <1>6 DEF AddBlock, TypeOK
  <2> QED BY <1>2, <1>3, <1>4, <1>5, <2>1 DEF PlaceInv
<1>7. CASE BlockRemoved(r)
  <2>1. chain' = SubSeq(chain, 1, Len(chain) - 1) /\ Len(chain) > 1
    BY <1>7, RemoveStep
  <2>2. Len(chain') = Len(chain) - 1
    BY <2>1 DEF TypeOK
  <2>3. /\ reorgStart' < nextFetch
        /\ \A w \in Worker : pc[w] # "idle" => job[w].index > reorgStart'
    BY <1>2, <1>3, <1>5, <1>7 DEF BlockRemoved, PlaceInv, Fetcher
  <2> QED BY <1>2, <1>3, <1>4, <1>5, <2>2, <2>3 DEF PlaceInv
<1> QED BY <1>1, <1>6, <1>7

\* Every step keeps indices above the chain and apart from each other.
LEMMA PlaceNext ==
    ASSUME IInv, HeightInv, PlaceInv, DistinctInv, [Next]_vars
    PROVE  PlaceInv' /\ DistinctInv'
<1>0. /\ TypeOK /\ LinkInv /\ IndexInv /\ SequencerInv /\ Sequencer \in Fetcher
      /\ Len(chain) \in Nat /\ (Processing => nextIndex = Len(chain) + 1)
  BY HeadHeight DEF IInv, Fetcher
<1>1. ASSUME NEW f \in Fetcher, FetcherStep(f) PROVE PlaceInv' /\ DistinctInv'
  <2>1. /\ pc[f] # "idle"
        /\ \A g \in Fetcher \ {f} : pc'[g] = pc[g] /\ job'[g] = job[g]
        /\ UNCHANGED <<chain, coins, syncVars>>
        /\ \/ Keeps(f)
           \/ Deliver(f, OrphanHead)
           \/ pc[f] = "wake" /\ Deliver(f, job[f].block)
    BY <1>0, <1>1, FetcherEffect
  <2>2. CASE Keeps(f)
    BY <1>0, <2>1, <2>2, KeptPlaces DEF Keeps
  <2> QED BY <1>0, <2>1, <2>2, DeliverPlaces
<1>2. ASSUME NEW w \in Worker, TakeIndex(w) PROVE PlaceInv' /\ DistinctInv'
  <2>1. /\ Fetching(w, nextFetch) /\ nextFetch' = nextFetch + 1 /\ nextFetch <= rangeEnd
        /\ UNCHANGED <<chain, results, nextIndex, reorgStart, rangeEnd>>
    BY <1>2 DEF TakeIndex, storageVars
  <2>2. nextFetch \in Nat /\ reorgStart < nextFetch /\ Len(chain) < nextFetch
    BY <1>0, <2>1 DEF PlaceInv, TypeOK
  <2>3. /\ \A r \in results : r.index # nextFetch
        /\ \A g \in Fetcher : pc[g] # "idle" => job[g].index # nextFetch
    BY <2>2 DEF PlaceInv
  <2>4. w \in Fetcher /\ w # Sequencer
    BY FetchersAssumption DEF Fetcher
  <2>5. /\ nextFetch' \in Nat /\ nextFetch < nextFetch' /\ nextFetch' >= nextFetch
        /\ Len(chain) < nextFetch'
    BY <1>0, <2>1, <2>2
  <2> QED BY <1>0, <2>1, <2>2, <2>3, <2>4, <2>5, FetchingPlaces
<1>3. ASSUME FetchInReorg PROVE PlaceInv' /\ DistinctInv'
  <2>1. /\ Fetching(Sequencer, nextIndex) /\ Processing /\ ~HasNext /\ reorgStart >= nextIndex
        /\ UNCHANGED <<chain, results, syncVars>>
    BY <1>3 DEF FetchInReorg, storageVars
  <2>2. /\ nextIndex \in Nat /\ reorgStart \in Int /\ nextFetch \in Nat
        /\ nextIndex = Len(chain) + 1
    BY <1>0, <2>1 DEF TypeOK
  <2>3. nextIndex < nextFetch /\ nextIndex <= reorgStart /\ nextIndex > Len(chain)
    BY <1>0, <2>1, <2>2 DEF PlaceInv
  <2>4. ASSUME NEW g \in Fetcher \ {Sequencer}, pc[g] # "idle" PROVE job[g].index # nextIndex
    <3>1. g \in Worker /\ job[g].index \in Nat
      BY <1>0 DEF Fetcher, TypeOK, Job
    <3> QED BY <2>2, <2>3, <2>4, <3>1 DEF PlaceInv
  <2>5. \A r \in results : r.index # nextIndex
    BY <2>1 DEF HasNext
  <2>6. Sequencer \notin Worker /\ UNCHANGED <<nextIndex, reorgStart, rangeEnd, nextFetch>>
    BY <2>1, FetchersAssumption DEF syncVars
  <2>7. nextFetch' <= rangeEnd => Len(chain) < nextFetch'
    BY <2>6 DEF PlaceInv
  <2> QED BY <1>0, <2>1, <2>2, <2>3, <2>4, <2>5, <2>6, <2>7, FetchingPlaces
<1>4. CASE StartRange
  <2>1. /\ results' = {} /\ reorgStart' = -1 /\ nextFetch' = nextIndex
        /\ UNCHANGED <<chain, pc>>
        /\ \A f \in Fetcher : pc[f] = "idle"
    BY <1>4 DEF StartRange, Processing, Fetcher, storageVars
  <2> QED BY <1>0, <1>4, <2>1 DEF StartRange, PlaceInv, DistinctInv, Fetcher
<1>5. CASE LeaveReorg
  <2>1. /\ pc[Sequencer] = "idle" /\ reorgStart' = -1
        /\ UNCHANGED <<chain, pc, job, results, nextFetch, rangeEnd>>
    BY <1>5 DEF LeaveReorg, Processing, storageVars
  <2>2. nextFetch \in Nat /\ \A f \in Fetcher : job[f].index \in Nat
    BY <1>0 DEF TypeOK, Job
  <2> QED BY <2>1, <2>2 DEF PlaceInv, DistinctInv, Fetcher
<1>6. CASE StorageStep
  BY <1>0, <1>6, StorageStepPlaces
<1>7. CASE CleanCache \/ AbortListeners
  <2>1. pc[Sequencer] = "idle"
    BY <1>0, <1>7 DEF CleanCache, AbortListeners, SequencerInv
  <2>2. UNCHANGED <<chain, pc, job, results, nextFetch, rangeEnd, reorgStart>>
    BY <1>7 DEF CleanCache, AbortListeners, storageVars
  <2> QED BY <2>1, <2>2 DEF PlaceInv, DistinctInv
<1>8. CASE Restart
  <2>1. /\ results' = {} /\ reorgStart' = -1 /\ nextFetch' = 1 /\ rangeEnd' = 0
        /\ \A f \in Fetcher : pc'[f] = "idle"
    BY <1>8 DEF Restart
  <2> QED BY <1>0, <2>1 DEF PlaceInv, DistinctInv, Fetcher
<1>9. CASE PollTip \/ NodeStep \/ UNCHANGED vars
  <2>1. UNCHANGED <<chain, results, syncVars, pc, job>>
    BY <1>9 DEF PollTip, NodeStep, vars, storageVars
  <2> QED BY <1>0, <2>1, KeptPlaces
<1> QED
  BY <1>1, <1>2, <1>3, <1>4, <1>5, <1>6, <1>7, <1>8, <1>9 DEF Next, SyncerStep, StorageStep

-----------------------------------------------------------------------------
(* What is seen is stored *)

\* Storing a block keeps what is stored, and the result of a fetch that woke its
\* listeners is a stored block.
LEMMA StoredFetcherStep ==
    ASSUME TypeOK, StoredInv, NEW f \in Fetcher, FetcherStep(f) PROVE StoredInv'
<1>1. /\ pc[f] # "idle"
      /\ \A g \in Fetcher \ {f} : pc'[g] = pc[g] /\ job'[g] = job[g]
      /\ UNCHANGED <<chain, coins, syncVars>>
      /\ \/ Keeps(f)
         \/ Deliver(f, OrphanHead)
         \/ pc[f] = "wake" /\ Deliver(f, job[f].block)
  BY FetcherEffect
<1>2. stored \subseteq stored'
  BY DEF FetcherStep, FetchBlock, CheckHeaderMatch, FindCoins, Snapshot, LookUpCache,
     RegisterListener, StopListening, WaitDone, SeeCoins, CountSeen, StoreSeen,
     WakeListeners, StoredWith, storageVars
<1>3. AddedBlocksStored'
  BY <1>1, <1>2 DEF StoredInv, AddedBlocksStored
<1>4. ASSUME NEW r \in results', r.block \in Block PROVE r.block \in stored'
  <2>1. \/ r \in results \/ r.block = OrphanHead
        \/ pc[f] = "wake" /\ r.block = job[f].block
    BY <1>1 DEF Keeps, Deliver
  <2> QED BY <1>2, <1>4, <2>1, FetchersAssumption DEF StoredInv
<1>5. pc'[f] = "wake" => job'[f].block \in stored'
  <2>1. CASE StoreSeen(f)
    BY <2>1 DEF StoreSeen, StoredWith
  <2>2. CASE ~StoreSeen(f)
    <3>1. (\E p \in PC \ {"wake"} : Goto(f, p)) \/ (pc[f] = "wait" /\ UNCHANGED pc)
      BY <2>2 DEF FetcherStep, FetchBlock, CheckHeaderMatch, FindCoins, Snapshot, LookUpCache,
         RegisterListener, StopListening, WaitDone, SeeCoins, CountSeen,
         WakeListeners, Deliver, Found, Retry, PC
    <3> QED BY <3>1 DEF TypeOK
  <2> QED BY <2>1, <2>2
<1>6. \A g \in Fetcher : pc'[g] = "wake" => job'[g].block \in stored'
  BY <1>1, <1>2, <1>5 DEF StoredInv
<1> QED BY <1>3, <1>4, <1>6 DEF StoredInv

\* What BlockRemoved deletes is neither below the head nor waiting to be added.
LEMMA StoredStorageStep ==
    ASSUME TypeOK, JobShape, LinkInv, IndexInv, HeightInv, PlaceInv, StoredInv, StorageStep
    PROVE  StoredInv'
<1>1. PICK r \in results : BlockRemoved(r) \/ AddBlock(r)
  BY DEF StorageStep
<1>2. UNCHANGED <<pc, job>> /\ results' \subseteq results
  BY <1>1 DEF BlockRemoved, AddBlock
<1>3. CASE AddBlock(r)
  <2>1. chain' = Append(chain, r.block) /\ r.block \in Block /\ UNCHANGED stored
    BY <1>3 DEF AddBlock
  <2>2. AddedBlocksStored'
    BY <2>1 DEF StoredInv, AddedBlocksStored, TypeOK
  <2> QED BY <1>2, <2>1, <2>2 DEF StoredInv
<1>4. CASE BlockRemoved(r)
  <2>1. /\ chain' = SubSeq(chain, 1, Len(chain) - 1) /\ Len(chain) > 1
        /\ HeadBlock \in Block /\ Height[HeadBlock] = Len(chain) /\ Len(chain) \in Nat
        /\ stored' = stored \ {HeadBlock}
    BY <1>4, RemoveStep, HeadHeight DEF BlockRemoved
  <2>2. ASSUME NEW n \in DOMAIN chain' PROVE chain'[n] \in stored'
    <3>1. n \in DOMAIN chain /\ n < Len(chain) /\ chain'[n] = chain[n]
      BY <2>1, <2>2 DEF TypeOK
    <3>2. Height[chain[n]] = n /\ chain[n] \in stored
      BY <3>1 DEF HeightInv, StoredInv, AddedBlocksStored
    <3> QED BY <2>1, <3>1, <3>2
  <2>3. ASSUME NEW s \in results, s.block \in Block PROVE s.block \in stored'
    <3>1. s.index = Height[s.block] /\ s.index > Len(chain) /\ s.block \in stored
      BY <2>3 DEF IndexInv, PlaceInv, StoredInv
    <3> QED BY <2>1, <3>1
  <2>4. ASSUME NEW f \in Fetcher, pc[f] = "wake" PROVE job[f].block \in stored'
    <3>1. /\ job[f].index = Height[job[f].block] /\ job[f].index > Len(chain)
          /\ job[f].block \in stored
      BY <2>4 DEF JobShape, Shape, PlaceInv, StoredInv
    <3> QED BY <2>1, <3>1
  <2> QED BY <1>2, <2>2, <2>3, <2>4 DEF StoredInv, AddedBlocksStored
<1> QED BY <1>1, <1>3, <1>4

\* Every step keeps what was seen stored.
LEMMA StoredNext ==
    ASSUME IInv, HeightInv, PlaceInv, StoredInv, [Next]_vars PROVE StoredInv'
<1>0. TypeOK /\ JobShape /\ LinkInv /\ IndexInv
  BY DEF IInv
<1>1. ASSUME NEW f \in Fetcher, FetcherStep(f) PROVE StoredInv'
  BY <1>0, <1>1, StoredFetcherStep
<1>2. CASE StorageStep
  BY <1>0, <1>2, StoredStorageStep
<1>3. ASSUME NEW f \in Fetcher, NEW i, Fetching(f, i), UNCHANGED <<chain, stored, results>>
      PROVE  StoredInv'
  <2>1. pc'[f] = "fetch" /\ \A g \in Fetcher \ {f} : pc'[g] = pc[g] /\ job'[g] = job[g]
    BY <1>0, <1>3 DEF Fetching, TypeOK
  <2> QED BY <1>3, <2>1 DEF StoredInv, AddedBlocksStored
<1>4. CASE FetchInReorg \/ \E w \in Worker : TakeIndex(w)
  BY <1>3, <1>4 DEF FetchInReorg, TakeIndex, Fetcher, storageVars
<1>5. CASE \/ StartRange \/ LeaveReorg \/ CleanCache \/ AbortListeners \/ PollTip
           \/ NodeStep \/ UNCHANGED vars
  <2>1. UNCHANGED <<chain, stored, pc, job>> /\ results' \subseteq results
    BY <1>5 DEF StartRange, LeaveReorg, CleanCache, AbortListeners, PollTip, NodeStep, vars,
       storageVars
  <2> QED BY <2>1 DEF StoredInv, AddedBlocksStored
<1>6. CASE Restart
  <2>1. UNCHANGED <<chain, stored>> /\ results' = {} /\ \A f \in Fetcher : pc'[f] = "idle"
    BY <1>6 DEF Restart, storageVars
  <2> QED BY <2>1 DEF StoredInv, AddedBlocksStored
<1> QED
  BY <1>1, <1>2, <1>4, <1>5, <1>6 DEF Next, SyncerStep, StorageStep

-----------------------------------------------------------------------------
(* The first two blocks *)

\* A block of height two follows the genesis block.
LEMMA HeightTwo == \A b \in Block : Height[b] = 2 => b # Genesis /\ Parent[b] = Genesis
<1> SUFFICES ASSUME NEW b \in Block, Height[b] = 2
             PROVE  b # Genesis /\ Parent[b] = Genesis
  OBVIOUS
<1>1. b # Genesis
  BY HeadersAssumption
<1>2. Parent[b] \in Block /\ Height[b] = Height[Parent[b]] + 1 /\ Height[Parent[b]] \in Nat
  BY <1>1, HeadersAssumption
<1> QED BY <1>1, <1>2, HeightOne

\* What a fetch of index 1 or 2 has not done: it looked for no coin outside the
\* storage.
Early(p, j) ==
    /\ p \notin {"cache", "lock"}
    /\ j.remaining = {} /\ j.listening = {} /\ ~j.abort

\* A fetch of index 1 or 2 finds no other head than its parent, and every coin in
\* the storage.
LEMMA EarlyOwnStep ==
    ASSUME IInv, HeightInv, PlaceInv, EarlyInv, NEW f \in Fetcher, FetcherStep(f),
           pc[f] # "idle", job[f].index <= 2
    PROVE  /\ \A r \in results' : r.block = OrphanHead => r \in results
           /\ pc'[f] # "idle" => Early(pc'[f], job'[f])
<1> DEFINE j == job[f]
<1>0. /\ TypeOK /\ LinkInv /\ IndexInv /\ j \in Job /\ Shape(pc[f], j) /\ Early(pc[f], j)
      /\ j.index > Len(chain) /\ Len(chain) \in Nat /\ (Len(chain) = 0 <=> chain = << >>)
      /\ chain # << >> => HeadBlock \in Block /\ Height[HeadBlock] = Len(chain)
  BY HeadHeight DEF IInv, TypeOK, JobShape, EarlyInv, Early, PlaceInv
<1>1. pc[f] \notin {"idle", "fetch"} =>
        /\ j.block \in Block /\ j.index = Height[j.block]
        /\ j.index = 1 => j.block = Genesis /\ chain = << >>
        /\ j.index # 1 => /\ j.block # Genesis /\ Parent[j.block] = Genesis
                          /\ chain # << >> => HeadBlock = Genesis
  <2> SUFFICES ASSUME pc[f] \notin {"idle", "fetch"}
               PROVE  /\ j.block \in Block /\ j.index = Height[j.block]
                      /\ j.index = 1 => j.block = Genesis /\ chain = << >>
                      /\ j.index # 1 => /\ j.block # Genesis /\ Parent[j.block] = Genesis
                                        /\ chain # << >> => HeadBlock = Genesis
    OBVIOUS
  <2>1. j.block \in Block /\ j.index = Height[j.block] /\ j.index \in Nat \ {0}
    BY <1>0, HeadersAssumption DEF Shape
  <2>2. j.index = 1 => j.block = Genesis /\ chain = << >>
    <3>1. Height[j.block] = 1 <=> j.block = Genesis
      BY <2>1, HeightOne
    <3> QED BY <1>0, <2>1, <3>1
  <2>3. j.index # 1 => j.index = 2 /\ Len(chain) <= 1
    BY <1>0, <2>1
  <2> QED BY <1>0, <2>1, <2>2, <2>3, HeightOne, HeightTwo
<1>2. CASE FetchBlock(f)
  <2>1. PICK b \in Block : SetJob(f, [j EXCEPT !.block = b, !.todo = GetInputsForTxs(b)])
    BY <1>2 DEF FetchBlock
  <2>2. Early("check", [j EXCEPT !.block = b, !.todo = GetInputsForTxs(b)])
    BY <1>0 DEF Early, Job
  <2> QED BY <1>0, <1>2, <2>1, <2>2 DEF FetchBlock, TypeOK
<1>3. CASE CheckHeaderMatch(f)
  <2>1. pc[f] \notin {"idle", "fetch"}
    BY <1>3 DEF CheckHeaderMatch
  <2>2. CASE chain = << >>
    <3>1. ~Disconnected(j.block)
      BY <2>2 DEF Disconnected, HeadBlock
    <3> QED BY <1>0, <1>3, <3>1 DEF CheckHeaderMatch, Early, TypeOK
  <2>3. CASE chain # << >>
    <3>1. HeadBlock = Parent[j.block]
      BY <1>1, <2>1, <2>3
    <3>2. ~Disconnected(j.block)
      BY <3>1 DEF Disconnected
    <3> QED BY <1>0, <1>3, <3>2 DEF CheckHeaderMatch, Early, TypeOK
  <2> QED BY <2>2, <2>3
<1>4. CASE FindCoins(f)
  <2>1. CASE j.todo = {}
    BY <1>0, <1>4, <2>1 DEF FindCoins, Early, TypeOK
  <2>2. CASE j.todo # {}
    <3>1. PICK in \in j.todo : SetJob(f, [j EXCEPT !.input = in]) /\ Goto(f, "snapshot")
      BY <1>4, <2>2 DEF FindCoins
    <3>2. Early("snapshot", [j EXCEPT !.input = in])
      BY <1>0 DEF Early, Job
    <3> QED BY <1>0, <1>4, <3>1, <3>2 DEF FindCoins, TypeOK
  <2> QED BY <2>1, <2>2
<1>5. CASE Snapshot(f)
  <2>1. j.input \in GetInputsForTxs(j.block) /\ j.input.coin \in UnspentBefore(j.block)
    BY <1>0, <1>1, <1>5, InputUnspent DEF Snapshot, Shape
  <2>2. TooEarly(j.block) \/ j.input.coin \in coins
    <3>1. pc[f] \notin {"idle", "fetch"}
      BY <1>5 DEF Snapshot
    <3>2. CASE chain = << >>
      BY <1>0, <2>1, <3>2 DEF TooEarly, LinkInv, UnspentBefore, HeadBlock
    <3>3. CASE chain # << >>
      <4>1. HeadBlock = Parent[j.block] /\ j.block # Genesis
        BY <1>1, <3>1, <3>3
      <4> QED BY <1>0, <2>1, <3>3, <4>1 DEF LinkInv, UnspentBefore
    <3> QED BY <3>2, <3>3
  <2>3. /\ Goto(f, "find")
        /\ \/ SetJob(f, [j EXCEPT !.input = None, !.head = None])
           \/ SetJob(f, [j EXCEPT !.todo = @ \ {j.input}, !.input = None, !.head = None])
    BY <1>5, <2>2 DEF Snapshot, Found, Retry
  <2>4. /\ Early("find", [j EXCEPT !.input = None, !.head = None])
        /\ Early("find", [j EXCEPT !.todo = @ \ {j.input}, !.input = None, !.head = None])
    BY <1>0 DEF Early, Job
  <2> QED BY <1>0, <1>5, <2>3, <2>4 DEF Snapshot, TypeOK
<1>6. ~(LookUpCache(f) \/ RegisterListener(f) \/ StopListening(f))
  BY <1>0 DEF LookUpCache, RegisterListener, StopListening, Early
<1>7. CASE WaitDone(f)
  <2>1. SetJob(f, [j EXCEPT !.todo = j.remaining, !.remaining = {}]) /\ Goto(f, "check")
    BY <1>0, <1>7 DEF WaitDone, Early
  <2>2. Early("check", [j EXCEPT !.todo = j.remaining, !.remaining = {}])
    BY <1>0 DEF Early, Job
  <2> QED BY <1>0, <1>7, <2>1, <2>2 DEF WaitDone, Early, TypeOK
<1>8. CASE SeeCoins(f) \/ CountSeen(f) \/ StoreSeen(f)
  BY <1>0, <1>8 DEF SeeCoins, CountSeen, StoreSeen, Early, TypeOK
<1>9. CASE WakeListeners(f)
  <2>1. j.block # OrphanHead
    BY <1>1, <1>9, FetchersAssumption DEF WakeListeners
  <2> QED BY <1>0, <1>9, <2>1 DEF WakeListeners, Deliver, TypeOK
<1> QED
  BY <1>2, <1>3, <1>4, <1>5, <1>6, <1>7, <1>8, <1>9 DEF FetcherStep

\* Every step keeps the fetches of the first two blocks from looking elsewhere.
LEMMA EarlyNext ==
    ASSUME IInv, HeightInv, PlaceInv, EarlyInv, [Next]_vars PROVE EarlyInv'
<1>0. TypeOK
  BY DEF IInv
<1>1. ASSUME NEW f \in Fetcher, FetcherStep(f) PROVE EarlyInv'
  <2>1. /\ pc[f] # "idle"
        /\ \A g \in Fetcher \ {f} : pc'[g] = pc[g] /\ job'[g] = job[g]
        /\ \/ Keeps(f)
           \/ Deliver(f, OrphanHead)
           \/ pc[f] = "wake" /\ Deliver(f, job[f].block)
    BY <1>0, <1>1, FetcherEffect
  <2>2. ASSUME pc'[f] # "idle", job'[f].index <= 2 PROVE Early(pc'[f], job'[f])
    <3>1. Keeps(f)
      BY <1>0, <2>1, <2>2 DEF Deliver, TypeOK
    <3> QED BY <1>1, <2>1, <2>2, <3>1, EarlyOwnStep DEF Keeps
  <2>3. ASSUME NEW r \in results', r.block = OrphanHead PROVE r.index > 2
    <3>1. CASE r \in results
      BY <2>3, <3>1 DEF EarlyInv
    <3>2. CASE r \notin results
      <4>1. r.index = job[f].index
        BY <2>1, <3>2 DEF Keeps, Deliver
      <4>2. ~(job[f].index <= 2) /\ job[f].index \in Nat
        BY <1>0, <1>1, <2>1, <2>3, <3>2, EarlyOwnStep DEF TypeOK, Job
      <4> QED BY <4>1, <4>2
    <3> QED BY <3>1, <3>2
  <2> QED BY <2>1, <2>2, <2>3 DEF EarlyInv, Early
<1>2. ASSUME NEW f \in Fetcher, NEW i, Fetching(f, i), UNCHANGED results PROVE EarlyInv'
  <2>1. Early("fetch", [NoJob EXCEPT !.index = i])
    BY DEF Early, NoJob
  <2>2. /\ Early(pc'[f], job'[f])
        /\ \A g \in Fetcher \ {f} : pc'[g] = pc[g] /\ job'[g] = job[g]
    BY <1>0, <1>2, <2>1 DEF Fetching, TypeOK
  <2> QED BY <1>2, <2>2 DEF EarlyInv, Early
<1>3. CASE FetchInReorg \/ \E w \in Worker : TakeIndex(w)
  BY <1>2, <1>3 DEF FetchInReorg, TakeIndex, Fetcher
<1>4. CASE \/ StorageStep \/ StartRange \/ LeaveReorg \/ CleanCache \/ AbortListeners
           \/ PollTip \/ NodeStep \/ UNCHANGED vars
  <2>1. UNCHANGED <<pc, job>> /\ results' \subseteq results
    BY <1>4 DEF StorageStep, AddBlock, BlockRemoved, StartRange, LeaveReorg, CleanCache,
       AbortListeners, PollTip, NodeStep, vars
  <2> QED BY <2>1 DEF EarlyInv
<1>5. CASE Restart
  <2>1. results' = {} /\ \A f \in Fetcher : pc'[f] = "idle"
    BY <1>5 DEF Restart
  <2> QED BY <2>1 DEF EarlyInv
<1> QED
  BY <1>1, <1>3, <1>4, <1>5 DEF Next, SyncerStep, StorageStep

-----------------------------------------------------------------------------
(* Theorems *)

\* The strengthening holds initially.
LEMMA StoredInit == Init => SInv
<1> SUFFICES ASSUME Init PROVE SInv
  OBVIOUS
<1>1. HeightInv /\ PlaceInv /\ DistinctInv
  BY DEF Init, HeightInv, PlaceInv, DistinctInv, Fetcher
<1>2. StoredInv /\ EarlyInv
  BY DEF Init, StoredInv, AddedBlocksStored, EarlyInv
<1> QED BY <1>1, <1>2, InductiveInit DEF SInv

\* Every step preserves it.
LEMMA StoredInductive == SInv /\ [Next]_vars => SInv'
<1> SUFFICES ASSUME SInv, [Next]_vars PROVE SInv'
  OBVIOUS
<1>1. IInv /\ HeightInv /\ PlaceInv /\ DistinctInv /\ StoredInv /\ EarlyInv
  BY DEF SInv
<1>2. TypeOK /\ LinkInv /\ IndexInv
  BY <1>1 DEF IInv
<1>3. HeightInv'
  BY <1>1, <1>2, HeightNext
<1>4. PlaceInv' /\ DistinctInv' /\ StoredInv' /\ EarlyInv'
  BY <1>1, PlaceNext, StoredNext, EarlyNext
<1> QED BY <1>1, <1>3, <1>4, InductiveNext DEF SInv

\* The strengthening holds in every reachable state.
LEMMA StoredAlways == Spec => []SInv
BY StoredInit, StoredInductive, PTL DEF Spec

\* BlockSeen stores a block before BlockAdded adds it, whichever fetcher saw it,
\* and no removal deletes a block that is in the chain or waits to be added to it
\* (indexer.go:246-262, 318-336, 377-385).
THEOREM AddedBlocksAlwaysStored == Spec => []AddedBlocksStored
<1>1. SInv => AddedBlocksStored
  BY DEF SInv, StoredInv
<1> QED BY <1>1, StoredAlways, PTL

\* The sequencer never meets a result that asks to remove the genesis block, an
\* error that every restart would meet again: an orphan is reported above index 2
\* only, and every block at index 2 is a child of the genesis block
\* (indexer.go:564-570).
THEOREM GenesisNeverDisputed == Spec => []GenesisUndisputed
<1>1. ASSUME SInv PROVE GenesisUndisputed
  <2> SUFFICES ASSUME NEW r \in results, Processing, r.index = nextIndex, ~Connects(r),
                      HeadBlock = Genesis
               PROVE  FALSE
    BY DEF GenesisUndisputed
  <2>1. /\ TypeOK /\ IndexInv /\ HeightInv
        /\ \A s \in results : s.block = OrphanHead => s.index > 2
    BY <1>1 DEF SInv, IInv, EarlyInv
  <2>2. nextIndex = 2
    <3>1. chain # << >>
      BY DEF Connects
    <3>2. Height[HeadBlock] = Len(chain) /\ nextIndex = Len(chain) + 1
      BY <2>1, <3>1, HeadHeight
    <3>3. Len(chain) = 1
      BY <3>2, HeadersAssumption
    <3> QED BY <3>2, <3>3
  <2>3. r.block \in Block
    BY <2>1, <2>2 DEF TypeOK, Result
  <2>4. Parent[r.block] = HeadBlock
    BY <2>1, <2>2, <2>3, HeightTwo DEF IndexInv
  <2> QED BY <2>3, <2>4 DEF Connects
<1> QED BY <1>1, StoredAlways, PTL
=============================================================================
