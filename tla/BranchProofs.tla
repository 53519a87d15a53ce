----------------------------- MODULE BranchProofs -----------------------------
(***************************************************************************)
(* What Indexer promises for trees of blocks in which every block spends   *)
(* a box of its parent, as the blocks of Ergo spend the emission box: the  *)
(* coins of seen blocks can be found until they are added and no later,    *)
(* whatever the branches share.  And for a node that keeps to one branch:  *)
(* every wait is still to be ended.  Each theorem names the conditions it  *)
(* needs as hypotheses.                                                    *)
(***************************************************************************)
EXTENDS StoredProofs

USE DEF Index, NotInReorg, Goto, SetJob, Fail

\* Each block makes its boxes once, see MakesEachOnce.
MadeOnce == \E made \in [Block -> SUBSET Coin] : MakesEachOnce(made)

-----------------------------------------------------------------------------
(* Whose parent is where *)

\* The block was seen, and was not processed by the sequencer.
Pending(q) ==
    \/ \E f \in Fetcher : pc[f] \in {"count", "store", "wake"} /\ job[f].block = q
    \/ \E r \in results : r.block = q
InChain(q) == \E n \in DOMAIN chain : chain[n] = q
Known(q) == Pending(q) \/ InChain(q)

\* A box that one block alone creates is unspent only after that block.
OriginInv ==
    \A n \in DOMAIN chain : \A c \in Unspent[chain[n]], q \in Block :
        OnlyIn(c, q) => \E m \in 1 .. n : chain[m] = q

\* In the cache it says that the block is pending, or about to be cleaned away.
CacheOriginInv ==
    \A c \in coinCache, q \in Block :
        OnlyIn(c, q) => Pending(q) \/ (syncerPc = "clean" /\ q = HeadBlock)

IsParent(q, b) == b # Genesis /\ Parent[b] = q

\* The fetch has yet to find the link of its block to the parent.
Unlinked(j) == \E in \in j.todo \cup j.remaining : OnlyIn(in.coin, Parent[j.block])

\* Once the link of a block to its parent was found the parent is known, and it
\* stays so until the block is processed.
ParentInv ==
    /\ \A f \in Fetcher, q \in Block :
           pc[f] \notin {"idle", "fetch"} /\ IsParent(q, job[f].block) =>
               Known(q) \/ Unlinked(job[f])
    /\ \A f \in Fetcher :
           pc[f] \in {"wait", "see", "count", "store", "wake"} => job[f].todo = {}
    /\ \A r \in results, q \in Block :
           r.block \in Block /\ IsParent(q, r.block) => Known(q)

BInv == SInv /\ OriginInv /\ CacheOriginInv /\ ParentInv

\* Among some natural numbers one is the least.
LEMMA Least ==
    ASSUME NEW S \in SUBSET Nat, S # {} PROVE \E n \in S : \A m \in S : n <= m
<1> DEFINE Less == OpToRel(<, Nat)
<1>1. IsWellFoundedOn(Less, Nat)
  BY NatLessThanWellFounded
<1>2. \A m, n \in Nat : m < n => <<m, n>> \in Less
  BY DEF OpToRel
<1> HIDE DEF Less
<1>3. PICK n \in S : \A m \in S : ~(<<m, n>> \in Less)
  BY <1>1, WFMin
<1>4. \A m \in S : ~(m < n)
  BY <1>2, <1>3
<1> QED BY <1>4

\* Parents are blocks, one below.
LEMMA ParentBelow ==
    ASSUME NEW b \in Block, b # Genesis
    PROVE  /\ Parent[b] \in Block /\ Height[b] \in Nat /\ Height[Parent[b]] \in Nat
           /\ Height[b] = Height[Parent[b]] + 1
BY HeadersAssumption

\* A pending block is above the chain, and so is one that is fetched.
LEMMA PendingAbove ==
    ASSUME SInv
    PROVE  /\ \A q \in Block : Pending(q) => Height[q] > Len(chain)
           /\ \A f \in Fetcher : pc[f] \notin {"idle", "fetch"} =>
                  job[f].block \in Block /\ Height[job[f].block] = job[f].index
                      /\ Height[job[f].block] > Len(chain)
           /\ \A r \in results : r.block \in Block =>
                  Height[r.block] = r.index /\ Height[r.block] > Len(chain)
<1>1. ASSUME NEW f \in Fetcher, pc[f] \notin {"idle", "fetch"}
      PROVE  /\ job[f].block \in Block /\ Height[job[f].block] = job[f].index
             /\ Height[job[f].block] > Len(chain)
  <2>1. Shape(pc[f], job[f]) /\ job[f].index > Len(chain)
    BY <1>1 DEF SInv, IInv, JobShape, PlaceInv
  <2> QED BY <1>1, <2>1 DEF Shape
<1>2. ASSUME NEW r \in results, r.block \in Block
      PROVE  Height[r.block] = r.index /\ Height[r.block] > Len(chain)
  <2>1. r.index = Height[r.block] /\ r.index > Len(chain)
    BY <1>2 DEF SInv, IInv, IndexInv, PlaceInv
  <2> QED BY <2>1
<1>3. \A q \in Block : Pending(q) => Height[q] > Len(chain)
  BY <1>1, <1>2 DEF Pending
<1> QED BY <1>1, <1>2, <1>3

\* The block of the chain at the height of the head is the head, and all of its
\* blocks are at most that high.
LEMMA ChainHeights ==
    ASSUME SInv
    PROVE  /\ Len(chain) \in Nat /\ (chain = << >> <=> Len(chain) = 0)
           /\ chain # << >> => HeadBlock \in Block /\ Height[HeadBlock] = Len(chain)
           /\ \A q \in Block : InChain(q) => /\ Height[q] <= Len(chain) /\ chain # << >>
                                             /\ Height[q] = Len(chain) => q = HeadBlock
           /\ chain # << >> => InChain(HeadBlock)
<1>1. TypeOK /\ IndexInv /\ HeightInv /\ chain \in Seq(Block)
  BY DEF SInv, IInv, TypeOK
<1>2. /\ Len(chain) \in Nat /\ (chain = << >> <=> Len(chain) = 0)
      /\ chain # << >> => HeadBlock \in Block /\ Height[HeadBlock] = Len(chain)
  BY <1>1, HeadHeight
<1>3. chain # << >> => HeadBlock = chain[Len(chain)] /\ Len(chain) \in DOMAIN chain
  BY <1>1, HeadIsBlock
<1>4. ASSUME NEW q \in Block, InChain(q)
      PROVE  /\ Height[q] <= Len(chain) /\ chain # << >>
             /\ Height[q] = Len(chain) => q = HeadBlock
  <2>1. PICK n \in DOMAIN chain : chain[n] = q /\ Height[q] = n
    BY <1>1, <1>4 DEF InChain, HeightInv
  <2>2. n \in 1 .. Len(chain)
    BY <1>1
  <2> QED BY <1>2, <1>3, <2>1, <2>2
<1> QED BY <1>2, <1>3, <1>4 DEF InChain

\* When the next block is processed, and the block was linked, it connects.
LEMMA NextConnects ==
    ASSUME BInv, Processing, NEW r \in results, r.index = nextIndex, r.block \in Block
    PROVE  Connects(r)
<1>1. SInv /\ (r.block # Genesis => Known(Parent[r.block]))
  BY ParentBelow DEF BInv, ParentInv, IsParent
<1>2. /\ nextIndex = Len(chain) + 1 /\ Len(chain) \in Nat /\ Height[r.block] = r.index
      /\ \A q \in Block : Pending(q) => Height[q] > Len(chain)
      /\ \A q \in Block : InChain(q) /\ Height[q] = Len(chain) => q = HeadBlock
  <2>1. TypeOK /\ IndexInv /\ HeightInv
    BY <1>1 DEF SInv, IInv
  <2>2. nextIndex = Len(chain) + 1
    BY <2>1, HeadHeight
  <2> QED BY <1>1, <2>2, PendingAbove, ChainHeights
<1>3. CASE r.block = Genesis
  BY <1>1, <1>2, <1>3, ChainHeights, HeadersAssumption DEF Connects
<1>4. CASE r.block # Genesis
  <2>1. Parent[r.block] \in Block /\ Height[Parent[r.block]] = Len(chain)
    BY <1>2, <1>4, ParentBelow
  <2>2. Parent[r.block] = HeadBlock
    BY <1>1, <1>2, <1>4, <2>1 DEF Known
  <2> QED BY <2>2 DEF Connects
<1> QED BY <1>3, <1>4

\* Two blocks that wait for the sequencer, or are fetched, at the index of a
\* result are that result.
LEMMA PendingApart ==
    ASSUME SInv, NEW r \in results, NEW q \in Block, Pending(q), Height[q] = r.index
    PROVE  r.block = q /\ \A f \in Fetcher : pc[f] # "idle" => job[f].index # Height[q]
<1>1. \A f \in Fetcher : pc[f] # "idle" => job[f].index # r.index
  BY DEF SInv, DistinctInv
<1>2. PICK s \in results : s.block = q
  BY <1>1, PendingAbove DEF Pending
<1>3. s.index = r.index
  BY <1>2, PendingAbove
<1> QED BY <1>1, <1>2, <1>3 DEF SInv, DistinctInv

-----------------------------------------------------------------------------
(* Parents stay known *)

\* A step of a fetch takes nothing away from the sequencer.
LEMMA PendingKept ==
    ASSUME TypeOK, NEW f \in Fetcher, FetcherStep(f), NEW q \in Block, Pending(q)
    PROVE  Pending(q)'
<1>1. /\ \A g \in Fetcher \ {f} : pc'[g] = pc[g] /\ job'[g] = job[g]
      /\ results \subseteq results'
  BY FetcherEffect DEF Keeps, Deliver
<1>2. CASE pc[f] \in {"count", "store", "wake"} /\ job[f].block = q
  <2>1. CASE pc[f] = "wake"
    <3>1. WakeListeners(f)
      BY <2>1 DEF FetcherStep, FetchBlock, CheckHeaderMatch, FindCoins, Snapshot, LookUpCache,
         RegisterListener, StopListening, WaitDone, SeeCoins, CountSeen, StoreSeen
    <3>2. [index |-> job[f].index, block |-> q] \in results'
      BY <1>2, <3>1 DEF WakeListeners, Deliver
    <3> QED BY <3>2 DEF Pending
  <2>2. CASE pc[f] # "wake"
    <3>1. CountSeen(f) \/ StoreSeen(f)
      BY <1>2, <2>2 DEF FetcherStep, FetchBlock, CheckHeaderMatch, FindCoins, Snapshot,
         LookUpCache, RegisterListener, StopListening, WaitDone, SeeCoins, WakeListeners
    <3>2. UNCHANGED job /\ pc'[f] \in {"store", "wake"}
      BY <3>1 DEF CountSeen, StoreSeen, TypeOK
    <3>3. pc'[f] \in {"count", "store", "wake"} /\ job'[f].block = q
      BY <1>2, <3>2
    <3> QED BY Zenon, <3>3 DEF Pending
  <2> QED BY <2>1, <2>2
<1>3. CASE ~(pc[f] \in {"count", "store", "wake"} /\ job[f].block = q)
  BY <1>1, <1>3 DEF Pending
<1> QED BY <1>2, <1>3

\* A link that was found says that the parent is known.
LEMMA FoundLink ==
    ASSUME BInv, NEW q \in Block, NEW c, OnlyIn(c, q), c \in coins \/ c \in coinCache
    PROVE  Known(q)
<1>1. /\ SInv /\ OriginInv /\ CacheOriginInv
      /\ coins = IF chain = << >> THEN GenesisCoins ELSE Unspent[HeadBlock]
  BY DEF BInv, SInv, IInv, LinkInv
<1>2. CASE c \in coins
  <2>1. chain # << >> /\ c \in Unspent[HeadBlock]
    BY <1>1, <1>2 DEF OnlyIn
  <2>2. HeadBlock = chain[Len(chain)] /\ Len(chain) \in DOMAIN chain
        /\ DOMAIN chain = 1 .. Len(chain)
    BY <1>1, <2>1, HeadIsBlock DEF SInv, IInv, TypeOK
  <2>3. \E m \in 1 .. Len(chain) : chain[m] = q
    BY <1>1, <2>1, <2>2 DEF OriginInv
  <2> QED BY <2>2, <2>3 DEF Known, InChain
<1>3. CASE c \in coinCache
  <2>1. Pending(q) \/ (syncerPc = "clean" /\ q = HeadBlock)
    BY <1>1, <1>3 DEF CacheOriginInv
  <2>2. syncerPc = "clean" => InChain(HeadBlock)
    BY <1>1, ChainHeights DEF SInv, IInv, IndexInv
  <2> QED BY <2>1, <2>2 DEF Known
<1> QED BY <1>2, <1>3

\* A step of a fetch loses the link of its block only by finding it.
LEMMA OwnLink ==
    ASSUME LinkedBlocks, BInv, NEW f \in Fetcher, FetcherStep(f)
    PROVE  /\ pc'[f] \notin {"idle", "fetch"} /\ job'[f].block # Genesis =>
                  Known(Parent[job'[f].block]) \/ Unlinked(job'[f])
           /\ pc'[f] \in {"wait", "see", "count", "store", "wake"} => job'[f].todo = {}
<1> DEFINE j == job[f]
           Fine(p, k) == /\ p \notin {"idle", "fetch"} /\ k.block # Genesis =>
                                Known(Parent[k.block]) \/ Unlinked(k)
                         /\ p \in {"wait", "see", "count", "store", "wake"} => k.todo = {}
<1>0. j \in Job
  BY DEF BInv, SInv, IInv, TypeOK
<1>1. /\ pc \in [Fetcher -> PC] /\ job \in [Fetcher -> Job]
      /\ Shape(pc[f], j) /\ SInv /\ TypeOK
      /\ pc[f] \notin {"idle", "fetch"} /\ j.block # Genesis => Known(Parent[j.block]) \/ Unlinked(j)
      /\ pc[f] \in {"wait", "see", "count", "store", "wake"} => j.todo = {}
  <2>1. SInv /\ TypeOK /\ ParentInv /\ Shape(pc[f], j)
    BY DEF BInv, SInv, IInv, JobShape
  <2>2. pc[f] \notin {"idle", "fetch"} => j.block \in Block
    BY <2>1 DEF Shape
  <2>3. pc[f] \notin {"idle", "fetch"} /\ j.block # Genesis => Known(Parent[j.block]) \/ Unlinked(j)
    BY <2>1, <2>2, ParentBelow DEF ParentInv, IsParent
  <2> QED BY <2>1, <2>3 DEF ParentInv, TypeOK
<1> HIDE DEF j
<1>2. \A p, k : Goto(f, p) /\ SetJob(f, k) /\ Fine(p, k) => Fine(pc'[f], job'[f])
  BY <1>1
<1>3. \A p : Goto(f, p) /\ UNCHANGED job /\ Fine(p, j) => Fine(pc'[f], job'[f])
  BY <1>1 DEF j
<1>4. \A k : UNCHANGED pc /\ SetJob(f, k) /\ Fine(pc[f], k) => Fine(pc'[f], job'[f])
  BY <1>1
<1>5. \A b : Deliver(f, b) => Fine(pc'[f], job'[f])
  BY <1>1 DEF Deliver
<1>6. CASE FetchBlock(f)
  <2>1. PICK b \in Block : SetJob(f, [j EXCEPT !.block = b, !.todo = GetInputsForTxs(b)])
    BY <1>6 DEF FetchBlock, j
  <2> DEFINE k == [j EXCEPT !.block = b, !.todo = GetInputsForTxs(b)]
  <2>2. k.block = b /\ k.todo = GetInputsForTxs(b)
    BY <1>0 DEF Job
  <2>3. SetJob(f, k) /\ Goto(f, "check")
    BY <1>6, <2>1 DEF FetchBlock
  <2> HIDE DEF k
  <2>4. b # Genesis => Unlinked(k)
    BY <2>2 DEF LinkedBlocks, Unlinked
  <2>5. Fine("check", k)
    BY <2>2, <2>4
  <2> HIDE DEF Fine
  <2>6. Fine(pc'[f], job'[f])
    BY <1>2, <2>3, <2>5
  <2> QED BY <2>6 DEF Fine
<1>7. CASE CheckHeaderMatch(f)
  <2>1. pc[f] = "check" /\ (Deliver(f, OrphanHead) \/ (Goto(f, "find") /\ UNCHANGED job))
    BY <1>7 DEF CheckHeaderMatch
  <2> QED BY <1>1, <1>3, <1>5, <2>1
<1>8. CASE FindCoins(f)
  <2>1. CASE j.todo = {}
    <3>1. /\ pc[f] = "find" /\ UNCHANGED job
          /\ Goto(f, "see") \/ Goto(f, "wait")
      BY <1>8, <2>1 DEF FindCoins, j
    <3> QED BY <1>1, <1>3, <2>1, <3>1
  <2>2. CASE j.todo # {}
    <3>1. PICK in \in j.todo : SetJob(f, [j EXCEPT !.input = in])
      BY <1>8, <2>2 DEF FindCoins, j
    <3>2. pc[f] = "find" /\ Goto(f, "snapshot")
      BY <1>8, <2>2 DEF FindCoins, j
    <3>3. /\ [j EXCEPT !.input = in].block = j.block
          /\ Unlinked(j) => Unlinked([j EXCEPT !.input = in])
      BY <1>0 DEF Job, Unlinked
    <3>4. Fine("snapshot", [j EXCEPT !.input = in])
      BY <1>1, <3>2, <3>3
    <3> QED BY <1>2, <3>1, <3>2, <3>4
  <2> QED BY <2>1, <2>2
<1>9. ASSUME Retry(f), pc[f] \in {"snapshot", "lock"} PROVE Fine(pc'[f], job'[f])
  <2> DEFINE k == [j EXCEPT !.input = None, !.head = None]
  <2>1. SetJob(f, k) /\ Goto(f, "find")
    BY <1>9 DEF Retry, j
  <2>2. k.block = j.block /\ (Unlinked(j) => Unlinked(k))
    BY <1>0 DEF Job, Unlinked
  <2> HIDE DEF k
  <2>3. Fine("find", k)
    BY <1>1, <1>9, <2>2
  <2> QED BY <1>2, <2>1, <2>3
<1>10. ASSUME Found(f), pc[f] \in {"snapshot", "cache"},
              j.input.coin \in coins \/ j.input.coin \in coinCache
       PROVE  Fine(pc'[f], job'[f])
  <2> DEFINE k == [j EXCEPT !.todo = @ \ {j.input}, !.input = None, !.head = None]
  <2>1. SetJob(f, k) /\ Goto(f, "find")
    BY <1>10 DEF Found, j
  <2>2. /\ k.block = j.block
        /\ (Unlinked(j) => Unlinked(k)) \/ OnlyIn(j.input.coin, Parent[j.block])
    BY <1>0 DEF Job, Unlinked
  <2> HIDE DEF k
  <2>3. j.block \in Block
    BY <1>1, <1>10 DEF Shape
  <2>4. j.block # Genesis /\ OnlyIn(j.input.coin, Parent[j.block]) => Known(Parent[j.block])
    BY <1>10, <2>3, ParentBelow, FoundLink
  <2>5. Fine("find", k)
    BY <1>1, <1>10, <2>2, <2>4
  <2> QED BY <1>2, <2>1, <2>5
<1>11. CASE Snapshot(f)
  <2>1. \/ Retry(f)
        \/ Found(f) /\ j.input.coin \in coins
        \/ Goto(f, "cache") /\ SetJob(f, [j EXCEPT !.head = HeadBlock])
    BY <1>11 DEF Snapshot, j
  <2>2. pc[f] = "snapshot"
    BY <1>11 DEF Snapshot
  <2>3. /\ [j EXCEPT !.head = HeadBlock].block = j.block
        /\ Unlinked(j) => Unlinked([j EXCEPT !.head = HeadBlock])
    BY <1>0 DEF Job, Unlinked
  <2>4. Fine("cache", [j EXCEPT !.head = HeadBlock])
    BY <1>1, <2>2, <2>3
  <2> HIDE DEF Fine
  <2>5. Fine(pc'[f], job'[f])
    BY <1>2, <1>9, <1>10, <2>1, <2>2, <2>4
  <2> QED BY <2>5 DEF Fine
<1>12. CASE LookUpCache(f)
  <2>1. \/ Found(f) /\ j.input.coin \in coinCache
        \/ Goto(f, "lock") /\ UNCHANGED job
    BY <1>12 DEF LookUpCache, j
  <2>2. pc[f] = "cache"
    BY <1>12 DEF LookUpCache
  <2>3. Fine("lock", j)
    BY <1>1, <2>2
  <2> HIDE DEF Fine
  <2>4. Fine(pc'[f], job'[f])
    BY <1>3, <1>10, <2>1, <2>2, <2>3
  <2> QED BY <2>4 DEF Fine
<1>13. CASE RegisterListener(f)
  <2> DEFINE k == [j EXCEPT !.todo = @ \ {j.input}, !.remaining = @ \cup {j.input},
                            !.listening = @ \cup {j.input}, !.input = None, !.head = None]
  <2>1. \/ Goto(f, "failed") /\ UNCHANGED job
        \/ Retry(f)
        \/ Goto(f, "find") /\ SetJob(f, k)
    BY <1>13 DEF RegisterListener, j
  <2>2. pc[f] = "lock"
    BY <1>13 DEF RegisterListener
  <2>3. k.block = j.block /\ (Unlinked(j) => Unlinked(k))
    BY <1>0 DEF Job, Unlinked
  <2> HIDE DEF k
  <2>4. Fine("find", k) /\ Fine("failed", j)
    BY <1>1, <2>2, <2>3
  <2> HIDE DEF Fine
  <2>5. Fine(pc'[f], job'[f])
    BY <1>2, <1>3, <1>9, <2>1, <2>2, <2>4
  <2> QED BY <2>5 DEF Fine
<1>14. CASE StopListening(f)
  <2> DEFINE left(in) == [j EXCEPT !.listening = @ \ {in}, !.abort = @ \/ waiter[in.tx].aborted]
  <2>1. PICK in \in j.listening :
          \/ UNCHANGED pc /\ SetJob(f, left(in))
          \/ Goto(f, "failed") /\ UNCHANGED job
    BY <1>14 DEF StopListening, j
  <2>2. pc[f] = "wait"
    BY <1>14 DEF StopListening
  <2> DEFINE k == left(in)
  <2>3. k.block = j.block /\ k.todo = j.todo /\ (Unlinked(j) => Unlinked(k))
    BY <1>0 DEF Job, Unlinked
  <2>4. (UNCHANGED pc /\ SetJob(f, k)) \/ (Goto(f, "failed") /\ UNCHANGED job)
    BY <2>1
  <2> HIDE DEF k
  <2>5. Fine("wait", k) /\ Fine("failed", j)
    BY <1>1, <2>2, <2>3
  <2> HIDE DEF Fine
  <2>6. Fine(pc'[f], job'[f])
    BY <1>3, <1>4, <2>2, <2>4, <2>5
  <2> QED BY <2>6 DEF Fine
<1>15. CASE WaitDone(f)
  <2> DEFINE k == [j EXCEPT !.todo = j.remaining, !.remaining = {}]
  <2>1. Deliver(f, OrphanHead) \/ (Goto(f, "check") /\ SetJob(f, k))
    BY <1>15 DEF WaitDone, j
  <2>2. pc[f] = "wait"
    BY <1>15 DEF WaitDone
  <2>3. k.block = j.block /\ (j.todo = {} /\ Unlinked(j) => Unlinked(k))
    BY <1>0 DEF Job, Unlinked
  <2> HIDE DEF k
  <2>4. Fine("check", k)
    BY <1>1, <2>2, <2>3
  <2> HIDE DEF Fine
  <2>5. Fine(pc'[f], job'[f])
    BY <1>2, <1>5, <2>1, <2>4
  <2> QED BY <2>5 DEF Fine
<1>16. CASE SeeCoins(f) \/ CountSeen(f) \/ StoreSeen(f)
  <2>1. /\ pc[f] \in {"see", "count", "store"} /\ UNCHANGED job
        /\ \E p \in {"count", "store", "wake"} : Goto(f, p)
    BY <1>16 DEF SeeCoins, CountSeen, StoreSeen
  <2> QED BY <1>1, <1>3, <2>1
<1>17. CASE WakeListeners(f)
  BY <1>5, <1>17 DEF WakeListeners
<1> QED
  BY <1>6, <1>7, <1>8, <1>11, <1>12, <1>13, <1>14, <1>15, <1>16, <1>17 DEF FetcherStep

\* A fetcher adds to the cache in the first step of BlockSeen and nowhere else.
LEMMA OnlySeeCoinsCaches ==
    ASSUME NEW f \in Fetcher, FetcherStep(f) PROVE SeeCoins(f) \/ coinCache' = coinCache
<1>1. CASE FetchBlock(f) \/ CheckHeaderMatch(f) \/ FindCoins(f) \/ Snapshot(f)
  BY <1>1 DEF FetchBlock, CheckHeaderMatch, FindCoins, Snapshot
<1>2. CASE LookUpCache(f) \/ RegisterListener(f) \/ StopListening(f) \/ WaitDone(f)
  BY <1>2 DEF LookUpCache, RegisterListener, StopListening, WaitDone
<1>3. CASE CountSeen(f) \/ StoreSeen(f) \/ WakeListeners(f)
  BY <1>3 DEF CountSeen, StoreSeen, WakeListeners
<1> QED BY <1>1, <1>2, <1>3 DEF FetcherStep

\* Every step of a fetch keeps origins and parents.
LEMMA BranchFetcherStep ==
    ASSUME LinkedBlocks, BInv, NEW f \in Fetcher, FetcherStep(f)
    PROVE  OriginInv' /\ CacheOriginInv' /\ ParentInv'
<1>0. /\ SInv /\ TypeOK /\ OriginInv /\ CacheOriginInv /\ ParentInv
      /\ UNCHANGED <<chain, syncerPc>>
      /\ \A g \in Fetcher \ {f} : pc'[g] = pc[g] /\ job'[g] = job[g]
      /\ \/ Keeps(f)
         \/ Deliver(f, OrphanHead)
         \/ pc[f] = "wake" /\ Deliver(f, job[f].block)
  BY FetcherEffect DEF BInv, SInv, IInv, syncVars
<1>1. \A q \in Block : Pending(q) => Pending(q)'
  BY <1>0, PendingKept
<1>2. \A q \in Block : Known(q) => Known(q)'
  BY <1>0, <1>1 DEF Known, InChain
<1>3. OriginInv'
  BY <1>0 DEF OriginInv
<1>4. CacheOriginInv'
  <2> SUFFICES ASSUME NEW c \in coinCache', NEW q \in Block, OnlyIn(c, q)
               PROVE  Pending(q)' \/ (syncerPc = "clean" /\ q = HeadBlock)
    BY <1>0 DEF CacheOriginInv, HeadBlock
  <2>1. CASE c \in coinCache
    BY <1>0, <1>1, <2>1 DEF CacheOriginInv
  <2>2. CASE c \notin coinCache
    <3>1. SeeCoins(f)
      BY <2>2, OnlySeeCoinsCaches
    <3>2. pc[f] = "see" /\ c \in Creates(job[f].block) /\ UNCHANGED job /\ pc'[f] = "count"
      BY <1>0, <2>2, <3>1 DEF SeeCoins, TypeOK
    <3>3. job[f].block \in Block
      BY <1>0, <3>2, PendingAbove
    <3>4. job[f].block = q
      BY <3>2, <3>3 DEF OnlyIn
    <3>5. pc'[f] \in {"count", "store", "wake"} /\ job'[f].block = q
      BY <3>2, <3>4
    <3>6. Pending(q)'
      BY Zenon, <3>5 DEF Pending
    <3> QED BY <3>6
  <2> QED BY <2>1, <2>2
<1>5. /\ \A g \in Fetcher, q \in Block :
             pc'[g] \notin {"idle", "fetch"} /\ IsParent(q, job'[g].block) =>
                 Known(q)' \/ Unlinked(job'[g])
      /\ \A g \in Fetcher :
             pc'[g] \in {"wait", "see", "count", "store", "wake"} => job'[g].todo = {}
  <2>1. /\ \A q \in Block : pc'[f] \notin {"idle", "fetch"} /\ IsParent(q, job'[f].block) =>
               Known(q)' \/ Unlinked(job'[f])
        /\ pc'[f] \in {"wait", "see", "count", "store", "wake"} => job'[f].todo = {}
    BY <1>2, OwnLink DEF IsParent
  <2>2. ASSUME NEW g \in Fetcher \ {f}
        PROVE  /\ \A q \in Block : pc'[g] \notin {"idle", "fetch"} /\ IsParent(q, job'[g].block) =>
                      Known(q)' \/ Unlinked(job'[g])
               /\ pc'[g] \in {"wait", "see", "count", "store", "wake"} => job'[g].todo = {}
    BY <1>0, <1>2 DEF ParentInv
  <2> QED BY <2>1, <2>2
<1>6. ASSUME NEW r \in results', NEW q \in Block, r.block \in Block, IsParent(q, r.block)
      PROVE  Known(q)'
  <2>1. CASE r \in results
    BY <1>0, <1>2, <1>6, <2>1 DEF ParentInv
  <2>2. CASE r \notin results
    <3>1. pc[f] = "wake" /\ r.block = job[f].block
      BY <1>0, <1>6, <2>2, FetchersAssumption DEF Keeps, Deliver
    <3>2. job[f].todo = {} /\ job[f].remaining = {}
      BY <1>0, <3>1 DEF ParentInv, SInv, IInv, JobShape, Shape
    <3>3. Known(q)
      BY <1>0, <1>6, <3>1, <3>2 DEF ParentInv, Unlinked
    <3> QED BY <1>2, <3>3
  <2> QED BY <2>1, <2>2
<1> QED BY <1>3, <1>4, <1>5, <1>6 DEF ParentInv, Unlinked

\* A step that leaves the fetches, the chain and the cache alone, or starts a
\* fetch, keeps what is known if it drops no block.
LEMMA BranchFrame ==
    ASSUME OriginInv, CacheOriginInv, ParentInv, UNCHANGED <<chain, coinCache, syncerPc>>,
           \A r \in results : r.block \in Block => r \in results',
           results' \subseteq results,
           \A f \in Fetcher : \/ pc'[f] = pc[f] /\ job'[f] = job[f]
                              \/ pc[f] = "idle" /\ pc'[f] = "fetch"
    PROVE  OriginInv' /\ CacheOriginInv' /\ ParentInv'
<1>1. \A q \in Block : Pending(q) => Pending(q)'
  BY DEF Pending
<1>2. OriginInv'
  BY DEF OriginInv
<1>3. CacheOriginInv'
  BY <1>1 DEF CacheOriginInv, HeadBlock
<1>4. ParentInv'
  <2>1. \A q \in Block : Known(q) => Known(q)'
    BY <1>1 DEF Known, InChain
  <2> QED BY <2>1 DEF ParentInv, Unlinked
<1> QED BY <1>2, <1>3, <1>4
\* BlockAdded takes the block from the results to the chain; what it created is
\* about to be cleaned from the cache.
LEMMA BranchAdd ==
    ASSUME BInv, NEW r \in results, AddBlock(r)
    PROVE  OriginInv' /\ CacheOriginInv' /\ ParentInv'
<1>0. /\ SInv /\ TypeOK /\ LinkInv /\ IndexInv /\ OriginInv /\ CacheOriginInv /\ ParentInv
      /\ chain \in Seq(Block) /\ Len(chain) \in Nat /\ DOMAIN chain = 1 .. Len(chain)
  BY DEF BInv, SInv, IInv, TypeOK
<1>1. /\ r.block \in Block /\ chain' = Append(chain, r.block)
      /\ chain = << >> => r.block = Genesis
      /\ chain # << >> => r.block # Genesis /\ Parent[r.block] = HeadBlock
  BY <1>0, AddStep
<1>2. /\ UNCHANGED <<pc, job, coinCache>> /\ results' = results \ {r}
      /\ syncerPc = "process" /\ syncerPc' = "clean"
  BY DEF AddBlock, Processing
<1>3. /\ Len(chain') = Len(chain) + 1 /\ DOMAIN chain' = 1 .. Len(chain) + 1
      /\ \A n \in DOMAIN chain : chain'[n] = chain[n]
      /\ chain'[Len(chain) + 1] = r.block /\ HeadBlock' = r.block
  <2>1. /\ Len(chain') = Len(chain) + 1 /\ DOMAIN chain' = 1 .. Len(chain) + 1
        /\ \A n \in DOMAIN chain : chain'[n] = chain[n]
        /\ chain'[Len(chain) + 1] = r.block
    BY <1>0, <1>1
  <2> QED BY <1>0, <2>1 DEF HeadBlock
<1>4. \A q \in Block : Pending(q) => Pending(q)' \/ q = r.block
  BY <1>2 DEF Pending
<1>5. \A q \in Block : Known(q) => Known(q)'
  BY <1>0, <1>3, <1>4 DEF Known, InChain
<1>6. OriginInv'
  <2>1. ASSUME NEW c \in Unspent[r.block], NEW q \in Block, OnlyIn(c, q)
        PROVE  \E m \in 1 .. Len(chain) + 1 : chain'[m] = q
    <3>1. c \in Creates(r.block) \/ c \in UnspentBefore(r.block)
      BY <1>1, <2>1, ValidBlocks
    <3>2. CASE c \in Creates(r.block)
      BY <1>0, <1>1, <1>3, <2>1, <3>2 DEF OnlyIn
    <3>3. CASE c \in UnspentBefore(r.block)
      <4>1. chain # << >> /\ c \in Unspent[HeadBlock]
        BY <1>1, <2>1, <3>3 DEF UnspentBefore, OnlyIn
      <4>2. HeadBlock = chain[Len(chain)] /\ Len(chain) \in DOMAIN chain
        BY <1>0, <4>1, HeadIsBlock
      <4>3. PICK m \in 1 .. Len(chain) : chain[m] = q
        BY <1>0, <2>1, <4>1, <4>2 DEF OriginInv
      <4> QED BY <1>0, <1>3, <4>3
    <3> QED BY <3>1, <3>2, <3>3
  <2>2. ASSUME NEW n \in 1 .. Len(chain), NEW c \in Unspent[chain[n]], NEW q \in Block, OnlyIn(c, q)
        PROVE  \E m \in 1 .. n : chain'[m] = q
    <3>1. PICK m \in 1 .. n : chain[m] = q
      BY <1>0, <2>2 DEF OriginInv
    <3> QED BY <1>0, <1>3, <3>1
  <2>3. \A n \in 1 .. Len(chain) + 1 : n \in 1 .. Len(chain) \/ n = Len(chain) + 1
    BY <1>0
  <2> QED BY <1>0, <1>3, <2>1, <2>2, <2>3 DEF OriginInv
<1>7. CacheOriginInv'
  BY <1>0, <1>2, <1>3, <1>4 DEF CacheOriginInv
<1>8. ParentInv'
  BY <1>0, <1>2, <1>5 DEF ParentInv, Unlinked
<1> QED BY <1>6, <1>7, <1>8

\* BlockRemoved happens for an orphan only, and takes away no parent: a block
\* that waits for the head would have the orphan's index.
LEMMA BranchRemove ==
    ASSUME BInv, NEW r \in results, BlockRemoved(r)
    PROVE  OriginInv' /\ CacheOriginInv' /\ ParentInv'
<1>0. /\ SInv /\ TypeOK /\ LinkInv /\ IndexInv /\ HeightInv
      /\ OriginInv /\ CacheOriginInv /\ ParentInv
      /\ chain \in Seq(Block) /\ Len(chain) \in Nat /\ DOMAIN chain = 1 .. Len(chain)
  BY DEF BInv, SInv, IInv, TypeOK
<1>1. /\ UNCHANGED <<pc, job, coinCache>> /\ results' = results \ {r}
      /\ syncerPc = "process" /\ syncerPc' = "process" /\ Processing
      /\ r.index = nextIndex /\ ~Connects(r)
  BY DEF BlockRemoved, Processing
<1>2. /\ chain' = SubSeq(chain, 1, Len(chain) - 1) /\ Len(chain) > 1
      /\ nextIndex = Len(chain) + 1
  BY <1>0, <1>1, RemoveStep, HeadHeight
<1>3. /\ DOMAIN chain' = 1 .. Len(chain) - 1
      /\ \A n \in 1 .. Len(chain) - 1 : chain'[n] = chain[n] /\ n \in DOMAIN chain
  BY <1>0, <1>2
<1>4. r.block \notin Block
  BY <1>1, NextConnects
<1>5. \A q \in Block : Pending(q) => Pending(q)'
  BY <1>1, <1>4 DEF Pending
<1>6. \A q \in Block : Known(q) => Known(q)' \/ Height[q] = Len(chain)
  <2> SUFFICES ASSUME NEW q \in Block, InChain(q), Height[q] # Len(chain) PROVE InChain(q)'
    BY <1>5 DEF Known
  <2>1. PICK n \in DOMAIN chain : chain[n] = q /\ Height[q] = n
    BY <1>0 DEF InChain, HeightInv
  <2>2. n \in 1 .. Len(chain) - 1
    BY <1>0, <2>1
  <2> QED BY <1>3, <2>1, <2>2 DEF InChain
<1>7. OriginInv'
  <2> SUFFICES ASSUME NEW n \in 1 .. Len(chain) - 1, NEW c \in Unspent[chain[n]], NEW q \in Block,
                      OnlyIn(c, q)
               PROVE  \E m \in 1 .. n : chain'[m] = q
    BY <1>3 DEF OriginInv
  <2>1. PICK m \in 1 .. n : chain[m] = q
    BY <1>3 DEF OriginInv, BInv
  <2>2. m \in 1 .. Len(chain) - 1
    BY <1>0
  <2> QED BY <1>3, <2>1, <2>2
<1>8. CacheOriginInv'
  BY <1>0, <1>1, <1>5 DEF CacheOriginInv
<1>9. ParentInv'
  <2>1. ASSUME NEW f \in Fetcher, NEW q \in Block, pc[f] \notin {"idle", "fetch"},
               IsParent(q, job[f].block)
        PROVE  Known(q)' \/ Unlinked(job[f])
    <3>1. Known(q) \/ Unlinked(job[f])
      BY <1>0, <2>1 DEF ParentInv
    <3>2. job[f].block \in Block /\ Height[job[f].block] = job[f].index
      BY <1>0, <2>1, PendingAbove
    <3>3. job[f].index # nextIndex
      BY <1>0, <1>1, <2>1 DEF SInv, DistinctInv
    <3>4. Height[q] # Len(chain)
      BY <1>0, <1>2, <2>1, <3>2, <3>3, ParentBelow DEF IsParent
    <3> QED BY <1>6, <3>1, <3>4
  <2>2. ASSUME NEW s \in results \ {r}, NEW q \in Block, s.block \in Block, IsParent(q, s.block)
        PROVE  Known(q)'
    <3>1. Known(q)
      BY <1>0, <2>2 DEF ParentInv
    <3>2. Height[s.block] = s.index
      BY <1>0, <2>2, PendingAbove
    <3>3. s.index # nextIndex
      BY <1>0, <1>1, <2>2 DEF SInv, DistinctInv
    <3>4. Height[q] # Len(chain)
      BY <1>0, <1>2, <2>2, <3>2, <3>3, ParentBelow DEF IsParent
    <3> QED BY <1>6, <3>1, <3>4
  <2> QED BY <1>0, <1>1, <2>1, <2>2 DEF ParentInv, Unlinked
<1> QED BY <1>7, <1>8, <1>9

\* When the sequencer has no result at the next index and nobody fetches, no
\* block is pending: the lowest one would have its parent pending or be the next.
LEMMA NothingPending ==
    ASSUME BInv, Processing, ~HasNext, \A f \in Fetcher : pc[f] = "idle"
    PROVE  \A r \in results : r.block \notin Block
<1> DEFINE S == {r.index : r \in {s \in results : s.block \in Block}}
<1>0. SInv /\ TypeOK /\ IndexInv /\ HeightInv /\ ParentInv
  BY DEF BInv, SInv, IInv
<1>1. nextIndex = Len(chain) + 1 /\ Len(chain) \in Nat
  BY <1>0, HeadHeight
<1>2. SUFFICES ASSUME S # {} PROVE FALSE
  BY DEF S
<1>3. S \in SUBSET Nat
  BY <1>0 DEF TypeOK, Result
<1>4. PICK n \in S : \A m \in S : n <= m
  BY <1>2, <1>3, Least
<1>5. PICK r \in results : r.block \in Block /\ r.index = n
  BY <1>4
<1>6. Height[r.block] = n /\ n > Len(chain) /\ n # nextIndex
  BY <1>0, <1>5, PendingAbove DEF HasNext
<1>7. r.block # Genesis
  BY <1>1, <1>6, HeadersAssumption
<1>8. /\ Parent[r.block] \in Block /\ n = Height[Parent[r.block]] + 1
      /\ Height[Parent[r.block]] \in Nat
  BY <1>5, <1>6, <1>7, ParentBelow
<1>9. Known(Parent[r.block])
  BY <1>0, <1>5, <1>7, <1>8 DEF ParentInv, IsParent
<1>10. Height[Parent[r.block]] > Len(chain)
  BY <1>1, <1>6, <1>8
<1>11. ~InChain(Parent[r.block])
  BY <1>0, <1>1, <1>8, <1>10, ChainHeights
<1>12. PICK s \in results : s.block = Parent[r.block]
  BY <1>9, <1>11 DEF Known, Pending
<1>13. s.index = Height[Parent[r.block]] /\ s.index \in S
  BY <1>0, <1>8, <1>12, PendingAbove
<1> HIDE DEF S
<1> QED BY <1>4, <1>8, <1>13

\* Every step keeps origins and parents.
LEMMA BranchNext ==
    ASSUME LinkedBlocks, BInv, [Next]_vars PROVE BInv'
<1>0. SInv /\ TypeOK /\ OriginInv /\ CacheOriginInv /\ ParentInv
  BY DEF BInv, SInv, IInv
<1> SUFFICES OriginInv' /\ CacheOriginInv' /\ ParentInv'
  BY <1>0, StoredInductive DEF BInv
<1>1. ASSUME NEW f \in Fetcher, FetcherStep(f) PROVE OriginInv' /\ CacheOriginInv' /\ ParentInv'
  BY <1>1, BranchFetcherStep
<1>2. ASSUME StorageStep PROVE OriginInv' /\ CacheOriginInv' /\ ParentInv'
  BY <1>2, BranchAdd, BranchRemove DEF StorageStep
<1>3. ASSUME NEW f \in Fetcher, NEW i, Fetching(f, i), pc[f] = "idle",
             UNCHANGED <<chain, coinCache, results, syncerPc>>
      PROVE  OriginInv' /\ CacheOriginInv' /\ ParentInv'
  <2>1. pc \in [Fetcher -> PC] /\ job \in [Fetcher -> Job]
    BY <1>0 DEF TypeOK
  <2>2. pc'[f] = "fetch" /\ \A g \in Fetcher \ {f} : pc'[g] = pc[g] /\ job'[g] = job[g]
    BY <1>3, <2>1 DEF Fetching
  <2> QED BY <1>0, <1>3, <2>2, BranchFrame
<1>4. ASSUME FetchInReorg \/ \E w \in Worker : TakeIndex(w)
      PROVE  OriginInv' /\ CacheOriginInv' /\ ParentInv'
  BY <1>3, <1>4 DEF FetchInReorg, TakeIndex, Processing, Fetcher, storageVars, syncVars
<1>5. ASSUME StartRange PROVE OriginInv' /\ CacheOriginInv' /\ ParentInv'
  <2>1. /\ \A f \in Fetcher : pc[f] = "idle"
        /\ Processing /\ ~HasNext /\ results' = {}
        /\ UNCHANGED <<chain, coinCache, syncerPc, pc, job>>
    BY <1>5 DEF StartRange, Processing, Fetcher, storageVars
  <2>2. \A r \in results : r.block \notin Block
    BY <2>1, NothingPending
  <2> QED BY <1>0, <2>1, <2>2, BranchFrame
<1>6. ASSUME LeaveReorg \/ PollTip \/ NodeStep \/ UNCHANGED vars
      PROVE  OriginInv' /\ CacheOriginInv' /\ ParentInv'
  <2>1. UNCHANGED <<chain, coinCache, syncerPc, pc, job, results>>
    BY <1>6 DEF LeaveReorg, PollTip, NodeStep, vars, storageVars, syncVars
  <2> QED BY <1>0, <2>1, BranchFrame
<1>7. ASSUME CleanCache \/ AbortListeners PROVE OriginInv' /\ CacheOriginInv' /\ ParentInv'
  <2>1. UNCHANGED <<chain, pc, job, results>>
    BY <1>7 DEF CleanCache, AbortListeners, storageVars
  <2>2. OriginInv' /\ ParentInv'
    BY <1>0, <2>1 DEF OriginInv, ParentInv, Known, Pending, InChain, Unlinked
  <2>3. \A q \in Block : Pending(q) => Pending(q)'
    BY <2>1 DEF Pending
  <2>4. CASE CleanCache
    <3>1. coinCache' = coinCache \ Creates(HeadBlock)
      BY <2>4 DEF CleanCache, CacheWithout
    <3> QED BY <1>0, <2>2, <2>3, <3>1 DEF CacheOriginInv, OnlyIn
  <2>5. CASE AbortListeners
    <3>1. UNCHANGED coinCache /\ syncerPc = "abort"
      BY <2>5 DEF AbortListeners
    <3> QED BY <1>0, <2>2, <2>3, <3>1 DEF CacheOriginInv
  <2> QED BY <1>7, <2>4, <2>5
<1>8. ASSUME Restart PROVE OriginInv' /\ CacheOriginInv' /\ ParentInv'
  <2>1. /\ UNCHANGED chain /\ coinCache' = {} /\ results' = {}
        /\ \A f \in Fetcher : pc'[f] = "idle"
    BY <1>8 DEF Restart, storageVars
  <2> QED BY <1>0, <2>1 DEF OriginInv, CacheOriginInv, ParentInv
<1> QED
  BY <1>1, <1>2, <1>4, <1>5, <1>6, <1>7, <1>8 DEF Next, SyncerStep, StorageStep

-----------------------------------------------------------------------------
(* The cache of seen coins *)

\* What was there up to a block of the chain includes what the blocks before it
\* created.
MadeInv(made) ==
    \A n \in DOMAIN chain : \A m \in 1 .. n : Creates(chain[m]) \subseteq made[chain[n]]

\* Every step keeps what was there.
LEMMA MadeNext ==
    ASSUME NEW made, MakesEachOnce(made), SInv, MadeInv(made), [Next]_vars PROVE MadeInv(made)'
<1>0. /\ TypeOK /\ LinkInv /\ IndexInv /\ MadeInv(made)
      /\ chain \in Seq(Block) /\ Len(chain) \in Nat /\ DOMAIN chain = 1 .. Len(chain)
  BY DEF SInv, IInv, TypeOK
<1>1. ASSUME NEW r \in results, AddBlock(r) PROVE MadeInv(made)'
  <2>1. /\ r.block \in Block /\ chain' = Append(chain, r.block)
        /\ chain # << >> => r.block # Genesis /\ Parent[r.block] = HeadBlock
    BY <1>0, <1>1, AddStep
  <2>2. /\ DOMAIN chain' = 1 .. Len(chain) + 1
        /\ \A n \in 1 .. Len(chain) : chain'[n] = chain[n]
        /\ chain'[Len(chain) + 1] = r.block
    BY <1>0, <2>1
  <2>3. ASSUME NEW m \in 1 .. Len(chain) PROVE Creates(chain[m]) \subseteq made[r.block]
    <3>1. chain # << >> /\ HeadBlock = chain[Len(chain)] /\ Len(chain) \in DOMAIN chain
      BY <1>0, <2>3, HeadIsBlock
    <3>2. Creates(chain[m]) \subseteq made[HeadBlock]
      BY <1>0, <2>3, <3>1 DEF MadeInv
    <3>3. made[HeadBlock] \subseteq made[r.block]
      BY <2>1, <3>1 DEF MakesEachOnce, MadeBefore
    <3> QED BY <3>2, <3>3
  <2>4. Creates(r.block) \subseteq made[r.block]
    BY <2>1 DEF MakesEachOnce
  <2>5. ASSUME NEW n \in 1 .. Len(chain) + 1, NEW m \in 1 .. n
        PROVE  Creates(chain'[m]) \subseteq made[chain'[n]]
    <3>1. CASE n \in 1 .. Len(chain)
      <4>1. m \in 1 .. Len(chain)
        BY <1>0, <3>1
      <4> QED BY <1>0, <2>2, <3>1, <4>1 DEF MadeInv
    <3>2. CASE n = Len(chain) + 1
      <4>1. m \in 1 .. Len(chain) \/ m = Len(chain) + 1
        BY <1>0, <3>2
      <4> QED BY <2>2, <2>3, <2>4, <3>2, <4>1
    <3> QED BY <1>0, <3>1, <3>2
  <2> QED BY <2>2, <2>5 DEF MadeInv
<1>2. ASSUME NEW r \in results, BlockRemoved(r) PROVE MadeInv(made)'
  <2>1. chain' = SubSeq(chain, 1, Len(chain) - 1) /\ Len(chain) > 1
    BY <1>0, <1>2, RemoveStep
  <2>2. DOMAIN chain' = 1 .. Len(chain) - 1 /\ \A n \in 1 .. Len(chain) - 1 : chain'[n] = chain[n]
    BY <1>0, <2>1
  <2>3. ASSUME NEW n \in 1 .. Len(chain) - 1, NEW m \in 1 .. n
        PROVE  n \in 1 .. Len(chain) /\ m \in 1 .. Len(chain) - 1
    BY <1>0
  <2> QED BY <1>0, <2>2, <2>3 DEF MadeInv
<1>3. ASSUME UNCHANGED chain PROVE MadeInv(made)'
  BY <1>0, <1>3 DEF MadeInv
<1> QED
  BY Zenon, <1>1, <1>2, <1>3
     DEF Next, FetcherStep, FetchBlock, CheckHeaderMatch, FindCoins, Snapshot, LookUpCache,
         RegisterListener, StopListening, WaitDone, SeeCoins, CountSeen, StoreSeen,
         WakeListeners, TakeIndex, SyncerStep, StartRange, FetchInReorg, LeaveReorg,
         CleanCache, AbortListeners, PollTip, NodeStep, Restart, vars, storageVars

\* A block above the chain whose parent is known descends from the head: the
\* lowest pending one that did not would have its parent pending or in the chain.
LEMMA Descends ==
    ASSUME NEW made, MakesEachOnce(made), BInv, chain # << >>,
           NEW b \in Block, b # Genesis, Height[b] > Len(chain), Known(Parent[b])
    PROVE  made[HeadBlock] \subseteq made[Parent[b]]
<1> DEFINE Astray(q) == /\ q # Genesis /\ Known(Parent[q]) /\ Height[q] > Len(chain)
                        /\ ~(made[HeadBlock] \subseteq made[Parent[q]])
           S == {Height[q] : q \in {p \in Block : Astray(p)}}
<1>0. SInv /\ ParentInv /\ Len(chain) \in Nat
  BY ChainHeights DEF BInv
<1>1. SUFFICES ASSUME S # {} PROVE FALSE
  BY DEF S
<1>2. S \in SUBSET Nat
  BY HeadersAssumption
<1>3. PICK n \in S : \A m \in S : n <= m
  BY <1>1, <1>2, Least
<1>4. PICK q \in Block : Astray(q) /\ Height[q] = n
  BY <1>3
<1>5. /\ Parent[q] \in Block /\ Height[Parent[q]] \in Nat /\ n = Height[Parent[q]] + 1
  BY <1>4, ParentBelow
<1>6. CASE InChain(Parent[q])
  <2>1. Parent[q] = HeadBlock
    BY <1>0, <1>4, <1>5, <1>6, ChainHeights
  <2> QED BY <1>4, <2>1
<1>7. CASE Pending(Parent[q])
  <2> DEFINE p == Parent[q]
  <2>1. Height[p] > Len(chain)
    BY <1>0, <1>5, <1>7, PendingAbove
  <2>2. p # Genesis
    <3>1. Len(chain) # 0
      BY <1>0, ChainHeights
    <3> QED BY <1>0, <2>1, <3>1, HeadersAssumption
  <2>3. Parent[p] \in Block
    BY <1>5, <2>2, ParentBelow
  <2>4. Known(Parent[p])
    <3>1. CASE \E r \in results : r.block = p
      BY <1>0, <1>5, <2>2, <2>3, <3>1 DEF ParentInv, IsParent
    <3>2. ASSUME NEW f \in Fetcher, pc[f] \in {"count", "store", "wake"}, job[f].block = p
          PROVE  Known(Parent[p])
      <4>1. job[f].todo = {} /\ job[f].remaining = {}
        BY <1>0, <3>2 DEF ParentInv, SInv, IInv, JobShape, Shape
      <4> QED BY <1>0, <2>2, <2>3, <3>2, <4>1 DEF ParentInv, IsParent, Unlinked
    <3> QED BY <1>7, <3>1, <3>2 DEF Pending
  <2>5. made[Parent[p]] \subseteq made[p]
    BY <1>5, <2>2 DEF MakesEachOnce, MadeBefore
  <2>6. Astray(p)
    BY <1>4, <2>1, <2>2, <2>4, <2>5
  <2>7. Height[p] \in S
    BY <1>5, <2>6
  <2> HIDE DEF S, p
  <2>8. n <= Height[p]
    BY <1>3, <2>7
  <2> QED BY <1>5, <2>8 DEF p
<1> QED BY <1>4, <1>6, <1>7 DEF Known

\* A block that was seen shares no box with a block of the chain.
LEMMA ApartFromChain ==
    ASSUME NEW made, MakesEachOnce(made), BInv, MadeInv(made), NEW n \in DOMAIN chain
    PROVE  /\ \A f \in Fetcher : pc[f] \in {"see", "count", "store", "wake"} =>
                  Creates(job[f].block) \cap Creates(chain[n]) = {}
           /\ \A r \in results : r.block \in Block =>
                  Creates(r.block) \cap Creates(chain[n]) = {}
<1>0. SInv /\ ParentInv /\ chain \in Seq(Block) /\ Len(chain) \in Nat
  BY DEF BInv, SInv, IInv, TypeOK
<1>1. /\ chain # << >> /\ Len(chain) # 0 /\ HeadBlock = chain[Len(chain)]
      /\ Len(chain) \in DOMAIN chain /\ n \in 1 .. Len(chain)
  BY <1>0, HeadIsBlock
<1>2. Creates(chain[n]) \subseteq made[HeadBlock]
  BY <1>1 DEF MadeInv
<1>3. ASSUME NEW b \in Block, Height[b] > Len(chain), b # Genesis => Known(Parent[b])
      PROVE  Creates(b) \cap Creates(chain[n]) = {}
  <2>1. b # Genesis
    BY <1>0, <1>1, <1>3, HeadersAssumption
  <2>2. made[HeadBlock] \subseteq made[Parent[b]]
    BY <1>1, <1>3, <2>1, Descends
  <2>3. Creates(b) \cap made[Parent[b]] = {}
    BY <2>1 DEF MakesEachOnce, MadeBefore
  <2> QED BY <1>2, <2>2, <2>3
<1>4. ASSUME NEW f \in Fetcher, pc[f] \in {"see", "count", "store", "wake"}
      PROVE  Creates(job[f].block) \cap Creates(chain[n]) = {}
  <2>1. job[f].block \in Block /\ Height[job[f].block] > Len(chain)
    BY <1>0, <1>4, PendingAbove
  <2>2. job[f].todo = {} /\ job[f].remaining = {}
    BY <1>0, <1>4 DEF ParentInv, SInv, IInv, JobShape, Shape
  <2>3. job[f].block # Genesis => Known(Parent[job[f].block])
    BY <1>0, <1>4, <2>1, <2>2, ParentBelow DEF ParentInv, IsParent, Unlinked
  <2> QED BY <1>3, <2>1, <2>3
<1>5. ASSUME NEW r \in results, r.block \in Block
      PROVE  Creates(r.block) \cap Creates(chain[n]) = {}
  <2>1. Height[r.block] > Len(chain)
    BY <1>0, <1>5, PendingAbove
  <2>2. r.block # Genesis => Known(Parent[r.block])
    BY <1>0, <1>5, ParentBelow DEF ParentInv, IsParent
  <2> QED BY <1>3, <1>5, <2>1, <2>2
<1> QED BY <1>4, <1>5

\* Coins are in the cache from the moment BlockSeen puts them there until
\* BlockAdded takes them out, and not after that.
CacheInv ==
    /\ \A f \in Fetcher : pc[f] \in {"count", "store", "wake"} =>
           Creates(job[f].block) \subseteq coinCache
    /\ \A r \in results : r.block \in Block => Creates(r.block) \subseteq coinCache
    /\ CacheHoldsOnlyUnadded

\* A step of a fetch keeps the cache right: it adds coins of a block that is
\* not in the chain, and hands over a block whose coins it added.
LEMMA CacheFetcherStep ==
    ASSUME NEW made, MakesEachOnce(made), BInv, MadeInv(made), CacheInv,
           NEW f \in Fetcher, FetcherStep(f)
    PROVE  CacheInv'
<1>0. /\ TypeOK /\ pc[f] # "idle"
      /\ \A g \in Fetcher \ {f} : pc'[g] = pc[g] /\ job'[g] = job[g]
      /\ UNCHANGED <<chain, coins, syncVars>>
      /\ \/ Keeps(f)
         \/ Deliver(f, OrphanHead)
         \/ pc[f] = "wake" /\ Deliver(f, job[f].block)
  BY FetcherEffect DEF BInv, SInv, IInv
<1>1. coinCache \subseteq coinCache'
  BY OnlySeeCoinsCaches DEF SeeCoins
<1>2. ASSUME NEW r \in results', r.block \in Block PROVE Creates(r.block) \subseteq coinCache'
  <2>1. \/ r \in results \/ r.block = OrphanHead
        \/ pc[f] = "wake" /\ r.block = job[f].block
    BY <1>0 DEF Keeps, Deliver
  <2> QED BY <1>1, <1>2, <2>1, FetchersAssumption DEF CacheInv
<1>3. pc'[f] \in {"count", "store", "wake"} => Creates(job'[f].block) \subseteq coinCache'
  <2>1. CASE SeeCoins(f)
    BY <2>1 DEF SeeCoins
  <2>2. CASE CountSeen(f)
    BY <2>2 DEF CountSeen, CacheInv
  <2>3. CASE StoreSeen(f)
    BY <2>3 DEF StoreSeen, CacheInv
  <2>4. CASE ~(SeeCoins(f) \/ CountSeen(f) \/ StoreSeen(f))
    <3>1. \/ \E p \in PC \ {"count", "store", "wake"} : Goto(f, p)
          \/ pc[f] = "wait" /\ UNCHANGED pc
      BY <2>4 DEF FetcherStep, FetchBlock, CheckHeaderMatch, FindCoins, Snapshot, LookUpCache,
         RegisterListener, StopListening, WaitDone, WakeListeners, Deliver, Found, Retry, PC
    <3>2. pc \in [Fetcher -> PC]
      BY <1>0 DEF TypeOK
    <3>3. pc'[f] \notin {"count", "store", "wake"}
      BY <3>1, <3>2
    <3> QED BY Zenon, <3>3
  <2> QED BY <2>1, <2>2, <2>3, <2>4
<1>4. CacheHoldsOnlyUnadded'
  <2> SUFFICES ASSUME NEW n \in DOMAIN chain, ~(syncerPc = "clean" /\ n = Len(chain))
               PROVE  Creates(chain[n]) \cap coinCache' = {}
    BY <1>0 DEF CacheHoldsOnlyUnadded, syncVars
  <2>1. Creates(chain[n]) \cap coinCache = {}
    BY DEF CacheInv, CacheHoldsOnlyUnadded
  <2>2. CASE SeeCoins(f)
    <3>1. Creates(job[f].block) \cap Creates(chain[n]) = {}
      BY <2>2, ApartFromChain DEF SeeCoins
    <3> QED BY <2>1, <2>2, <3>1 DEF SeeCoins
  <2>3. CASE ~SeeCoins(f)
    <3>1. coinCache' = coinCache
      BY <2>3, OnlySeeCoinsCaches
    <3> QED BY <2>1, <3>1
  <2> QED BY <2>2, <2>3
<1> QED BY <1>0, <1>1, <1>2, <1>3, <1>4 DEF CacheInv

\* Processing a result keeps the cache right: a block that was added is the one
\* whose coins the next step takes out.
LEMMA CacheStorageStep ==
    ASSUME SInv, CacheInv, StorageStep PROVE CacheInv'
<1>1. PICK r \in results : BlockRemoved(r) \/ AddBlock(r)
  BY DEF StorageStep
<1>2. /\ UNCHANGED <<pc, job, coinCache>> /\ results' \subseteq results
      /\ syncerPc = "process" /\ chain \in Seq(Block) /\ Len(chain) \in Nat
  BY <1>1 DEF BlockRemoved, AddBlock, Processing, SInv, IInv, TypeOK
<1>3. \A n \in DOMAIN chain : Creates(chain[n]) \cap coinCache = {}
  BY <1>2 DEF CacheInv, CacheHoldsOnlyUnadded
<1>4. CacheHoldsOnlyUnadded'
  <2>1. CASE AddBlock(r)
    <3>1. chain' = Append(chain, r.block) /\ syncerPc' = "clean" /\ r.block \in Block
      BY <2>1 DEF AddBlock
    <3>2. /\ Len(chain') = Len(chain) + 1 /\ DOMAIN chain' = 1 .. Len(chain) + 1
          /\ DOMAIN chain = 1 .. Len(chain)
          /\ \A n \in DOMAIN chain : chain'[n] = chain[n]
      BY <1>2, <3>1
    <3> QED BY <1>2, <1>3, <3>1, <3>2 DEF CacheHoldsOnlyUnadded
  <2>2. CASE BlockRemoved(r)
    <3>1. chain' = SubSeq(chain, 1, Len(chain) - 1) /\ Len(chain) > 1
      BY <2>2, RemoveStep DEF SInv, IInv
    <3>2. /\ DOMAIN chain' \subseteq DOMAIN chain
          /\ \A n \in DOMAIN chain' : chain'[n] = chain[n]
      BY <1>2, <3>1
    <3> QED BY <1>2, <1>3, <3>2 DEF CacheHoldsOnlyUnadded
  <2> QED BY <1>1, <2>1, <2>2
<1> QED BY <1>2, <1>4 DEF CacheInv

\* Taking the coins of the new head out of the cache leaves all others there.
LEMMA CacheCleaned ==
    ASSUME NEW made, MakesEachOnce(made), BInv, MadeInv(made), CacheInv, CleanCache
    PROVE  CacheInv'
<1>1. /\ coinCache' = coinCache \ Creates(HeadBlock) /\ syncerPc' = "abort"
      /\ UNCHANGED <<chain, results, pc, job>>
  BY DEF CleanCache, CacheWithout, storageVars
<1>2. /\ chain # << >> /\ Len(chain) \in DOMAIN chain
      /\ HeadBlock = chain[Len(chain)] /\ HeadBlock \in Block
  <2>1. chain # << >> /\ chain \in Seq(Block)
    BY DEF CleanCache, BInv, SInv, IInv, IndexInv, TypeOK
  <2> QED BY <2>1, HeadIsBlock
<1>3. ASSUME NEW f \in Fetcher, pc[f] \in {"count", "store", "wake"}
      PROVE  Creates(job[f].block) \subseteq coinCache'
  <2>1. Creates(job[f].block) \cap Creates(HeadBlock) = {}
    BY <1>2, <1>3, ApartFromChain
  <2> QED BY <1>1, <1>3, <2>1 DEF CacheInv
<1>4. ASSUME NEW r \in results, r.block \in Block PROVE Creates(r.block) \subseteq coinCache'
  <2>1. Creates(r.block) \cap Creates(HeadBlock) = {}
    BY <1>2, <1>4, ApartFromChain
  <2> QED BY <1>1, <1>4, <2>1 DEF CacheInv
<1>5. ASSUME NEW n \in DOMAIN chain PROVE Creates(chain[n]) \cap coinCache' = {}
  <2>1. CASE n = Len(chain)
    BY <1>1, <1>2, <2>1
  <2>2. CASE n # Len(chain)
    BY <1>1, <2>2 DEF CacheInv, CacheHoldsOnlyUnadded
  <2> QED BY <2>1, <2>2
<1> QED BY <1>1, <1>3, <1>4, <1>5 DEF CacheInv, CacheHoldsOnlyUnadded

\* Every step keeps the cache right.
LEMMA CacheNext ==
    ASSUME NEW made, MakesEachOnce(made), BInv, MadeInv(made), CacheInv, [Next]_vars
    PROVE  CacheInv'
<1>1. ASSUME NEW f \in Fetcher, FetcherStep(f) PROVE CacheInv'
  BY <1>1, CacheFetcherStep
<1>2. CASE StorageStep
  BY <1>2, CacheStorageStep DEF BInv
<1>3. CASE CleanCache
  BY <1>3, CacheCleaned
<1>4. CASE AbortListeners
  <2>1. UNCHANGED <<chain, coinCache, results, pc, job>> /\ syncerPc = "abort"
    BY <1>4 DEF AbortListeners, storageVars
  <2> QED BY <2>1 DEF CacheInv, CacheHoldsOnlyUnadded
<1>5. ASSUME NEW f \in Fetcher, NEW i, Fetching(f, i),
             UNCHANGED <<chain, coinCache, results, syncerPc>>
      PROVE  CacheInv'
  <2>1. pc \in [Fetcher -> PC] /\ job \in [Fetcher -> Job]
    BY DEF BInv, SInv, IInv, TypeOK
  <2>2. pc'[f] = "fetch" /\ \A g \in Fetcher \ {f} : pc'[g] = pc[g] /\ job'[g] = job[g]
    BY <1>5, <2>1 DEF Fetching
  <2> QED BY <1>5, <2>2 DEF CacheInv, CacheHoldsOnlyUnadded
<1>6. CASE FetchInReorg \/ \E w \in Worker : TakeIndex(w)
  BY <1>5, <1>6 DEF FetchInReorg, TakeIndex, Fetcher, storageVars, syncVars
<1>7. CASE StartRange \/ LeaveReorg \/ PollTip \/ NodeStep \/ UNCHANGED vars
  <2>1. UNCHANGED <<chain, coinCache, pc, job, syncerPc>> /\ results' \subseteq results
    BY <1>7 DEF StartRange, LeaveReorg, PollTip, NodeStep, vars, storageVars, syncVars
  <2> QED BY <2>1 DEF CacheInv, CacheHoldsOnlyUnadded
<1>8. CASE Restart
  <2>1. coinCache' = {} /\ results' = {} /\ \A f \in Fetcher : pc'[f] = "idle"
    BY <1>8 DEF Restart
  <2> QED BY <2>1 DEF CacheInv, CacheHoldsOnlyUnadded
<1> QED
  BY <1>1, <1>2, <1>3, <1>4, <1>6, <1>7, <1>8 DEF Next, SyncerStep, StorageStep

\* Origins, parents and the cache are right in every reachable state.
LEMMA CacheAlways ==
    ASSUME LinkedBlocks, NEW made, MakesEachOnce(made) PROVE Spec => [](BInv /\ CacheInv)
<1>1. Init => BInv /\ MadeInv(made) /\ CacheInv
  BY StoredInit DEF Init, BInv, OriginInv, CacheOriginInv, ParentInv, MadeInv, CacheInv,
     CacheHoldsOnlyUnadded, Fetcher
<1>2. BInv /\ MadeInv(made) /\ CacheInv /\ [Next]_vars => (BInv /\ MadeInv(made) /\ CacheInv)'
  <2>1. BInv /\ [Next]_vars => BInv'
    BY BranchNext
  <2>2. BInv /\ MadeInv(made) /\ [Next]_vars => MadeInv(made)'
    BY MadeNext DEF BInv
  <2>3. BInv /\ MadeInv(made) /\ CacheInv /\ [Next]_vars => CacheInv'
    BY CacheNext
  <2> QED BY <2>1, <2>2, <2>3
<1> QED BY <1>1, <1>2, PTL DEF Spec

\* Where every block spends a box that only its parent creates, and no branch
\* creates a box twice, the coins of every block that was seen and waits to be
\* added are in the cache: through forks whose branches confirm the same
\* transactions, reorgs, crashes, and any order of BlockSeen and BlockAdded
\* (indexer.go:67-70, 265-281).
THEOREM SeenCoinsAlwaysFindable ==
    ASSUME LinkedBlocks, MadeOnce PROVE Spec => []SeenCoinsFindable
<1>1. PICK made \in [Block -> SUBSET Coin] : MakesEachOnce(made)
  BY DEF MadeOnce
<1>2. Spec => [](BInv /\ CacheInv)
  BY <1>1, CacheAlways
<1>3. CacheInv => SeenCoinsFindable
  BY DEF CacheInv, SeenCoinsFindable
<1> QED BY <1>2, <1>3, PTL

\* Under the same conditions BlockAdded leaves no coin of its block in the cache,
\* and no BlockSeen brings one back (indexer.go:67-70, 349-372).
THEOREM CacheNeverHoldsAdded ==
    ASSUME LinkedBlocks, MadeOnce PROVE Spec => []CacheHoldsOnlyUnadded
<1>1. PICK made \in [Block -> SUBSET Coin] : MakesEachOnce(made)
  BY DEF MadeOnce
<1>2. Spec => [](BInv /\ CacheInv)
  BY <1>1, CacheAlways
<1>3. CacheInv => CacheHoldsOnlyUnadded
  BY DEF CacheInv
<1> QED BY <1>2, <1>3, PTL

-----------------------------------------------------------------------------
(* Waits on a single branch *)

\* A fetcher past its snapshot looked for a coin that is spent, or not yet
\* created, under the head it saw; and an open entry is still to be aborted.
WaitInv ==
    /\ \A f \in Fetcher : pc[f] \in {"cache", "lock"} /\ job[f].head \in Block =>
           job[f].input.coin \notin Unspent[job[f].head]
    /\ NoStrandedWait

\* An entry somebody else joins stays closed if it was, and is wanted no later
\* than by either.
LEMMA ListenEntry ==
    ASSUME WaiterType, NEW k \in Tx, NEW h \in Index, NEW x \in DOMAIN Listen(k, h),
           NEW n \in Nat, n < h, \A y \in DOMAIN waiter : ~waiter[y].closed => n < waiter[y].earliest,
           ~Listen(k, h)[x].closed
    PROVE  n < Listen(k, h)[x].earliest
<1>1. CASE x # k
  BY <1>1 DEF Listen
<1>2. CASE x = k /\ k \in DOMAIN waiter
  <2>1. /\ waiter[k] \in Entry
        /\ Listen(k, h)[k] = [waiter[k] EXCEPT !.listeners = @ + 1,
                                               !.earliest = IF @ > h THEN h ELSE @]
    BY <1>2 DEF Listen, WaiterType
  <2>2. /\ Listen(k, h)[k].closed = waiter[k].closed
        /\ Listen(k, h)[k].earliest = IF waiter[k].earliest > h THEN h ELSE waiter[k].earliest
    BY <2>1 DEF Entry
  <2> QED BY <1>2, <2>2
<1>3. CASE x = k /\ k \notin DOMAIN waiter
  <2> DEFINE new == [listeners |-> 0, closed |-> FALSE, aborted |-> FALSE, earliest |-> h]
  <2>1. new.earliest = h /\ h \in Nat /\ new \in Entry
    BY DEF Entry
  <2>2. Listen(k, h)[k] = [new EXCEPT !.listeners = @ + 1,
                                      !.earliest = IF @ > h THEN h ELSE @]
    BY <1>3 DEF Listen
  <2> HIDE DEF new
  <2>3. Listen(k, h)[k].earliest = h
    BY <2>1, <2>2 DEF Entry
  <2> QED BY <1>3, <2>3
<1> QED BY <1>1, <1>2, <1>3

\* Leaving an entry deletes it or changes only its count.
LEMMA LeaveEntry ==
    ASSUME WaiterType, NEW k \in DOMAIN waiter, NEW x \in DOMAIN Leave(k)
    PROVE  /\ x \in DOMAIN waiter
           /\ Leave(k)[x].closed = waiter[x].closed
           /\ Leave(k)[x].earliest = waiter[x].earliest
<1>1. waiter[k] \in Entry
  BY DEF WaiterType
<1>2. CASE waiter[k].listeners = 1
  BY <1>2 DEF Leave
<1>3. CASE waiter[k].listeners # 1
  <2>1. Leave(k) = [waiter EXCEPT ![k] = [waiter[k] EXCEPT !.listeners = @ - 1]]
    BY <1>3 DEF Leave
  <2>2. /\ [waiter[k] EXCEPT !.listeners = @ - 1].closed = waiter[k].closed
        /\ [waiter[k] EXCEPT !.listeners = @ - 1].earliest = waiter[k].earliest
    BY <1>1 DEF Entry
  <2> QED BY <2>1, <2>2
<1> QED BY <1>2, <1>3

\* A block whose coin is not unspent under the head is not the next one: the
\* head would be its parent.
LEMMA WaitsAhead ==
    ASSUME SingleBranch, IInv, HeightInv, NEW b \in Block, Height[b] > Len(chain),
           chain # << >>, NEW in \in GetInputsForTxs(b), in.coin \notin Unspent[HeadBlock]
    PROVE  nextIndex < Height[b]
<1>1. /\ Len(chain) \in Nat \ {0} /\ HeadBlock \in Block /\ Height[HeadBlock] = Len(chain)
      /\ nextIndex \in {Len(chain), Len(chain) + 1}
  BY HeadHeight DEF IInv, IndexInv
<1>2. b # Genesis
  BY <1>1, HeadersAssumption
<1>3. Parent[b] \in Block /\ Height[b] = Height[Parent[b]] + 1 /\ Height[Parent[b]] \in Nat
  BY <1>2, HeadersAssumption
<1>4. in.coin \in Unspent[Parent[b]]
  BY <1>2, InputUnspent DEF UnspentBefore
<1>5. Height[Parent[b]] # Height[HeadBlock]
  BY <1>1, <1>3, <1>4 DEF SingleBranch
<1> QED BY <1>1, <1>3, <1>5

\* A registration that is not made again is for a block further ahead.
LEMMA WaitRegister ==
    ASSUME SingleBranch, IInv, HeightInv, PlaceInv, WaitInv, NEW f \in Fetcher,
           RegisterListener(f)
    PROVE  NoStrandedWait'
<1>1. /\ TypeOK /\ pc[f] = "lock" /\ chain # << >> /\ HeadBlock \in Block /\ nextIndex \in Nat
      /\ UNCHANGED nextIndex
  BY HeadIsBlock DEF RegisterListener, IInv, TypeOK, LookInv, syncVars
<1>2. CASE UNCHANGED waiter
  BY <1>1, <1>2 DEF WaitInv, NoStrandedWait
<1>3. CASE ~UNCHANGED waiter
  <2> DEFINE in == job[f].input
             h == Height[job[f].block]
  <2>1. waiter' = Listen(in.tx, h) /\ job[f].head = HeadBlock
    BY <1>3 DEF RegisterListener, Moved
  <2>2. Shape("lock", job[f]) /\ job[f].index > Len(chain) /\ job[f] \in Job
    BY <1>1 DEF IInv, JobShape, PlaceInv, TypeOK
  <2>3. /\ job[f].block \in Block /\ h > Len(chain) /\ h \in Index
        /\ in \in GetInputsForTxs(job[f].block) /\ in.tx \in Tx
    BY <2>2, HeadersAssumption, BoxesAssumption DEF Shape, Job, GetInputsForTxs, TxCoin
  <2>4. in.coin \notin Unspent[HeadBlock]
    BY <1>1, <2>1 DEF WaitInv
  <2>5. nextIndex < h
    BY <1>1, <2>3, <2>4, WaitsAhead
  <2>6. WaiterType /\ \A y \in DOMAIN waiter : ~waiter[y].closed => nextIndex < waiter[y].earliest
    BY <1>1 DEF WaiterType, TypeOK, WaitInv, NoStrandedWait
  <2> HIDE DEF in, h
  <2>7. \A x \in DOMAIN Listen(in.tx, h) :
            ~Listen(in.tx, h)[x].closed => nextIndex < Listen(in.tx, h)[x].earliest
    BY <1>1, <2>3, <2>5, <2>6, ListenEntry
  <2> QED BY <1>1, <2>1, <2>7 DEF NoStrandedWait
<1> QED BY <1>2, <1>3

\* Every other step of a fetch only closes or deletes entries.
LEMMA WaitFetcherStep ==
    ASSUME SingleBranch, IInv, HeightInv, PlaceInv, WaitInv, NEW f \in Fetcher, FetcherStep(f)
    PROVE  WaitInv'
<1>0. /\ TypeOK /\ pc \in [Fetcher -> PC] /\ job \in [Fetcher -> Job]
      /\ \A g \in Fetcher \ {f} : pc'[g] = pc[g] /\ job'[g] = job[g]
      /\ UNCHANGED <<chain, coins, syncVars>>
  BY FetcherEffect DEF IInv, TypeOK
<1>1. ASSUME pc'[f] \in {"cache", "lock"}, job'[f].head \in Block
      PROVE  job'[f].input.coin \notin Unspent[job'[f].head]
  <2>1. CASE Snapshot(f)
    <3>1. /\ job[f].input.coin \notin coins /\ HeadBlock # None
          /\ SetJob(f, [job[f] EXCEPT !.head = HeadBlock])
      <4>1. pc'[f] # "find"
        BY <1>1
      <4>2. ~Goto(f, "find")
        BY <1>0, <4>1
      <4>3. /\ job[f].input.coin \notin coins /\ SetJob(f, [job[f] EXCEPT !.head = HeadBlock])
            /\ ~TooEarly(job[f].block)
        BY <2>1, <4>2 DEF Snapshot, Found, Retry
      <4>4. job'[f].head = HeadBlock
        BY <1>0, <4>3 DEF Job
      <4> QED BY <1>1, <4>3, <4>4, HeadersAssumption
    <3>2. job'[f].head = HeadBlock /\ job'[f].input = job[f].input
      BY <1>0, <3>1 DEF Job
    <3>3. coins = Unspent[HeadBlock]
      BY <3>1 DEF IInv, LinkInv, HeadBlock
    <3> QED BY <3>1, <3>2, <3>3
  <2>2. CASE LookUpCache(f)
    <3>1. UNCHANGED job /\ pc[f] = "cache"
      BY <1>0, <1>1, <2>2 DEF LookUpCache, Found
    <3> QED BY <1>1, <3>1 DEF WaitInv
  <2>3. CASE ~Snapshot(f) /\ ~LookUpCache(f)
    <3>1. \/ \E p \in PC \ {"cache", "lock"} : Goto(f, p)
          \/ pc[f] = "wait" /\ UNCHANGED pc
      <4>1. CASE FetchBlock(f) \/ CheckHeaderMatch(f) \/ FindCoins(f) \/ RegisterListener(f)
        BY <4>1 DEF FetchBlock, CheckHeaderMatch, FindCoins, RegisterListener, Deliver, Retry, PC
      <4>2. CASE StopListening(f) \/ WaitDone(f)
        BY <4>2 DEF StopListening, WaitDone, Deliver, Retry, PC
      <4>3. CASE SeeCoins(f) \/ CountSeen(f) \/ StoreSeen(f) \/ WakeListeners(f)
        BY <4>3 DEF SeeCoins, CountSeen, StoreSeen, WakeListeners, Deliver, PC
      <4> QED BY <2>3, <4>1, <4>2, <4>3 DEF FetcherStep
    <3> QED BY <1>0, <1>1, <3>1
  <2> QED BY <2>1, <2>2, <2>3
<1>2. NoStrandedWait'
  <2>1. UNCHANGED nextIndex
    BY <1>0 DEF syncVars
  <2>2. CASE RegisterListener(f)
    BY <2>2, WaitRegister
  <2>3. CASE StopListening(f)
    <3>1. PICK in \in job[f].listening :
            (in.tx \in DOMAIN waiter /\ waiter' = Leave(in.tx)) \/ UNCHANGED waiter
      BY <2>3 DEF StopListening
    <3>2. WaiterType
      BY <1>0 DEF TypeOK, WaiterType
    <3>3. CASE in.tx \in DOMAIN waiter /\ waiter' = Leave(in.tx)
      <4> DEFINE k == in.tx
      <4>1. k \in DOMAIN waiter /\ waiter' = Leave(k)
        BY <3>3
      <4> HIDE DEF k
      <4>2. \A x \in DOMAIN Leave(k) : /\ x \in DOMAIN waiter
                                       /\ Leave(k)[x].closed = waiter[x].closed
                                       /\ Leave(k)[x].earliest = waiter[x].earliest
        BY <3>2, <4>1, LeaveEntry
      <4> QED BY <2>1, <4>1, <4>2 DEF WaitInv, NoStrandedWait
    <3> QED BY <2>1, <3>1, <3>3 DEF WaitInv, NoStrandedWait
  <2>4. CASE WakeListeners(f)
    <3>1. ASSUME NEW k \in DOMAIN waiter', ~waiter'[k].closed
          PROVE  k \in DOMAIN waiter /\ waiter'[k] = waiter[k]
      <4>1. k \in DOMAIN waiter /\ waiter[k] \in Entry
        BY <1>0, <2>4, <3>1 DEF WakeListeners, TypeOK
      <4>2. [waiter[k] EXCEPT !.closed = TRUE].closed
        BY <4>1 DEF Entry
      <4> QED BY <2>4, <3>1, <4>1, <4>2 DEF WakeListeners
    <3> QED BY <2>1, <3>1 DEF WaitInv, NoStrandedWait
  <2>5. CASE ~(RegisterListener(f) \/ StopListening(f) \/ WakeListeners(f))
    <3>1. UNCHANGED waiter
      BY <2>5 DEF FetcherStep, FetchBlock, CheckHeaderMatch, FindCoins, Snapshot, LookUpCache,
         WaitDone, SeeCoins, CountSeen, StoreSeen, waitVars
    <3> QED BY <2>1, <3>1 DEF WaitInv, NoStrandedWait
  <2> QED BY <2>2, <2>3, <2>4, <2>5
<1> QED BY <1>0, <1>1, <1>2 DEF WaitInv

\* BlockAdded closes what the next block waits for, and only then moves on.
LEMMA WaitAbort ==
    ASSUME IInv, WaitInv, AbortListeners PROVE WaitInv'
<1>0. syncerPc = "abort" /\ nextIndex' = nextIndex + 1 /\ UNCHANGED <<pc, job>>
  BY DEF AbortListeners
<1>1. chain # << >> /\ nextIndex = Height[HeadBlock] /\ nextIndex \in Nat
  <2>1. chain # << >> /\ nextIndex = Height[HeadBlock] + 0 /\ nextIndex \in Nat
    BY <1>0 DEF IInv, IndexInv, TypeOK
  <2>2. HeadBlock \in Block
    BY <2>1, HeadIsBlock DEF IInv, TypeOK
  <2> QED BY <2>1, <2>2, HeadersAssumption
<1>2. ASSUME NEW k \in DOMAIN waiter', ~waiter'[k].closed
      PROVE  nextIndex' < waiter'[k].earliest
  <2>1. k \in DOMAIN waiter /\ waiter[k] \in Entry
    BY <1>2 DEF AbortListeners, IInv, TypeOK
  <2>2. [waiter[k] EXCEPT !.closed = TRUE, !.aborted = TRUE].closed
    BY <2>1 DEF Entry
  <2>3. /\ waiter'[k] = waiter[k] /\ ~waiter[k].closed
        /\ waiter[k].earliest # Height[HeadBlock] + 1
    BY <1>2, <2>1, <2>2 DEF AbortListeners
  <2>4. nextIndex < waiter[k].earliest
    BY <2>1, <2>3 DEF WaitInv, NoStrandedWait
  <2>5. waiter[k].earliest \in Nat
    BY <2>1 DEF Entry
  <2> QED BY <1>0, <1>1, <2>3, <2>4, <2>5
<1> QED BY <1>0, <1>2 DEF WaitInv, NoStrandedWait

\* Every step keeps the open entries ahead of the sequencer.
LEMMA WaitNext ==
    ASSUME SingleBranch, IInv, HeightInv, PlaceInv, WaitInv, [Next]_vars PROVE WaitInv'
<1>0. TypeOK /\ IndexInv
  BY DEF IInv
<1>1. ASSUME NEW f \in Fetcher, FetcherStep(f) PROVE WaitInv'
  BY <1>1, WaitFetcherStep
<1>2. CASE AbortListeners
  BY <1>2, WaitAbort
<1>3. ASSUME NEW r \in results, BlockRemoved(r) PROVE WaitInv'
  <2>1. /\ UNCHANGED <<pc, job, waiter>> /\ nextIndex' = Height[HeadBlock]
        /\ Processing /\ HeadBlock \in Block /\ chain # << >>
    BY <1>0, <1>3, HeadIsBlock DEF BlockRemoved, Connects, waitVars, TypeOK
  <2>2. nextIndex = nextIndex' + 1 /\ nextIndex' \in Nat
    BY <1>0, <2>1, HeadersAssumption DEF IndexInv, Processing
  <2>3. ASSUME NEW k \in DOMAIN waiter, ~waiter[k].closed PROVE nextIndex' < waiter[k].earliest
    <3>1. nextIndex < waiter[k].earliest /\ waiter[k].earliest \in Nat
      BY <1>0, <2>3 DEF WaitInv, NoStrandedWait, TypeOK, Entry
    <3> QED BY <2>2, <3>1
  <2> QED BY <2>1, <2>3 DEF WaitInv, NoStrandedWait
<1>4. ASSUME NEW f \in Fetcher, NEW i, Fetching(f, i), UNCHANGED <<waiter, nextIndex>>
      PROVE  WaitInv'
  <2>1. pc \in [Fetcher -> PC] /\ job \in [Fetcher -> Job]
    BY <1>0 DEF TypeOK
  <2>2. pc'[f] = "fetch" /\ \A g \in Fetcher \ {f} : pc'[g] = pc[g] /\ job'[g] = job[g]
    BY <1>4, <2>1 DEF Fetching
  <2> QED BY <1>4, <2>2 DEF WaitInv, NoStrandedWait
<1>5. CASE FetchInReorg \/ \E w \in Worker : TakeIndex(w)
  BY <1>4, <1>5 DEF FetchInReorg, TakeIndex, Fetcher, syncVars, waitVars
<1>6. CASE \/ StartRange \/ LeaveReorg \/ CleanCache \/ PollTip \/ NodeStep \/ UNCHANGED vars
           \/ \E r \in results : AddBlock(r)
  <2>1. UNCHANGED <<waiter, nextIndex, pc, job>>
    BY <1>6 DEF StartRange, LeaveReorg, CleanCache, PollTip, NodeStep, AddBlock, vars,
       waitVars, syncVars
  <2> QED BY <2>1 DEF WaitInv, NoStrandedWait
<1>7. CASE Restart
  <2>1. waiter' = NoEntries /\ \A f \in Fetcher : pc'[f] = "idle"
    BY <1>7 DEF Restart
  <2> QED BY <2>1 DEF WaitInv, NoStrandedWait, NoEntries
<1> QED
  BY <1>1, <1>2, <1>3, <1>5, <1>6, <1>7 DEF Next, SyncerStep

\* When the node keeps to one branch no wait is stranded: whatever was added or
\* seen between a fetcher's look for a coin and its registration, the pass over
\* the wait table that ends the wait is still to come (indexer.go:283-295,
\* 597-637).
THEOREM NoWaitStranded == ASSUME SingleBranch PROVE Spec => []NoStrandedWait
<1>1. Init => WaitInv
  BY DEF Init, WaitInv, NoStrandedWait, NoEntries
<1>2. SingleBranch /\ SInv /\ WaitInv /\ [Next]_vars => WaitInv'
  BY WaitNext DEF SInv
<1>3. SingleBranch
  OBVIOUS
<1>4. SInv /\ WaitInv /\ [Next]_vars => WaitInv'
  BY <1>2, <1>3
<1>5. WaitInv => NoStrandedWait
  BY DEF WaitInv
<1> QED BY <1>1, <1>4, <1>5, StoredAlways, PTL DEF Spec
=============================================================================
