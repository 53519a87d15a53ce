---------------------------- MODULE WaitingProofs ----------------------------
(***************************************************************************)
(* The wait table of Indexer implements Waiting, for any block tree and    *)
(* any number of workers: what ListenersCounted says of the entries is     *)
(* enough for everybody who waits to be told, once and together.           *)
(***************************************************************************)
EXTENDS IndexerProofs

USE DEF Index, NotInReorg, Goto, SetJob, Fail

\* A registration is a fetcher and an input it listens for.
LEMMA RegisteredPairs ==
    ASSUME TypeOK
    PROVE  /\ Registered = {r \in Fetcher \X TxCoin : r[2] \in job[r[1]].listening}
           /\ Told = {r \in Registered : r[2].tx \in DOMAIN waiter /\ waiter[r[2].tx].closed}
<1>1. \A f \in Fetcher : job[f].listening \subseteq TxCoin
  BY DEF TypeOK, Job
<1> QED BY <1>1 DEF Registered, Told

\* While nobody comes or goes the registrations stay.
LEMMA RegisteredKept ==
    ASSUME TypeOK, TypeOK', \A f \in Fetcher : job'[f].listening = job[f].listening
    PROVE  Registered' = Registered
<1>1. Registered' = {r \in Fetcher \X TxCoin : r[2] \in job'[r[1]].listening}
  <2>1. \A f \in Fetcher : job'[f].listening \subseteq TxCoin
    BY DEF TypeOK, Job
  <2> QED BY <2>1 DEF Registered
<1> QED BY <1>1, RegisteredPairs

\* With the entries left alone as well, nothing shows.
LEMMA NothingShows ==
    ASSUME TypeOK, TypeOK', \A f \in Fetcher : job'[f].listening = job[f].listening,
           UNCHANGED waiter
    PROVE  UNCHANGED Waits!waits
<1>1. Registered' = Registered
  BY RegisteredKept
<1>2. Told' = Told
  BY <1>1 DEF Told
<1> QED BY <1>1, <1>2 DEF Waits!waits

\* Closing entries tells all who are registered under their keys.
LEMMA ClosingTells ==
    ASSUME TypeOK, TypeOK', \A f \in Fetcher : job'[f].listening = job[f].listening,
           DOMAIN waiter' = DOMAIN waiter,
           \A k \in DOMAIN waiter : waiter[k].closed => waiter'[k].closed
    PROVE  Waits!Tell
<1>1. Registered' = Registered
  BY RegisteredKept
<1>2. Told' = {r \in Registered : r[2].tx \in DOMAIN waiter /\ waiter'[r[2].tx].closed}
  BY <1>1 DEF Told
<1>3. Told \subseteq Told' /\ Told' \subseteq Registered
  BY <1>2 DEF Told
<1>4. ASSUME NEW r \in Registered, NEW s \in Registered, Waits!Alike(r, s)
      PROVE  r \in Told' <=> s \in Told'
  <2>1. r \in Fetcher \X TxCoin /\ s \in Fetcher \X TxCoin
    BY RegisteredPairs
  <2>2. r[2].tx = s[2].tx
    BY <1>4, <2>1 DEF Waits!Alike
  <2> QED BY <1>2, <2>2
<1> QED BY <1>1, <1>3, <1>4 DEF Waits!Tell

\* Whoever registers comes to an entry that others wait at, or to a new one.
LEMMA RegisteringJoins ==
    ASSUME TypeOK, TypeOK', CountInv, NEW f \in Fetcher, NEW in \in TxCoin, NEW h \in Index,
           in \notin job[f].listening,
           job'[f].listening = job[f].listening \cup {in},
           \A g \in Fetcher \ {f} : job'[g].listening = job[g].listening,
           waiter' = Listen(in.tx, h)
    PROVE  Waits!Next
<1> DEFINE r == <<f, in>>
           k == in.tx
<1>1. k \in Tx /\ r \in Fetcher \X TxCoin /\ r \notin Registered /\ r[2].tx = k
  BY RegisteredPairs DEF TxCoin
<1>2. Registered' = Registered \cup {r}
  <2>1. Registered' = {x \in Fetcher \X TxCoin : x[2] \in job'[x[1]].listening}
    <3>1. \A g \in Fetcher : job'[g].listening \subseteq TxCoin
      BY DEF TypeOK, Job
    <3> QED BY <3>1 DEF Registered
  <2>2. ASSUME NEW g \in Fetcher, NEW i \in TxCoin
        PROVE  i \in job'[g].listening <=> i \in job[g].listening \/ (g = f /\ i = in)
    OBVIOUS
  <2>3. Registered = {x \in Fetcher \X TxCoin : x[2] \in job[x[1]].listening}
    BY RegisteredPairs
  <2> QED BY <1>1, <2>1, <2>2, <2>3
<1>3. /\ DOMAIN waiter' = DOMAIN waiter \cup {k}
      /\ \A x \in DOMAIN waiter \ {k} : waiter'[x] = waiter[x]
  <2>1. WaiterType
    BY DEF TypeOK, WaiterType
  <2>2. /\ DOMAIN Listen(k, h) = DOMAIN waiter \cup {k}
        /\ \A x \in DOMAIN waiter \ {k} : Listen(k, h)[x] = waiter[x]
    BY <1>1, <2>1, ListenType
  <2> QED BY <2>2
<1>4. waiter'[k].closed = (k \in DOMAIN waiter /\ waiter[k].closed)
  <2>1. CASE k \in DOMAIN waiter
    <3>1. waiter'[k] = [waiter[k] EXCEPT !.listeners = @ + 1,
                                         !.earliest = IF @ > h THEN h ELSE @]
      BY <2>1 DEF Listen
    <3>2. waiter[k] \in Entry
      BY <2>1 DEF TypeOK
    <3> QED BY <2>1, <3>1, <3>2 DEF Entry
  <2>2. CASE k \notin DOMAIN waiter
    BY <2>2 DEF Listen
  <2> QED BY <2>1, <2>2
<1>5. k \in DOMAIN waiter => \E t \in Registered : t[2].tx = k
  <2>1. SUFFICES ASSUME k \in DOMAIN waiter PROVE Registrations(k) # {}
    BY RegisteredPairs DEF Registrations
  <2>2. Cardinality(Registrations(k)) > 0
    BY <2>1 DEF CountInv, ListenersCounted
  <2> QED BY <2>2, FS_EmptySet
<1>6. Told' = {x \in Registered \cup {r} : x[2].tx \in DOMAIN waiter /\ waiter[x[2].tx].closed}
  <2>1. Told' = {x \in Registered \cup {r} : x[2].tx \in DOMAIN waiter' /\ waiter'[x[2].tx].closed}
    BY <1>2 DEF Told
  <2>2. ASSUME NEW x \in Registered \cup {r}
        PROVE  (x[2].tx \in DOMAIN waiter' /\ waiter'[x[2].tx].closed)
               <=> (x[2].tx \in DOMAIN waiter /\ waiter[x[2].tx].closed)
    BY <1>3, <1>4
  <2> QED BY <2>1, <2>2
<1>7. Told' = Told \cup {s \in {r} : \E t \in Told : Waits!Alike(s, t)}
  <2>1. ASSUME NEW t \in Told PROVE t \in Fetcher \X TxCoin
    BY <2>1, RegisteredPairs
  <2>2. ASSUME NEW t \in Told PROVE Waits!Alike(r, t) <=> t[2].tx = k
    BY <1>1, <2>1, <2>2 DEF Waits!Alike
  <2>3. (\E t \in Told : Waits!Alike(r, t)) <=> (k \in DOMAIN waiter /\ waiter[k].closed)
    BY <1>5, <2>2 DEF Told
  <2> HIDE DEF r
  <2> QED BY <1>1, <1>6, <2>3 DEF Told
<1>8. Waits!Join(r)
  BY <1>1, <1>2, <1>7 DEF Waits!Join
<1> HIDE DEF r
<1> QED BY <1>1, <1>2, <1>8 DEF Waits!Next

\* Whoever leaves was told, and takes the entry along only if nobody else is
\* registered for it.
LEMMA StoppingLeaves ==
    ASSUME TypeOK, TypeOK', CountInv, CountInv', NEW f \in Fetcher, NEW in \in job[f].listening,
           waiter[in.tx].closed,
           job'[f].listening = job[f].listening \ {in},
           \A g \in Fetcher \ {f} : job'[g].listening = job[g].listening,
           waiter' = Leave(in.tx)
    PROVE  Waits!Next
<1> DEFINE r == <<f, in>>
           k == in.tx
<1>1. in \in TxCoin /\ k \in DOMAIN waiter /\ r \in Fetcher \X TxCoin /\ r[2].tx = k
  BY DEF TypeOK, Job, CountInv, ListenersCounted
<1>2. r \in Told
  BY <1>1, RegisteredPairs
<1>3. Registered' = Registered \ {r}
  <2>1. Registered' = {x \in Fetcher \X TxCoin : x[2] \in job'[x[1]].listening}
    <3>1. \A g \in Fetcher : job'[g].listening \subseteq TxCoin
      BY DEF TypeOK, Job
    <3> QED BY <3>1 DEF Registered
  <2>2. ASSUME NEW g \in Fetcher, NEW i \in TxCoin
        PROVE  i \in job'[g].listening <=> i \in job[g].listening /\ ~(g = f /\ i = in)
    OBVIOUS
  <2>3. Registered = {x \in Fetcher \X TxCoin : x[2] \in job[x[1]].listening}
    BY RegisteredPairs
  <2> QED BY <1>1, <2>1, <2>2, <2>3
<1>4. ASSUME NEW x \in Registered'
      PROVE  x[2].tx \in DOMAIN waiter' /\ x[2].tx \in DOMAIN waiter
  <2>1. x \in Registered /\ x \in Fetcher \X TxCoin
    BY <1>3, RegisteredPairs
  <2>2. x[2] \in job'[x[1]].listening /\ x[2] \in job[x[1]].listening /\ x[1] \in Fetcher
    BY <1>1, <1>3, <2>1, RegisteredPairs
  <2> QED BY <2>2 DEF CountInv, ListenersCounted
<1>5. ASSUME NEW x \in DOMAIN waiter' PROVE waiter'[x].closed = waiter[x].closed
  <2>1. CASE waiter[k].listeners = 1
    BY <2>1 DEF Leave
  <2>2. CASE waiter[k].listeners # 1
    BY <1>1, <2>2 DEF Leave, TypeOK, Entry
  <2> QED BY <2>1, <2>2
<1>6. Told' = Told \ {r}
  <2>1. Told' = {x \in Registered' : x[2].tx \in DOMAIN waiter' /\ waiter'[x[2].tx].closed}
    BY DEF Told
  <2>2. Told' = {x \in Registered' : x[2].tx \in DOMAIN waiter /\ waiter[x[2].tx].closed}
    BY <1>4, <1>5, <2>1
  <2> HIDE DEF r
  <2> QED BY <1>3, <2>2 DEF Told
<1> HIDE DEF r
<1> QED BY <1>2, <1>3, <1>6 DEF Waits!Leave, Waits!Next

\* A step of a fetcher joins, tells, leaves, or does not show.
LEMMA FetcherWaits ==
    ASSUME IInv, IInv', NEW f \in Fetcher, FetcherStep(f)
    PROVE  [Waits!Next]_(Waits!waits)
<1>0. TypeOK /\ TypeOK' /\ JobShape /\ CountInv /\ CountInv' /\ NoLockLeak /\ NoLockLeak'
  BY DEF IInv
<1>1. CASE RegisterListener(f)
  <2>0. Shape("lock", job[f]) /\ job[f] \in Job
    BY <1>0, <1>1 DEF JobShape, TypeOK, RegisterListener
  <2>1. PICK in \in TxCoin : in = job[f].input /\ in \notin job[f].listening
    BY <2>0 DEF Shape, Job
  <2>2. PICK h \in Index : h = Height[job[f].block]
    BY <2>0, HeadersAssumption DEF Shape
  <2> DEFINE j == [job[f] EXCEPT !.todo = @ \ {in}, !.remaining = @ \cup {in},
                                 !.listening = @ \cup {in}, !.input = None, !.head = None]
  <2>3. CASE UNCHANGED <<job, waiter>>
    BY <1>0, <2>3, NothingShows
  <2>4. CASE Retry(f) /\ UNCHANGED waiter
    <3>1. [job[f] EXCEPT !.input = None, !.head = None].listening = job[f].listening
      BY <2>0 DEF Job
    <3>2. \A g \in Fetcher : job'[g].listening = job[g].listening
      BY <1>0, <2>4, <3>1 DEF Retry, TypeOK
    <3> QED BY <1>0, <2>4, <3>2, NothingShows
  <2>5. CASE waiter' = Listen(in.tx, h) /\ SetJob(f, j)
    <3>1. j.listening = job[f].listening \cup {in}
      BY <2>0 DEF Job
    <3> HIDE DEF j
    <3>2. /\ job'[f].listening = job[f].listening \cup {in}
          /\ \A g \in Fetcher \ {f} : job'[g].listening = job[g].listening
      BY <1>0, <2>5, <3>1 DEF TypeOK
    <3> QED BY <1>0, <2>1, <2>2, <2>5, <3>2, RegisteringJoins
  <2> QED
    BY <1>1, <2>1, <2>2, <2>3, <2>4, <2>5 DEF RegisterListener
<1>2. CASE StopListening(f)
  <2>1. PICK in \in job[f].listening :
           IF in.tx \in DOMAIN waiter
           THEN /\ waiter[in.tx].closed
                /\ waiter' = Leave(in.tx)
                /\ SetJob(f, [job[f] EXCEPT !.listening = @ \ {in},
                                            !.abort = @ \/ waiter[in.tx].aborted])
                /\ UNCHANGED <<pc, waiterLocked>>
           ELSE Fail(f) /\ waiterLocked' = TRUE /\ UNCHANGED <<waiter, job>>
    BY <1>2 DEF StopListening
  <2>2. in.tx \in DOMAIN waiter /\ job[f] \in Job
    BY <1>0 DEF CountInv, ListenersCounted, TypeOK
  <2> DEFINE j == [job[f] EXCEPT !.listening = @ \ {in}, !.abort = @ \/ waiter[in.tx].aborted]
  <2>3. j.listening = job[f].listening \ {in}
    BY <2>2 DEF Job
  <2> HIDE DEF j
  <2>4. /\ job'[f].listening = job[f].listening \ {in}
        /\ \A g \in Fetcher \ {f} : job'[g].listening = job[g].listening
    BY <1>0, <2>1, <2>2, <2>3 DEF TypeOK, j
  <2> QED BY <1>0, <2>1, <2>2, <2>4, StoppingLeaves
<1>3. CASE ~RegisterListener(f) /\ ~StopListening(f)
  <2>1. \A g \in Fetcher : job'[g].listening = job[g].listening
    BY <1>0, <1>3, ListeningKept
  <2>2. CASE WakeListeners(f)
    <3>1. DOMAIN waiter' = DOMAIN waiter
      BY <2>2 DEF WakeListeners
    <3>2. \A k \in DOMAIN waiter : waiter[k].closed => waiter'[k].closed
      BY <1>0, <2>2 DEF WakeListeners, TypeOK, Entry
    <3> QED BY <1>0, <2>1, <3>1, <3>2, ClosingTells DEF Waits!Next
  <2>3. CASE ~WakeListeners(f)
    <3>1. UNCHANGED waiter
      BY <1>3, <2>3
         DEF FetcherStep, FetchBlock, CheckHeaderMatch, FindCoins, Snapshot, LookUpCache,
             WaitDone, SeeCoins, CountSeen, StoreSeen, waitVars
    <3> QED BY <1>0, <2>1, <3>1, NothingShows
  <2> QED BY <2>2, <2>3
<1> QED BY <1>1, <1>2, <1>3

\* Every step takes a step of Waiting, or does not show.
LEMMA WaitingStep ==
    ASSUME IInv, IInv', [Next]_vars
    PROVE  [Waits!Next]_(Waits!waits)
<1>0. TypeOK /\ TypeOK' /\ JobShape
  BY DEF IInv
<1>1. ASSUME NEW f \in Fetcher, FetcherStep(f) PROVE [Waits!Next]_(Waits!waits)
  BY <1>1, FetcherWaits
<1>2. ASSUME NEW f \in Fetcher, NEW i \in Nat, Fetching(f, i), pc[f] = "idle", UNCHANGED waiter
      PROVE  [Waits!Next]_(Waits!waits)
  <2>1. job[f].listening = {} /\ [NoJob EXCEPT !.index = i].listening = {}
    BY <1>0, <1>2 DEF JobShape, Shape, NoJob
  <2>2. \A g \in Fetcher : job'[g].listening = job[g].listening
    BY <1>0, <1>2, <2>1 DEF Fetching, TypeOK
  <2> QED BY <1>0, <1>2, <2>2, NothingShows
<1>3. ASSUME NEW w \in Worker, TakeIndex(w) PROVE [Waits!Next]_(Waits!waits)
  BY <1>0, <1>2, <1>3 DEF TakeIndex, Fetcher, TypeOK, waitVars
<1>4. CASE FetchInReorg
  BY <1>0, <1>2, <1>4 DEF FetchInReorg, Processing, Fetcher, TypeOK, waitVars
<1>5. CASE AbortListeners
  <2>1. DOMAIN waiter' = DOMAIN waiter /\ UNCHANGED job
    BY <1>5 DEF AbortListeners
  <2>2. \A k \in DOMAIN waiter : waiter[k].closed => waiter'[k].closed
    BY <1>0, <1>5 DEF AbortListeners, TypeOK, Entry
  <2> QED BY <1>0, <2>1, <2>2, ClosingTells DEF Waits!Next
<1>6. CASE Restart
  <2>1. \A f \in Fetcher : job'[f].listening = {}
    BY <1>6 DEF Restart, NoJob
  <2>2. Registered' = {} /\ Told' = {}
    BY <2>1 DEF Registered, Told
  <2> QED BY <2>2 DEF Waits!Forget, Waits!Next
<1>7. CASE UNCHANGED <<job, waiter>>
  BY <1>0, <1>7, NothingShows
<1> QED
  BY <1>1, <1>3, <1>4, <1>5, <1>6, <1>7
     DEF Next, SyncerStep, StartRange, LeaveReorg, BlockRemoved, AddBlock, CleanCache,
         PollTip, NodeStep, vars, waitVars

\* The wait table implements Waiting: counting listeners, sharing, closing and
\* deleting entries keep its promise to those who wait (wait_table.go,
\* indexer.go:488-524, 622-637).
THEOREM WaitTableImplementsWaiting == Spec => WaitsAreTold
<1>1. Init => Waits!Init
  BY DEF Init, NoJob, Registered, Told, Waits!Init
<1>2. IInv /\ IInv' /\ [Next]_vars => [Waits!Next]_(Waits!waits)
  BY WaitingStep
<1> QED BY <1>1, <1>2, Inductive, PTL DEF Spec, WaitsAreTold, Waits!Spec
=============================================================================
