--------------------------- MODULE LifecycleProofs ---------------------------
(***************************************************************************)
(* For any number of workers and any retry limit: the types of Lifecycle,  *)
(* that the database outlives the indexer, and that a process that waits   *)
(* for its goroutines leaves no node running that it launched.             *)
(***************************************************************************)
EXTENDS Lifecycle, TLAPS

\* The exits that come after g.Wait
AfterWait == {"closing", "ended", "close failed"}

\* No goroutine of the group is left when it has been waited for; before its
\* dependencies are started there is no indexer, and then it has the database open.
IndexerInv ==
    /\ main \in AfterWait => alive = {}
    /\ main \in {"config", "dependencies"} => "sync" \notin alive
    /\ "sync" \in alive => db = "open"

\* While a node's process runs, its launcher has not returned from cmd.Wait; a
\* fatal error or a panic ends the launcher all the same, and may leave the node.
NodeInv == node \in {"up", "interrupted"} => "node" \in alive

IInv == TypeOK /\ IndexerInv /\ NodeInv

\* The initial states are of the types, with the database closed and no node.
LEMMA InitIInv == Init => IInv
<1> SUFFICES ASSUME Init PROVE IInv
  OBVIOUS
<1>1. retries \in [Worker -> 0 .. RetryLimit]
  BY LifecycleAssumption DEF Init
<1>2. pc \in [Worker -> {"idle", "loop", "request", "sleep", "convert", "ended"}]
  BY DEF Init
<1>3. block \in [Worker -> BOOLEAN]
  BY DEF Init
<1>4. TypeOK
  BY <1>1, <1>2, <1>3 DEF Init, TypeOK, Goroutine
<1>5. QED
  BY <1>4 DEF Init, IInv, IndexerInv, AfterWait, NodeInv

\* The types in three parts: where the process and its goroutines are, the flags,
\* and the workers.
GroupType ==
    /\ mode \in Mode
    /\ main \in {"config", "dependencies", "asserter", "wait", "closing"} \cup Over
    /\ alive \subseteq Goroutine
    /\ db \in {"open", "closed"} /\ node \in {"none", "up", "interrupted", "down"}
    /\ stage \in {"node", "storage", "blocks"}
FlagType ==
    /\ cancelled \in BOOLEAN /\ signalled \in BOOLEAN /\ listening \in BOOLEAN
    /\ handling \in BOOLEAN /\ fetchError \in BOOLEAN
WorkerType ==
    /\ pc \in [Worker -> {"idle", "loop", "request", "sleep", "convert", "ended"}]
    /\ retries \in [Worker -> 0 .. RetryLimit] /\ block \in [Worker -> BOOLEAN]

\* They are what TypeOK says.
LEMMA TypeParts == TypeOK <=> GroupType /\ FlagType /\ WorkerType
BY Zenon DEF TypeOK, GroupType, FlagType, WorkerType

\* What a worker's step leaves alone.
LEMMA BlockStepFrame ==
    ASSUME NEW w \in Worker, BlockStep(w)
    PROVE  /\ UNCHANGED <<mode, alive, cancelled, signalled, db, node, listening,
                          handling, stage>>
           /\ main' \in {main, "crashed"}
<1>1. CASE CallBlock(w) BY <1>1 DEF CallBlock, InSync, groupVars, serverVars
<1>2. CASE Loop(w) BY <1>2 DEF Loop, InSync, groupVars, serverVars
<1>3. CASE Request(w) BY <1>3 DEF Request, InSync, groupVars, serverVars
<1>4. CASE Sleep(w) BY <1>4 DEF Sleep, InSync, groupVars, serverVars
<1>5. CASE Convert(w) BY <1>5 DEF Convert, groupVars, serverVars
<1>6. QED BY <1>1, <1>2, <1>3, <1>4, <1>5 DEF BlockStep

\* Every step keeps the process, its goroutines, database and node typed.
LEMMA NextGroupType == GroupType /\ [Next]_vars => GroupType'
<1> SUFFICES ASSUME GroupType, [Next]_vars PROVE GroupType'
  OBVIOUS
<1> USE DEF GroupType, Return, groupVars, Over
<1>1. CASE LoadConfiguration \/ StartOnlineDependencies \/ NewServer
  BY <1>1 DEF LoadConfiguration, StartOnlineDependencies, NewServer, Goroutine
<1>2. CASE Signal \/ Accept \/ Reply
  BY <1>2 DEF Signal, Accept, Reply
<1>3. CASE MonitorStops \/ ServerStops \/ ServerFails
  BY <1>3 DEF MonitorStops, ServerStops, ServerFails
<1>4. CASE ShutdownServer BY <1>4 DEF ShutdownServer
<1>5. CASE StartNode BY <1>5 DEF StartNode, Goroutine
<1>6. CASE NodeExits \/ NodeWaited BY <1>6 DEF NodeExits, NodeWaited
<1>7. CASE InterruptNode BY <1>7 DEF InterruptNode
<1>8. CASE \E p \in {"stdout", "stderr"} : LogPipe(p) BY <1>8 DEF LogPipe
<1>9. CASE WaitForNode \/ Bootstrap \/ SyncEnds BY <1>9 DEF WaitForNode, Bootstrap, SyncEnds
<1>10. CASE CloseDatabase \/ Exit BY <1>10 DEF CloseDatabase, Exit
<1>11. ASSUME NEW w \in Worker, BlockStep(w) PROVE GroupType' BY <1>11, BlockStepFrame
<1>12. CASE UNCHANGED vars BY <1>12 DEF vars
<1>13. QED
  BY <1>1, <1>2, <1>3, <1>4, <1>5, <1>6, <1>7, <1>8, <1>9, <1>10, <1>11, <1>12 DEF Next

\* The flags stay flags: a step leaves them alone, sets one, or adds an error.
LEMMA NextFlagType == FlagType /\ [Next]_vars => FlagType'
<1> SUFFICES ASSUME FlagType, [Next]_vars PROVE FlagType'
  OBVIOUS
<1>1. cancelled' \in BOOLEAN
  <2>1. ASSUME NEW g, NEW err \in BOOLEAN, Return(g, err) PROVE cancelled' \in BOOLEAN
    BY <2>1, Zenon DEF Return, FlagType
  <2>2. CASE \/ MonitorStops \/ ServerStops \/ ServerFails \/ ShutdownServer \/ InterruptNode
             \/ NodeWaited \/ SyncEnds \/ \E p \in {"stdout", "stderr"} : LogPipe(p)
    BY <2>1, <2>2, Zenon DEF MonitorStops, ServerStops, ServerFails, ShutdownServer,
       InterruptNode, NodeWaited, SyncEnds, LogPipe
  <2>3. CASE WaitForNode
    BY <2>1, <2>3, Zenon DEF WaitForNode, groupVars, FlagType
  <2>4. CASE StartNode \/ Signal
    BY <2>1, <2>4, Zenon DEF StartNode, Signal, FlagType
  <2>5. ASSUME NEW w \in Worker, BlockStep(w) PROVE cancelled' \in BOOLEAN
    BY <2>5, BlockStepFrame DEF FlagType
  <2>6. CASE UNCHANGED cancelled BY <2>6 DEF FlagType
  <2>7. QED
    BY <2>2, <2>3, <2>4, <2>5, <2>6 DEF Next, LoadConfiguration, StartOnlineDependencies,
       NewServer, Accept, Reply, NodeExits, Bootstrap, CloseDatabase, Exit, vars, groupVars
<1>2. signalled' \in BOOLEAN /\ handling' \in BOOLEAN
  <2>1. ASSUME NEW w \in Worker, BlockStep(w) PROVE UNCHANGED <<signalled, handling>>
    BY <2>1, BlockStepFrame
  <2>2. signalled' \in {signalled, TRUE} /\ handling' \in {handling, TRUE, FALSE}
    BY <2>1 DEF Next, LoadConfiguration, StartOnlineDependencies, NewServer, Signal,
       MonitorStops, Accept, Reply, ServerStops, ServerFails, ShutdownServer, StartNode,
       NodeExits, InterruptNode, NodeWaited, LogPipe, WaitForNode, Bootstrap, SyncEnds,
       CloseDatabase, Exit, vars, serverVars
  <2>3. QED BY <2>2 DEF FlagType
<1>3. listening' \in BOOLEAN
  <2>1. ASSUME NEW w \in Worker, BlockStep(w) PROVE UNCHANGED listening
    BY <2>1, BlockStepFrame
  <2>2. listening' \in {listening, FALSE}
    BY <2>1 DEF Next, LoadConfiguration, StartOnlineDependencies, NewServer, Signal,
       MonitorStops, Accept, Reply, ServerStops, ServerFails, ShutdownServer,
       ServerShutdown, StartNode, NodeExits, InterruptNode, NodeWaited, LogPipe,
       WaitForNode, Bootstrap, SyncEnds, CloseDatabase, Exit, vars, serverVars
  <2>3. QED BY <2>2 DEF FlagType
<1>4. fetchError' \in BOOLEAN
  <2>1. fetchError' \in {fetchError, TRUE}
    BY DEF Next, LoadConfiguration, StartOnlineDependencies, NewServer, Signal,
       MonitorStops, Accept, Reply, ServerStops, ServerFails, ShutdownServer, StartNode,
       NodeExits, InterruptNode, NodeWaited, LogPipe, WaitForNode, Bootstrap, SyncEnds,
       CloseDatabase, Exit, BlockStep, CallBlock, Loop, Request, Sleep, Convert, FetchFails,
       vars, workerVars
  <2>2. QED BY <2>1 DEF FlagType
<1>5. QED BY <1>1, <1>2, <1>3, <1>4, Zenon DEF FlagType

\* The workers stay typed; the counter of retries stops at the limit.
LEMMA NextWorkerType == WorkerType /\ [Next]_vars => WorkerType'
<1> SUFFICES ASSUME WorkerType, [Next]_vars PROVE WorkerType'
  OBVIOUS
<1>1. ASSUME UNCHANGED <<pc, retries, block>> PROVE WorkerType'
  BY <1>1 DEF WorkerType
<1>2. ASSUME NEW w \in Worker, BlockStep(w) PROVE WorkerType'
  <2>1. pc' \in [Worker -> {"idle", "loop", "request", "sleep", "convert", "ended"}]
    <3>1. \/ pc' = pc
          \/ \E p \in {"idle", "loop", "request", "sleep", "convert", "ended"} : Goto(w, p)
      BY <1>2 DEF BlockStep, CallBlock, Loop, Request, Sleep, Convert, FetchFails, workerVars
    <3>2. QED BY <3>1 DEF WorkerType, Goto
  <2>2. retries' \in [Worker -> 0 .. RetryLimit]
    <3>1. \/ UNCHANGED retries
          \/ retries' = [retries EXCEPT ![w] = 0]
          \/ RetriesLeft(w) /\ retries' = [retries EXCEPT ![w] = @ + 1]
      BY <1>2 DEF BlockStep, CallBlock, Loop, Request, Sleep, Convert, FetchFails, workerVars
    <3>2. QED BY <3>1, LifecycleAssumption DEF WorkerType, RetriesLeft
  <2>3. block' \in [Worker -> BOOLEAN]
    <3>1. UNCHANGED block \/ \E v \in BOOLEAN : block' = [block EXCEPT ![w] = v]
      BY <1>2 DEF BlockStep, CallBlock, Loop, Request, Sleep, Convert, FetchFails, workerVars
    <3>2. QED BY <3>1 DEF WorkerType
  <2>4. QED BY <2>1, <2>2, <2>3 DEF WorkerType
<1>3. QED
  BY <1>1, <1>2 DEF Next, LoadConfiguration, StartOnlineDependencies, NewServer, Signal,
     MonitorStops, Accept, Reply, ServerStops, ServerFails, ShutdownServer, StartNode,
     NodeExits, InterruptNode, NodeWaited, LogPipe, WaitForNode, Bootstrap, SyncEnds,
     CloseDatabase, Exit, vars, workerVars

\* Every step keeps the types.
LEMMA NextTypeOK == TypeOK /\ [Next]_vars => TypeOK'
<1>1. TypeOK' <=> GroupType' /\ FlagType' /\ WorkerType'
  BY Zenon DEF TypeOK, GroupType, FlagType, WorkerType
<1>2. QED BY <1>1, TypeParts, NextGroupType, NextFlagType, NextWorkerType

\* The indexer starts when its database is open, and the database is closed when
\* no goroutine is left.
LEMMA NextIndexerInv == IndexerInv /\ [Next]_vars => IndexerInv'
<1> SUFFICES ASSUME IndexerInv, [Next]_vars PROVE IndexerInv'
  OBVIOUS
<1> USE DEF IndexerInv, AfterWait, Return, Running, Up, workerVars, groupVars, serverVars
<1>1. CASE LoadConfiguration \/ StartOnlineDependencies \/ NewServer
  BY <1>1 DEF LoadConfiguration, StartOnlineDependencies, NewServer
<1>2. CASE Signal BY <1>2 DEF Signal
<1>3. CASE MonitorStops \/ Accept \/ Reply \/ ServerStops \/ ServerFails \/ ShutdownServer
  BY <1>3 DEF MonitorStops, Accept, Reply, ServerStops, ServerFails, ShutdownServer
<1>4. CASE StartNode BY <1>4 DEF StartNode
<1>5. CASE NodeExits \/ InterruptNode \/ NodeWaited
  BY <1>5 DEF NodeExits, InterruptNode, NodeWaited
<1>6. CASE \E p \in {"stdout", "stderr"} : LogPipe(p) BY <1>6 DEF LogPipe
<1>7. CASE WaitForNode \/ Bootstrap \/ SyncEnds BY <1>7 DEF WaitForNode, Bootstrap, SyncEnds
<1>8. CASE CloseDatabase \/ Exit BY <1>8 DEF CloseDatabase, Exit, GroupDone
<1>9. ASSUME NEW w \in Worker, BlockStep(w) PROVE IndexerInv'
  <2>1. UNCHANGED <<alive, db>> /\ main' \in {main, "crashed"}
    BY <1>9, BlockStepFrame
  <2>2. QED BY <2>1
<1>10. CASE UNCHANGED vars BY <1>10 DEF vars
<1>11. QED
  BY <1>1, <1>2, <1>3, <1>4, <1>5, <1>6, <1>7, <1>8, <1>9, <1>10 DEF Next

\* A launched process runs until NodeExits, and its launcher returns after that.
LEMMA NextNodeInv == NodeInv /\ [Next]_vars => NodeInv'
<1> SUFFICES ASSUME NodeInv, [Next]_vars PROVE NodeInv'
  OBVIOUS
<1> USE DEF NodeInv, Return, workerVars, groupVars, serverVars
<1>1. CASE LoadConfiguration \/ StartOnlineDependencies \/ NewServer
  BY <1>1 DEF LoadConfiguration, StartOnlineDependencies, NewServer
<1>2. CASE Signal BY <1>2 DEF Signal
<1>3. CASE MonitorStops \/ Accept \/ Reply \/ ServerStops \/ ServerFails \/ ShutdownServer
  BY <1>3 DEF MonitorStops, Accept, Reply, ServerStops, ServerFails, ShutdownServer
<1>4. CASE StartNode BY <1>4 DEF StartNode
<1>5. CASE NodeExits BY <1>5 DEF NodeExits
<1>6. CASE InterruptNode BY <1>6 DEF InterruptNode
<1>7. CASE NodeWaited BY <1>7 DEF NodeWaited, NodeOver
<1>8. CASE \E p \in {"stdout", "stderr"} : LogPipe(p) BY <1>8 DEF LogPipe
<1>9. CASE WaitForNode \/ Bootstrap \/ SyncEnds BY <1>9 DEF WaitForNode, Bootstrap, SyncEnds
<1>10. CASE CloseDatabase \/ Exit BY <1>10 DEF CloseDatabase, Exit
<1>11. ASSUME NEW w \in Worker, BlockStep(w) PROVE NodeInv'
  <2>1. UNCHANGED <<alive, node>>
    BY <1>11, BlockStepFrame
  <2>2. QED BY <2>1
<1>12. CASE UNCHANGED vars BY <1>12 DEF vars
<1>13. QED
  BY <1>1, <1>2, <1>3, <1>4, <1>5, <1>6, <1>7, <1>8, <1>9, <1>10, <1>11, <1>12 DEF Next

\* The invariant holds in every reachable state.
LEMMA Inductive == Spec => []IInv
<1>1. IInv /\ [Next]_vars => IInv'
  BY NextTypeOK, NextIndexerInv, NextNodeInv DEF IInv
<1>2. QED BY InitIInv, <1>1, PTL DEF Spec

\* Every variable keeps its type, for any number of workers: in particular no
\* fetch is tried more often than retryLimit allows.
THEOREM TypeCorrect == Spec => []TypeOK
<1>1. IInv => TypeOK BY DEF IInv
<1>2. QED BY Inductive, <1>1, PTL

\* The database stays open as long as Indexer.Sync has not returned, whichever
\* goroutines end first and with whatever error.
THEOREM IndexerHasDatabase == Spec => []DatabaseOutlivesIndexer
<1>1. IInv => DatabaseOutlivesIndexer BY DEF IInv, IndexerInv, DatabaseOutlivesIndexer
<1>2. QED BY Inductive, <1>1, PTL

\* When runCmdHandler has waited for its goroutines, by its return or the fatal
\* error of the closing, a node that it launched has exited: cmd.Wait has
\* returned, whatever cancelled the group and whether the interrupt reached it.
THEOREM NoNodeLeftBehind == Spec => []NodeStopsFirst
<1>1. IInv => NodeStopsFirst
  BY DEF IInv, TypeOK, IndexerInv, AfterWait, NodeInv, NodeStopsFirst
<1>2. QED BY Inductive, <1>1, PTL
=============================================================================
