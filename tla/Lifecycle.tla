------------------------------ MODULE Lifecycle ------------------------------
(***************************************************************************)
(* The process: "rosetta-ergo run" (cmd/run.go) starts its goroutines one  *)
(* after the other in one errgroup, whose context a signal or the first    *)
(* error cancels, waits for all of them and closes the database.  A fatal  *)
(* error exits at once, whatever runs by then.  Among the goroutines are   *)
(* the node launcher (pkg/ergo/node.go) and the indexer, whose workers     *)
(* fetch blocks from the node with retries (Indexer.Block); what they do   *)
(* with a fetched block until it is handed over is module Indexer.         *)
(*                                                                         *)
(* A definition introduced by "Mistake:" is explained in Indexer.          *)
(***************************************************************************)
EXTENDS Naturals, FiniteSets

CONSTANTS
    Worker,      \* the syncer's fetch goroutines
    RetryLimit   \* retryLimit

ASSUME LifecycleAssumption == Worker # {} /\ IsFiniteSet(Worker) /\ RetryLimit \in Nat

Mode == {"offline", "online", "online with node"}
Goroutine == {"monitor", "node", "stdout", "stderr", "interrupt", "sync", "server", "shutdown"}

VARIABLES
    mode,       \* ROSETTA_MODE, and whether --start-node is given
    main,       \* where runCmdHandler is, or how the process ended
    alive,      \* the goroutines of the errgroup that have not returned, by now or by the exit
    cancelled,  \* the context of the errgroup is done
    signalled,  \* SignalReceived
    db,         \* the database
    node,       \* the node's process, when it is launched here
    listening,  \* the server was not shut down
    handling,   \* a request is being handled, from its connection to its answer
    stage,      \* Sync waits for the node, sets up the storage, or fetches blocks
    fetchError, \* a worker returned an error: the syncer's own context is done
    pc,         \* where each worker is in Block
    retries,    \* its count of failed requests
    block       \* whether its ergoBlock was fetched (FALSE: it is nil)

groupVars == <<alive, cancelled>>
serverVars == <<listening, handling>>
workerVars == <<fetchError, pc, retries, block>>
vars == <<mode, main, groupVars, signalled, db, node, serverVars, stage, workerVars>>

\* runCmdHandler up to g.Wait, and to its end; an exit ends all goroutines
Running == main \in {"config", "dependencies", "asserter", "wait"}
Up == Running \/ main = "closing"

\* A return; the exits of Fatalw and Fatalf; a panic
Over == {"ended", "setup failed", "bootstrap failed", "close failed", "crashed"}

\* The context that the syncer passes to Block
SyncerDone == cancelled \/ fetchError

\* A function of the errgroup returns; the first error cancels the context
Return(g, err) ==
    /\ alive' = alive \ {g}
    /\ cancelled' = (cancelled \/ err)

Init ==
    /\ mode \in Mode /\ main = "config"
    /\ alive = {"monitor"} /\ cancelled = FALSE /\ signalled = FALSE
    /\ db = "closed" /\ node = "none" /\ listening = TRUE /\ handling = FALSE
    /\ stage = "node" /\ fetchError = FALSE
    /\ pc = [w \in Worker |-> "idle"]
    /\ retries = [w \in Worker |-> 0] /\ block = [w \in Worker |-> FALSE]

-----------------------------------------------------------------------------
\* The configuration says what to start; the node is launched first
LoadConfiguration ==
    /\ main = "config"
    /\ \/ main' = "setup failed" /\ UNCHANGED alive
       \/ /\ main' = IF mode = "offline" THEN "asserter" ELSE "dependencies"
          /\ alive' = alive \cup (IF mode = "online with node" THEN {"node"} ELSE {})
    /\ UNCHANGED <<mode, cancelled, signalled, db, node, serverVars, stage, workerVars>>

\* Open the database and start the indexer; what fails may do so before or after
\* the database is open
StartOnlineDependencies ==
    /\ main = "dependencies"
    /\ \/ main' = "setup failed" /\ db' \in {"closed", "open"} /\ UNCHANGED alive
       \/ main' = "asserter" /\ db' = "open" /\ alive' = alive \cup {"sync"}
    /\ UNCHANGED <<mode, cancelled, signalled, node, serverVars, stage, workerVars>>

\* The asserter of requests may fail beside the running node and indexer
NewServer ==
    /\ main = "asserter"
    /\ \/ main' = "setup failed" /\ UNCHANGED alive
       \/ main' = "wait" /\ alive' = alive \cup {"server", "shutdown"}
    /\ UNCHANGED <<mode, cancelled, signalled, db, node, serverVars, stage, workerVars>>

\* handleSignals: the first signal cancels, another one does nothing more
Signal ==
    /\ Up /\ ~signalled
    /\ signalled' = TRUE /\ cancelled' = TRUE
    /\ UNCHANGED <<mode, main, alive, db, node, serverVars, stage, workerVars>>

\* MonitorMemoryUsage returns the error of its context
MonitorStops ==
    /\ Running /\ "monitor" \in alive /\ cancelled
    /\ Return("monitor", TRUE)
    /\ UNCHANGED <<mode, main, signalled, db, node, serverVars, stage, workerVars>>

\* Mistake: the server is left to itself
ServerIgnored == listening

\* Shutdown of a server: it stops listening
ServerShutdown == FALSE

\* A request is accepted and handled, in a goroutine outside the errgroup, and
\* answered at some time; see Services for what is in between.
Accept ==
    /\ Running /\ "server" \in alive /\ listening /\ ~handling
    /\ handling' = TRUE
    /\ UNCHANGED <<mode, main, groupVars, signalled, db, node, listening, stage, workerVars>>

Reply ==
    /\ Up /\ handling
    /\ handling' = FALSE
    /\ UNCHANGED <<mode, main, groupVars, signalled, db, node, listening, stage, workerVars>>

\* ListenAndServe returns when the server is shut down, or cannot listen
ServerStops ==
    /\ Running /\ "server" \in alive /\ ~listening
    /\ Return("server", TRUE)
    /\ UNCHANGED <<mode, main, signalled, db, node, serverVars, stage, workerVars>>

ServerFails ==
    /\ Running /\ "server" \in alive
    /\ Return("server", TRUE)
    /\ UNCHANGED <<mode, main, signalled, db, node, serverVars, stage, workerVars>>

\* Its context is done by then: a request in flight is an error, not waited for
ShutdownServer ==
    /\ Running /\ "shutdown" \in alive /\ cancelled
    /\ listening' = ServerShutdown
    /\ \E err \in BOOLEAN : (handling => err) /\ Return("shutdown", err)
    /\ UNCHANGED <<mode, main, signalled, db, node, handling, stage, workerVars>>

-----------------------------------------------------------------------------
(***************************************************************************)
(* StartErgoNode                                                           *)
(***************************************************************************)
\* The log pipes cannot be had; or they are read before the process starts, or
\* fails to start
StartNode ==
    /\ Running /\ "node" \in alive /\ node = "none"
    /\ \/ Return("node", TRUE) /\ UNCHANGED node
       \/ /\ node' = "up"
          /\ alive' = alive \cup {"stdout", "stderr", "interrupt"}
          /\ UNCHANGED cancelled
       \/ /\ node' = "down"
          /\ alive' = (alive \ {"node"}) \cup {"stdout", "stderr"}
          /\ cancelled' = TRUE
    /\ UNCHANGED <<mode, main, signalled, db, serverVars, stage, workerVars>>

\* The node exits, by itself or because it was interrupted
NodeExits ==
    /\ node \in {"up", "interrupted"} /\ node' = "down"
    /\ UNCHANGED <<mode, main, groupVars, signalled, db, serverVars, stage, workerVars>>

\* logPipe ends at the end of its pipe, or at a line too long for its scanner
LogPipe(p) ==
    /\ Running /\ p \in alive
    /\ \E err \in BOOLEAN : (err \/ node = "down") /\ Return(p, err)
    /\ UNCHANGED <<mode, main, signalled, db, node, serverVars, stage, workerVars>>

\* The node is interrupted when the context is done; a finished process cannot be
InterruptNode ==
    /\ Running /\ "interrupt" \in alive /\ cancelled
    /\ node' = IF node = "up" THEN "interrupted" ELSE node
    /\ \E err \in BOOLEAN : Return("interrupt", err)
    /\ UNCHANGED <<mode, main, signalled, db, serverVars, stage, workerVars>>

\* Mistake: cmd.Start is not followed by cmd.Wait
NodeStarted == node # "none"

\* cmd.Wait
NodeOver == node = "down"

NodeWaited ==
    /\ Running /\ "node" \in alive /\ NodeOver
    /\ \E err \in BOOLEAN : Return("node", err)
    /\ UNCHANGED <<mode, main, signalled, db, node, serverVars, stage, workerVars>>

-----------------------------------------------------------------------------
(***************************************************************************)
(* Indexer.Sync, and Indexer.Block in the syncer's workers                 *)
(***************************************************************************)
\* waitForNode ends when the node answers; its sleep ends when the context is done
WaitForNode ==
    /\ Running /\ "sync" \in alive /\ stage = "node"
    /\ \/ ~cancelled /\ stage' = "storage" /\ UNCHANGED groupVars
       \/ cancelled /\ Return("sync", TRUE) /\ UNCHANGED stage
    /\ UNCHANGED <<mode, main, signalled, db, node, serverVars, workerVars>>

\* Find the head, or bootstrap a storage that has none; if that fails, exit at once
Bootstrap ==
    /\ Running /\ "sync" \in alive /\ stage = "storage"
    /\ \/ stage' = "blocks" /\ UNCHANGED main
       \/ main' = "bootstrap failed" /\ UNCHANGED stage
    /\ UNCHANGED <<mode, groupVars, signalled, db, node, serverVars, workerVars>>

\* A step of a worker inside Sync
At(w, label) == Running /\ "sync" \in alive /\ stage = "blocks" /\ pc[w] = label
Goto(w, label) == pc' = [pc EXCEPT ![w] = label]
InSync == UNCHANGED <<mode, main, groupVars, signalled, db, node, serverVars, stage>>

\* The worker returns an error to the syncer and ends
FetchFails(w) ==
    /\ Goto(w, "ended") /\ fetchError' = TRUE
    /\ UNCHANGED <<retries, block>>

\* A worker takes another index from the syncer's channel, which may hold some
\* when the context is done; or it ends.
CallBlock(w) ==
    /\ At(w, "idle")
    /\ \/ /\ Goto(w, "loop")
          /\ retries' = [retries EXCEPT ![w] = 0] /\ block' = [block EXCEPT ![w] = FALSE]
          /\ UNCHANGED fetchError
       \/ SyncerDone /\ FetchFails(w)
    /\ InSync

\* for ctx.Err() == nil
Loop(w) ==
    /\ At(w, "loop")
    /\ Goto(w, IF SyncerDone THEN "convert" ELSE "request")
    /\ UNCHANGED <<fetchError, retries, block>> /\ InSync

\* Mistake: the limit itself does not count
OneRetryMore(w) == retries[w] <= RetryLimit

\* retries > retryLimit ends the loop
RetriesLeft(w) == retries[w] < RetryLimit

\* The requests of getBlockByIdentifier are answered, or fail: then the worker
\* sleeps before it tries again, up to the limit.
Request(w) ==
    /\ At(w, "request")
    /\ \/ /\ Goto(w, "convert") /\ block' = [block EXCEPT ![w] = TRUE]
          /\ UNCHANGED <<fetchError, retries>>
       \/ /\ RetriesLeft(w)
          /\ Goto(w, "sleep") /\ retries' = [retries EXCEPT ![w] = @ + 1]
          /\ UNCHANGED <<fetchError, block>>
       \/ ~RetriesLeft(w) /\ FetchFails(w)
    /\ InSync

\* ContextSleep returns early when the context is done, unless its timer won
Sleep(w) ==
    /\ At(w, "sleep")
    /\ \/ Goto(w, "loop") /\ UNCHANGED <<fetchError, retries, block>>
       \/ SyncerDone /\ FetchFails(w)
    /\ InSync

\* findCoins accepts a nil block, which has no inputs; BlockToRosettaBlock reads
\* its header and panics.  With a block the worker hands over the result.
Convert(w) ==
    /\ At(w, "convert")
    /\ IF block[w]
       THEN \/ Goto(w, "idle") /\ UNCHANGED <<main, fetchError, retries, block>>
            \/ FetchFails(w) /\ UNCHANGED main
       ELSE main' = "crashed" /\ UNCHANGED workerVars
    /\ UNCHANGED <<mode, groupVars, signalled, db, node, serverVars, stage>>

\* Sync returns when all of its workers have
SyncEnds ==
    /\ Running /\ "sync" \in alive /\ stage = "blocks"
    /\ SyncerDone /\ \A w \in Worker : pc[w] = "ended"
    /\ Return("sync", TRUE)
    /\ UNCHANGED <<mode, main, signalled, db, node, serverVars, stage, workerVars>>

-----------------------------------------------------------------------------
\* Mistake: the end of the context is taken for the end of the goroutines
GroupCancelled == cancelled

\* g.Wait()
GroupDone == alive = {}

\* Shutdown of the storage, if there is one, after all goroutines have ended
CloseDatabase ==
    /\ main = "wait" /\ GroupDone
    /\ \/ main' = "closing" /\ db' = "closed"
       \/ main' = "close failed" /\ mode # "offline" /\ UNCHANGED db
    /\ UNCHANGED <<mode, groupVars, signalled, node, serverVars, stage, workerVars>>

\* and return, which drops the requests that are still being handled
Exit ==
    /\ main = "closing" /\ main' = "ended"
    /\ UNCHANGED <<mode, groupVars, signalled, db, node, serverVars, stage, workerVars>>

BlockStep(w) == CallBlock(w) \/ Loop(w) \/ Request(w) \/ Sleep(w) \/ Convert(w)

Next ==
    \/ LoadConfiguration \/ StartOnlineDependencies \/ NewServer
    \/ Signal \/ MonitorStops
    \/ Accept \/ Reply \/ ServerStops \/ ServerFails \/ ShutdownServer
    \/ StartNode \/ NodeExits \/ InterruptNode \/ NodeWaited
    \/ \E p \in {"stdout", "stderr"} : LogPipe(p)
    \/ WaitForNode \/ Bootstrap \/ SyncEnds \/ CloseDatabase \/ Exit
    \/ \E w \in Worker : BlockStep(w)

Spec == Init /\ [][Next]_vars

\* Every goroutine that can run does run: a request to the node is answered or
\* times out, and the node exits when it is interrupted.  The requests of users
\* may be handled for ever.
Fairness ==
    /\ WF_vars(LoadConfiguration) /\ WF_vars(StartOnlineDependencies) /\ WF_vars(NewServer)
    /\ WF_vars(CloseDatabase) /\ WF_vars(Exit)
    /\ WF_vars(MonitorStops) /\ WF_vars(ServerStops) /\ WF_vars(ShutdownServer)
    /\ WF_vars(StartNode) /\ WF_vars(InterruptNode) /\ WF_vars(NodeWaited)
    /\ WF_vars(NodeExits /\ node = "interrupted")
    /\ \A p \in {"stdout", "stderr"} : WF_vars(LogPipe(p) /\ node = "down")
    /\ WF_vars(WaitForNode) /\ WF_vars(Bootstrap) /\ WF_vars(SyncEnds)
    /\ \A w \in Worker : WF_vars(BlockStep(w))

FairSpec == Spec /\ Fairness

-----------------------------------------------------------------------------
(***************************************************************************)
(* Properties                                                              *)
(***************************************************************************)
\* Every variable keeps its type; no worker fails more often than the limit.
TypeOK ==
    /\ mode \in Mode
    /\ main \in {"config", "dependencies", "asserter", "wait", "closing"} \cup Over
    /\ alive \subseteq Goroutine
    /\ cancelled \in BOOLEAN /\ signalled \in BOOLEAN
    /\ listening \in BOOLEAN /\ handling \in BOOLEAN /\ fetchError \in BOOLEAN
    /\ stage \in {"node", "storage", "blocks"}
    /\ db \in {"open", "closed"} /\ node \in {"none", "up", "interrupted", "down"}
    /\ pc \in [Worker -> {"idle", "loop", "request", "sleep", "convert", "ended"}]
    /\ retries \in [Worker -> 0 .. RetryLimit] /\ block \in [Worker -> BOOLEAN]

\* The indexer never works on a closed database: it is closed "after all indexer
\* goroutines have stopped" (run.go:204-209).
DatabaseOutlivesIndexer == "sync" \in alive => db = "open"

\* A process that waits for its goroutines and ends, even if the database does not
\* close then, leaves no node running that it launched (node.go:79-86).  A fatal
\* error of the setup or the bootstrap, and a panic, may leave one: main is then
\* "setup failed", "bootstrap failed" or "crashed".
NodeStopsFirst == main \in {"ended", "close failed"} => node \in {"none", "down"}

\* Once the context is done, by a signal or by the error of any goroutine, the
\* process ends, whatever the node, the fetches and the handlers of requests are
\* doing (run.go:189-204).
Stops == cancelled ~> ~Up

\* "handleSignals handles OS signals so we can ensure we close database
\* correctly." (root.go:35-36); the fatal exits are left aside.
DatabaseClosedAfterSignal == signalled /\ main \in {"ended", "crashed"} => db = "closed"

\* "Attempt to close the database gracefully after all indexer goroutines have
\* stopped." (run.go:206): the database is not closed under a request.
RequestsFindDatabase == handling /\ mode # "offline" => db = "open"
=============================================================================
