------------------------------- MODULE Session -------------------------------
(***************************************************************************)
(* One session on a node (src/lib/session/Session.cc and Computation.cc).  *)
(*                                                                         *)
(* HTTP threads of NodeService start operations on the session: update (a  *)
(* create or a modify) and delete each run in a thread of their own, kept  *)
(* in mOperationThread; a signal runs in the HTTP thread itself.  The main *)
(* thread of the node calls syncShutdown when the node exits.  mState,     *)
(* guarded by mStateMutex, is what keeps two operations apart: a step that *)
(* holds mStateMutex is one action here.  mComputationsMutex is held over  *)
(* many steps by deleteProc and signalAll, and is a variable.              *)
(*                                                                         *)
(* A request that the code answers with an error (409 "busy", "defunct",   *)
(* "shutting down") changes nothing and is an action that is not enabled.  *)
(* An operation thread is named by the HTTP thread that launched it: that  *)
(* thread cannot launch another before the first has left Busy.            *)
(* wait_until with a predicate is a guard on the predicate, or a timeout.  *)
(***************************************************************************)
CONSTANTS
  Comps,      \* computation ids that a configuration may place on this node
  Reqs,       \* HTTP server threads
  Main,       \* the main thread of the node, which calls syncShutdown
  NoOne       \* no thread, no lock holder, no computation

ASSUME ConstantsAssumption ==
  /\ Main \notin Reqs
  /\ NoOne \notin Reqs \cup {Main}
  /\ NoOne \notin Comps
  /\ NoOne \notin {"signal", "delete"} \X (Reqs \cup {Main})

Procs == Reqs \cup {Main}       \* who may run updateProc or deleteProc

(* mComputationsMutex is held by an HTTP thread in signalAll, or by a      *)
(* thread in deleteProc.                                                   *)
Holders == {NoOne} \cup ({"signal"} \X Reqs) \cup ({"delete"} \X Procs)

VARIABLES
  mState,             \* "Free", "Busy" or "Defunct"
  mShuttingDown,      \* syncShutdown has begun
  mOperationThread,   \* whose operation thread the handle holds, or NoOne
  mComputations,      \* ids in the map; entries are never removed
  mComputationsMutex, \* its holder
  mSentGo,            \* computations that have been sent "go"
  process,            \* state of each computation's Process
  rpc,                \* where each HTTP thread is
  task,               \* the operation it will launch, by its first step
  rtodo,              \* computations its signalAll loop has still to visit
  rcomp,              \* the computation it is signalling
  pc,                 \* where each operation (or Main) is
  config,             \* the configuration an update applies
  stopping,           \* computations its shutdown loop has still to visit
  awaited,            \* computations it waits for
  starting,           \* computations it has still to start
  spawned,            \* the computation it has spawned and not yet recorded
  toRouter,           \* kinds of message sent to the router
  aborted,            \* std::terminate: the node process is gone
  accepted,           \* history: configuration of the last accepted update
  reported            \* history: sessionOperationFailed raised since then

threadVars  == <<rpc, task, rtodo, rcomp>>
opVars      == <<pc, config, stopping, awaited, starting, spawned>>
stateVars   == <<mState, mShuttingDown, mOperationThread>>
compVars    == <<mComputations, mComputationsMutex, mSentGo, process>>
historyVars == <<accepted, reported>>
vars == <<mState, mShuttingDown, mOperationThread, mComputations,
          mComputationsMutex, mSentGo, process, rpc, task, rtodo, rcomp, pc,
          config, stopping, awaited, starting, spawned, toRouter, aborted, accepted,
          reported>>

UpdatePcs == {"delta", "stop", "await", "start", "record", "failed"}
DeletePcs == {"lock", "dstop", "dawait", "kick", "forget", "defunct"}
(* Main before, around and after its deleteProc. *)
MainPcs   == {"running", "waitBusy", "joinOperation", "gaveUp", "exited"}
RequestPcs == {"idle", "join", "launch", "assign", "signalAll", "visit", "send"}

TypeOK ==
  /\ mState \in {"Free", "Busy", "Defunct"}
  /\ mShuttingDown \in BOOLEAN
  /\ mOperationThread \in Reqs \cup {NoOne}
  /\ mComputations \in SUBSET Comps
  /\ mComputationsMutex \in Holders
  /\ mSentGo \in SUBSET Comps
  /\ process \in [Comps -> {"NotSpawned", "Spawned", "Terminating", "Terminated"}]
  /\ rpc \in [Reqs -> RequestPcs]
  /\ task \in [Reqs -> {"delta", "lock"}]
  /\ rtodo \in [Reqs -> SUBSET Comps]
  /\ rcomp \in [Reqs -> Comps \cup {NoOne}]
  /\ pc \in [Procs -> {"none"} \cup UpdatePcs \cup DeletePcs \cup MainPcs]
  /\ config \in [Procs -> SUBSET Comps]
  /\ stopping \in [Procs -> SUBSET Comps]
  /\ awaited \in [Procs -> SUBSET Comps]
  /\ starting \in [Procs -> SUBSET Comps]
  /\ spawned \in [Procs -> Comps \cup {NoOne}]
  /\ toRouter \in SUBSET {"kick", "delete"}
  /\ aborted \in BOOLEAN
  /\ accepted \in SUBSET Comps
  /\ reported \in BOOLEAN

(* The Session constructor: the session is in mSessions, free, and has no  *)
(* computation.                                                            *)
Init ==
  /\ mState = "Free"
  /\ mShuttingDown = FALSE
  /\ mOperationThread = NoOne
  /\ mComputations = {}
  /\ mComputationsMutex = NoOne
  /\ mSentGo = {}
  /\ process = [c \in Comps |-> "NotSpawned"]
  /\ rpc = [r \in Reqs |-> "idle"]
  /\ task = [r \in Reqs |-> "delta"]
  /\ rtodo = [r \in Reqs |-> {}]
  /\ rcomp = [r \in Reqs |-> NoOne]
  /\ pc = [p \in Procs |-> IF p = Main THEN "running" ELSE "none"]
  /\ config = [p \in Procs |-> {}]
  /\ stopping = [p \in Procs |-> {}]
  /\ awaited = [p \in Procs |-> {}]
  /\ starting = [p \in Procs |-> {}]
  /\ spawned = [p \in Procs |-> NoOne]
  /\ toRouter = {}
  /\ aborted = FALSE
  /\ accepted = {}
  /\ reported = FALSE
-----------------------------------------------------------------------------
(* A computation's process (impl::Process, from the execute library).      *)

(* Process::terminate: asks a running process to stop, once. *)
Terminate(c) ==
  process' = [process EXCEPT ![c] = IF @ = "Spawned" THEN "Terminating" ELSE @]

(* A process ends, because it was asked to or by itself. *)
ProcessExit(c) ==
  /\ process[c] \in {"Spawned", "Terminating"}
  /\ process' = [process EXCEPT ![c] = "Terminated"]
  /\ UNCHANGED <<stateVars, mComputations, mComputationsMutex, mSentGo,
                 threadVars, opVars, toRouter, aborted, historyVars>>

(* waitUntilShutdown returns true for every computation of S. *)
AllExited(S) == \A c \in S : process[c] = "Terminated"
-----------------------------------------------------------------------------
(* HTTP threads: asyncUpdateConfig and asyncDelete.                        *)

(* The check both make under mStateMutex. *)
MayStartIgnoringBusy == ~mShuttingDown /\ mState # "Defunct"
MayStartIgnoringDefunct == ~mShuttingDown /\ mState # "Busy"
MayStartIgnoringShutdown == mState = "Free"
MayStart == ~mShuttingDown /\ mState # "Busy" /\ mState # "Defunct"

(* asyncUpdateConfig up to the release of mStateMutex: the launch of        *)
(* updateProc is left to do.                                               *)
AsyncUpdateConfig(r, cfg) ==
  /\ rpc[r] = "idle"
  /\ MayStart
  /\ mState' = "Busy"
  /\ rpc' = [rpc EXCEPT ![r] = "join"]
  /\ task' = [task EXCEPT ![r] = "delta"]
  /\ config' = [config EXCEPT ![r] = cfg]
  /\ accepted' = cfg
  /\ reported' = FALSE
  /\ UNCHANGED <<mShuttingDown, mOperationThread, compVars, rtodo, rcomp, pc,
                 stopping, awaited, starting, spawned, toRouter, aborted>>

(* asyncDelete up to the release of mStateMutex. *)
AsyncDelete(r) ==
  /\ rpc[r] = "idle"
  /\ MayStart
  /\ mState' = "Busy"
  /\ rpc' = [rpc EXCEPT ![r] = "join"]
  /\ task' = [task EXCEPT ![r] = "lock"]
  /\ reported' = FALSE
  /\ UNCHANGED <<mShuttingDown, mOperationThread, compVars, rtodo, rcomp,
                 opVars, toRouter, aborted, accepted>>

(* An operation thread has left its procedure, so a join on it returns. *)
Joinable == mOperationThread # NoOne
JoinReturns == Joinable => pc[mOperationThread] = "none"

(* if (mOperationThread.joinable()) mOperationThread.join(); *)
JoinOperationThread(r) ==
  /\ rpc[r] = "join"
  /\ JoinReturns
  /\ mOperationThread' = NoOne
  /\ rpc' = [rpc EXCEPT ![r] = "launch"]
  /\ UNCHANGED <<mState, mShuttingDown, compVars, task, rtodo, rcomp, opVars,
                 toRouter, aborted, historyVars>>

(* std::thread(...) starts the procedure; its handle is still a temporary. *)
LaunchOperation(r) ==
  /\ rpc[r] = "launch"
  /\ pc' = [pc EXCEPT ![r] = task[r]]
  /\ rpc' = [rpc EXCEPT ![r] = "assign"]
  /\ UNCHANGED <<stateVars, compVars, task, rtodo, rcomp, config, stopping,
                 awaited, starting, spawned, toRouter, aborted, historyVars>>

(* mOperationThread = <the temporary>: assigning over a joinable thread     *)
(* calls std::terminate.                                                   *)
AssignOperationThread(r) ==
  /\ rpc[r] = "assign"
  /\ rpc' = [rpc EXCEPT ![r] = "idle"]
  /\ IF Joinable
       THEN aborted' = TRUE /\ UNCHANGED mOperationThread
       ELSE mOperationThread' = r /\ UNCHANGED aborted
  /\ UNCHANGED <<mState, mShuttingDown, compVars, task, rtodo, rcomp, opVars,
                 toRouter, historyVars>>
-----------------------------------------------------------------------------
(* HTTP threads: signal "run".  checkIsFree releases mStateMutex before    *)
(* signalAll takes mComputationsMutex.  The routing update and engineReady,  *)
(* which go to the router after that, on the same stale check, are left out.  *)

Signal(r) ==
  /\ rpc[r] = "idle"
  /\ mState = "Free"
  /\ rpc' = [rpc EXCEPT ![r] = "signalAll"]
  /\ UNCHANGED <<stateVars, compVars, task, rtodo, rcomp, opVars, toRouter,
                 aborted, historyVars>>

SignalAllUnlocked(r) ==
  /\ rpc[r] = "signalAll"
  /\ rtodo' = [rtodo EXCEPT ![r] = mComputations]
  /\ rpc' = [rpc EXCEPT ![r] = "visit"]
  /\ UNCHANGED <<stateVars, compVars, task, rcomp, opVars, toRouter, aborted,
                 historyVars>>
SignalAll(r) ==
  /\ rpc[r] = "signalAll"
  /\ mComputationsMutex = NoOne
  /\ mComputationsMutex' = <<"signal", r>>
  /\ rtodo' = [rtodo EXCEPT ![r] = mComputations]
  /\ rpc' = [rpc EXCEPT ![r] = "visit"]
  /\ UNCHANGED <<stateVars, mComputations, mSentGo, process, task, rcomp,
                 opVars, toRouter, aborted, historyVars>>

(* Computation::signal reads the state of the process ... *)
SignalComputation(r, c) ==
  /\ rpc[r] = "visit"
  /\ c \in rtodo[r]
  /\ rtodo' = [rtodo EXCEPT ![r] = @ \ {c}]
  /\ IF process[c] = "Spawned"
       THEN rpc' = [rpc EXCEPT ![r] = "send"] /\ rcomp' = [rcomp EXCEPT ![r] = c]
       ELSE UNCHANGED <<rpc, rcomp>>
  /\ UNCHANGED <<stateVars, compVars, task, opVars, toRouter, aborted,
                 historyVars>>

(* ... and then sends "go", or "update" when "go" has been sent. *)
SendControl(r) ==
  /\ rpc[r] = "send"
  /\ mSentGo' = mSentGo \cup {rcomp[r]}
  /\ rpc' = [rpc EXCEPT ![r] = "visit"]
  /\ rcomp' = [rcomp EXCEPT ![r] = NoOne]
  /\ UNCHANGED <<stateVars, mComputations, mComputationsMutex, process, task,
                 rtodo, opVars, toRouter, aborted, historyVars>>

SignalDone(r) ==
  /\ rpc[r] = "visit"
  /\ rtodo[r] = {}
  /\ mComputationsMutex' = NoOne
  /\ rpc' = [rpc EXCEPT ![r] = "idle"]
  /\ UNCHANGED <<stateVars, mComputations, mSentGo, process, task, rtodo,
                 rcomp, opVars, toRouter, aborted, historyVars>>
-----------------------------------------------------------------------------
(* updateProc and applyNewConfig.                                          *)

(* getConfigDelta, under mComputationsMutex. *)
GetConfigDelta(p) ==
  /\ pc[p] = "delta"
  /\ mComputationsMutex = NoOne
  /\ stopping' = [stopping EXCEPT ![p] = mComputations \ config[p]]
  /\ awaited' = [awaited EXCEPT ![p] = mComputations \ config[p]]
  /\ starting' = [starting EXCEPT ![p] = config[p] \ mComputations]
  /\ pc' = [pc EXCEPT ![p] = "stop"]
  /\ UNCHANGED <<stateVars, compVars, threadVars, config, spawned, toRouter,
                 aborted, historyVars>>

(* One turn of a loop that calls Computation::shutdown. *)
StopComputation(p, c) ==
  /\ c \in stopping[p]
  /\ Terminate(c)
  /\ stopping' = [stopping EXCEPT ![p] = @ \ {c}]
  /\ UNCHANGED <<stateVars, mComputations, mComputationsMutex, mSentGo,
                 threadVars, pc, config, awaited, starting, spawned, toRouter,
                 aborted, historyVars>>

(* The operation moves on to another step and changes nothing else. *)
GoTo(p, step) ==
  /\ pc' = [pc EXCEPT ![p] = step]
  /\ UNCHANGED <<stateVars, compVars, threadVars, config, stopping, awaited,
                 starting, spawned, toRouter, aborted, historyVars>>

(* The procedure returns, and its local variables are gone. *)
Leave(p, step) ==
  /\ pc' = [pc EXCEPT ![p] = step]
  /\ config' = [config EXCEPT ![p] = {}]
  /\ stopping' = [stopping EXCEPT ![p] = {}]
  /\ awaited' = [awaited EXCEPT ![p] = {}]
  /\ starting' = [starting EXCEPT ![p] = {}]
  /\ UNCHANGED <<mShuttingDown, mOperationThread, compVars, threadVars, spawned,
                 toRouter, aborted, historyVars>>

StopDefunct(p, c) == pc[p] = "stop" /\ StopComputation(p, c)

DefunctStopped(p) == pc[p] = "stop" /\ stopping[p] = {} /\ GoTo(p, "await")

AwaitDefunctNotAtAll(p) == pc[p] = "await" /\ GoTo(p, "start")
AwaitDefunct(p) == pc[p] = "await" /\ AllExited(awaited[p]) /\ GoTo(p, "start")

(* An exception leaves applyNewConfig; updateProc's handler raises the     *)
(* sessionOperationFailed event while the session is still Busy.           *)
UpdateThrows(p) ==
  /\ pc' = [pc EXCEPT ![p] = "failed"]
  /\ reported' = TRUE
  /\ UNCHANGED <<stateVars, compVars, threadVars, config, stopping, awaited,
                 starting, spawned, toRouter, aborted, accepted>>

(* waitUntilShutdown reaches WAIT_FOR_SHUTDOWN_TIMEOUT. *)
AwaitDefunctForever(p) == FALSE
AwaitDefunctTimeout(p) ==
  pc[p] = "await" /\ ~AllExited(awaited[p]) /\ UpdateThrows(p)

(* startNewComputation throws: no definition, no context, packaging, the    *)
(* config file, the Process object or the spawn fails.                     *)
StartFails(p) == pc[p] = "start" /\ starting[p] # {} /\ UpdateThrows(p)

(* startNewComputation as far as the spawn of the process: the computation  *)
(* is not in mComputations yet.                                            *)
StartNewComputation(p, c) ==
  /\ pc[p] = "start"
  /\ c \in starting[p]
  /\ process[c] = "NotSpawned"
  /\ process' = [process EXCEPT ![c] = "Spawned"]
  /\ starting' = [starting EXCEPT ![p] = @ \ {c}]
  /\ spawned' = [spawned EXCEPT ![p] = c]
  /\ pc' = [pc EXCEPT ![p] = "record"]
  /\ UNCHANGED <<stateVars, mComputations, mComputationsMutex, mSentGo,
                 threadVars, config, stopping, awaited, toRouter, aborted,
                 historyVars>>

(* mComputations[compId] = compPtr, under mComputationsMutex. *)
RecordComputationNever(p) ==
  /\ pc[p] = "record"
  /\ mComputationsMutex = NoOne
  /\ spawned' = [spawned EXCEPT ![p] = NoOne]
  /\ pc' = [pc EXCEPT ![p] = "start"]
  /\ UNCHANGED <<stateVars, compVars, threadVars, config, stopping, awaited,
                 starting, toRouter, aborted, historyVars>>
RecordComputationAfterReset(p) ==
  /\ pc[p] = "record"
  /\ mComputationsMutex = NoOne
  /\ spawned' = [spawned EXCEPT ![p] = NoOne]
  /\ mComputations' = mComputations \cup {spawned'[p]}
  /\ pc' = [pc EXCEPT ![p] = "start"]
  /\ UNCHANGED <<stateVars, mComputationsMutex, mSentGo, process, threadVars,
                 config, stopping, awaited, starting, toRouter, aborted,
                 historyVars>>
RecordComputation(p) ==
  /\ pc[p] = "record"
  /\ mComputationsMutex = NoOne
  /\ mComputations' = mComputations \cup {spawned[p]}
  /\ spawned' = [spawned EXCEPT ![p] = NoOne]
  /\ pc' = [pc EXCEPT ![p] = "start"]
  /\ UNCHANGED <<stateVars, mComputationsMutex, mSentGo, process, threadVars,
                 config, stopping, awaited, starting, toRouter, aborted,
                 historyVars>>

(* The end of updateProc: the state goes back to Free, and a waiting        *)
(* syncShutdown is notified.                                               *)
FinishUpdate(p) ==
  /\ pc[p] = "failed" \/ (pc[p] = "start" /\ starting[p] = {})
  /\ mState' = IF mState = "Busy" THEN "Free" ELSE mState
  /\ Leave(p, "none")
-----------------------------------------------------------------------------
(* deleteProc, which holds mComputationsMutex throughout its try block.    *)

LockComputations(p) ==
  /\ pc[p] = "lock"
  /\ mComputationsMutex = NoOne
  /\ mComputationsMutex' = <<"delete", p>>
  /\ stopping' = [stopping EXCEPT ![p] = mComputations]
  /\ awaited' = [awaited EXCEPT ![p] = mComputations]
  /\ pc' = [pc EXCEPT ![p] = "dstop"]
  /\ UNCHANGED <<stateVars, mComputations, mSentGo, process, threadVars, config,
                 starting, spawned, toRouter, aborted, historyVars>>

StopAll(p, c) == pc[p] = "dstop" /\ StopComputation(p, c)

AllStopped(p) == pc[p] = "dstop" /\ stopping[p] = {} /\ GoTo(p, "dawait")

(* Every waitUntilShutdown returns, true or (after the timeout) false:      *)
(* a computation that cannot be stopped is only logged.                    *)
AwaitAll(p) == pc[p] = "dawait" /\ GoTo(p, "kick")

(* ArrasController::shutdownSession: the client is kicked ... *)
KickClient(p) ==
  /\ pc[p] = "kick"
  /\ toRouter' = toRouter \cup {"kick"}
  /\ pc' = [pc EXCEPT ![p] = "forget"]
  /\ UNCHANGED <<stateVars, compVars, threadVars, config, stopping, awaited,
                 starting, spawned, aborted, historyVars>>

(* ... then the router is told to release the routing data. *)
ForgetSession(p) ==
  /\ pc[p] = "forget"
  /\ toRouter' = toRouter \cup {"delete"}
  /\ mComputationsMutex' = NoOne
  /\ pc' = [pc EXCEPT ![p] = "defunct"]
  /\ UNCHANGED <<stateVars, mComputations, mSentGo, process, threadVars, config,
                 stopping, awaited, starting, spawned, aborted, historyVars>>

(* A send throws: the lock is released and the failure reported. *)
DeleteThrowsHoldingLock(p) ==
  /\ pc[p] \in {"kick", "forget"}
  /\ reported' = TRUE
  /\ pc' = [pc EXCEPT ![p] = "defunct"]
  /\ UNCHANGED <<stateVars, compVars, threadVars, config, stopping, awaited,
                 starting, spawned, toRouter, aborted, accepted>>
DeleteThrows(p) ==
  /\ pc[p] \in {"kick", "forget"}
  /\ mComputationsMutex' = NoOne
  /\ reported' = TRUE
  /\ pc' = [pc EXCEPT ![p] = "defunct"]
  /\ UNCHANGED <<stateVars, mComputations, mSentGo, process, threadVars, config,
                 stopping, awaited, starting, spawned, toRouter, aborted,
                 accepted>>

FinishDelete(p) ==
  /\ pc[p] = "defunct"
  /\ mState' = "Defunct"
  /\ Leave(p, IF p = Main THEN "exited" ELSE "none")
-----------------------------------------------------------------------------
(* syncShutdown, in the main thread.                                       *)

BeginShutdown ==
  /\ pc[Main] = "running"
  /\ mShuttingDown' = TRUE
  /\ pc' = [pc EXCEPT ![Main] = "waitBusy"]
  /\ UNCHANGED <<mState, mOperationThread, compVars, threadVars, config,
                 stopping, awaited, starting, spawned, toRouter, aborted,
                 historyVars>>

NoLongerBusyUnchecked == pc[Main] = "waitBusy" /\ GoTo(Main, "joinOperation")
NoLongerBusy ==
  pc[Main] = "waitBusy" /\ mState # "Busy" /\ GoTo(Main, "joinOperation")

(* "Session shutdown took too long" *)
ShutdownTimeout ==
  pc[Main] = "waitBusy" /\ mState = "Busy" /\ GoTo(Main, "gaveUp")

JoinLastOperation ==
  /\ pc[Main] = "joinOperation"
  /\ JoinReturns
  /\ mOperationThread' = NoOne
  /\ pc' = [pc EXCEPT ![Main] = "lock"]
  /\ UNCHANGED <<mState, mShuttingDown, compVars, threadVars, config, stopping,
                 awaited, starting, spawned, toRouter, aborted, historyVars>>
-----------------------------------------------------------------------------
Request(r) ==
  \/ \E cfg \in SUBSET Comps : AsyncUpdateConfig(r, cfg)
  \/ AsyncDelete(r)
  \/ Signal(r)

RequestStep(r) ==
  \/ JoinOperationThread(r)
  \/ LaunchOperation(r)
  \/ AssignOperationThread(r)
  \/ SignalAll(r)
  \/ \E c \in Comps : SignalComputation(r, c)
  \/ SendControl(r)
  \/ SignalDone(r)

UpdateStep(p) ==
  \/ GetConfigDelta(p)
  \/ \E c \in Comps : StopDefunct(p, c)
  \/ DefunctStopped(p)
  \/ AwaitDefunct(p)
  \/ AwaitDefunctTimeout(p)
  \/ \E c \in Comps : StartNewComputation(p, c)
  \/ StartFails(p)
  \/ RecordComputation(p)
  \/ FinishUpdate(p)

DeleteStep(p) ==
  \/ LockComputations(p)
  \/ \E c \in Comps : StopAll(p, c)
  \/ AllStopped(p)
  \/ AwaitAll(p)
  \/ KickClient(p)
  \/ ForgetSession(p)
  \/ DeleteThrows(p)
  \/ FinishDelete(p)

ShutdownStep ==
  \/ NoLongerBusy
  \/ ShutdownTimeout
  \/ JoinLastOperation

Step ==
  \/ \E r \in Reqs : Request(r) \/ RequestStep(r)
  \/ \E p \in Procs : UpdateStep(p) \/ DeleteStep(p)
  \/ BeginShutdown
  \/ ShutdownStep
  \/ \E c \in Comps : ProcessExit(c)

Next == ~aborted /\ Step

Spec == Init /\ [][Next]_vars

(* Threads that have work to do are scheduled; requests, the shutdown of   *)
(* the node and the end of a process are not owed by anyone.  signal does   *)
(* not look at mShuttingDown, so signals may go on for ever while Main      *)
(* waits for mComputationsMutex: a mutex that is released again and again   *)
(* is in the end given to a thread that waits for it.                      *)
Fairness ==
  /\ \A r \in Reqs : WF_vars(~aborted /\ RequestStep(r))
  /\ \A p \in Procs : WF_vars(~aborted /\ (UpdateStep(p) \/ DeleteStep(p)))
  /\ \A p \in Procs : SF_vars(~aborted /\ LockComputations(p))
  /\ WF_vars(~aborted /\ ShutdownStep)

FairSpec == Spec /\ Fairness
-----------------------------------------------------------------------------
(* Threads inside an operation: between taking the Busy state (or, for      *)
(* Main, finding the session not Busy) and giving it up.                    *)
Claims(r) == rpc[r] \in {"join", "launch"}
Runs(p) == pc[p] \in UpdatePcs \cup DeletePcs

(* "Only one operation can be running at any time, to prevent               *)
(* interference" (Session.cc:187): two threads are never both in updateProc *)
(* or deleteProc, syncShutdown's own deleteProc included.                   *)
OneOperation ==
  \A p, q \in Procs : Runs(p) /\ Runs(q) => p = q

(* Once the session is Defunct, or the router has been told to drop its     *)
(* routing data, no computation process is left that was not asked to stop: *)
(* deleteProc saw every process that startNewComputation spawned.           *)
NoOrphan ==
  mState = "Defunct" \/ "delete" \in toRouter
    => \A c \in Comps : process[c] # "Spawned"

(* signal checks the state, lets go of mStateMutex and only then sends: even *)
(* so, no "go" or "update" is sent once the session is Defunct.             *)
NoControlWhenDefunct ==
  \A r \in Reqs : rpc[r] = "send" => mState # "Defunct"

(* A Free session has the computations of the last configuration it         *)
(* accepted, and has ended the others, unless Coordinator has been told that *)
(* the operation failed: updateProc is never half done in silence.          *)
ConfigAppliedOrReported ==
  mState = "Free" /\ ~reported
    => accepted \subseteq mComputations /\ AllExited(mComputations \ accepted)

(* The session as SessionLifecycle sees it: an operation lasts from the      *)
(* moment Busy is taken to the moment it is given up.                       *)
Updating == \/ \E r \in Reqs : Claims(r) /\ task[r] = "delta"
            \/ \E p \in Procs : pc[p] \in UpdatePcs
Deleting == \/ \E r \in Reqs : Claims(r) /\ task[r] = "lock"
            \/ \E p \in Procs : pc[p] \in DeletePcs

Lifecycle == INSTANCE SessionLifecycle WITH
  state <- mState,
  closing <- mShuttingDown,
  operation <- IF Updating THEN "update" ELSE IF Deleting THEN "delete" ELSE "none",
  live <- {c \in Comps : process[c] = "Spawned"}

(* The threads, locks and timeouts of Session keep the promise stated in     *)
(* SessionLifecycle.                                                        *)
ImplementsLifecycle == Lifecycle!Spec

(* "wait for them to shutdown, so that their resources are released and     *)
(* available for the new computations" (Session.cc:373): a computation is    *)
(* spawned only when those not in the new configuration have exited.         *)
SpawnAfterRelease ==
  [][\A c \in Comps :
       process[c] = "NotSpawned" /\ process'[c] = "Spawned"
         => AllExited(mComputations \ accepted)]_vars

(* Deletion is final: no later update, however late its thread, makes the   *)
(* session usable again.                                                    *)
DefunctForever == [][mState = "Defunct" => mState' = "Defunct"]_vars

(* mOperationThread is "protected by Busy state" (Session.h:118): the handle *)
(* is never overwritten while it holds a thread, which would end the node.   *)
HandleNeverOverwritten == ~aborted

(* Every accepted operation ends, whatever the computations do.             *)
OperationEnds == mState = "Busy" ~> (mState # "Busy" \/ aborted)

(* syncShutdown returns or gives up, so that the node can exit.             *)
ShutdownEnds ==
  mShuttingDown ~> (pc[Main] \in {"exited", "gaveUp"} \/ aborted)
-----------------------------------------------------------------------------
(* The inductive invariant behind OneOperation, NoOrphan and               *)
(* NoControlWhenDefunct.                                                   *)

(* Main runs only deleteProc; an operation thread is in no step of Main. *)
StepsFitThread ==
  /\ pc[Main] \in MainPcs \cup DeletePcs
  /\ \A r \in Reqs : pc[r] \in {"none"} \cup UpdatePcs \cup DeletePcs

(* A thread at a step that uses a computation has one. *)
ComputationAtHand ==
  /\ \A r \in Reqs : rpc[r] = "send" => rcomp[r] \in Comps
  /\ \A p \in Procs : pc[p] = "record" => spawned[p] \in Comps

(* Busy belongs to one thread: the HTTP thread that took it, then the       *)
(* operation thread it launched.                                           *)
BusyOwned ==
  \A r \in Reqs :
    /\ Claims(r) \/ Runs(r) => mState = "Busy"
    /\ ~(Claims(r) /\ Runs(r))
    /\ \A q \in Reqs :
         (Claims(r) \/ Runs(r)) /\ (Claims(q) \/ Runs(q)) => r = q

(* Main deletes only while no one is, or can become, the owner of Busy. *)
MainAlone ==
  /\ pc[Main] # "running" => mShuttingDown
  /\ Runs(Main) \/ pc[Main] = "joinOperation" => mState # "Busy"

(* Who is in a critical section holds mComputationsMutex. *)
LockHeld ==
  /\ \A r \in Reqs :
       rpc[r] \in {"visit", "send"} <=> mComputationsMutex = <<"signal", r>>
  /\ \A p \in Procs :
       pc[p] \in {"dstop", "dawait", "kick", "forget"}
         <=> mComputationsMutex = <<"delete", p>>

(* mComputations holds every computation that has a process, except the one  *)
(* that a running update has just spawned.                                  *)
ProcessesRecorded ==
  \A c \in Comps :
    process[c] # "NotSpawned"
      => c \in mComputations \/ \E p \in Procs : pc[p] = "record" /\ spawned[p] = c

(* What deleteProc has achieved at each of its steps. *)
DeleteProgress ==
  \A p \in Procs :
    /\ pc[p] = "dstop"
         => \A c \in mComputations \ stopping[p] : process[c] # "Spawned"
    /\ pc[p] \in {"dawait", "kick", "forget", "defunct"}
         => \A c \in Comps : process[c] # "Spawned"

(* The routing data is given up only at the end of a deletion. *)
ForgottenAtEnd ==
  "delete" \in toRouter => mState = "Defunct" \/ \E p \in Procs : pc[p] = "defunct"

(* A thread about to send a control message is ahead of any deletion. *)
SendBeforeDefunct ==
  \A r \in Reqs :
    rpc[r] = "send" => mState # "Defunct" /\ \A p \in Procs : pc[p] # "defunct"

(* What updateProc has achieved at each of its steps: the lists that         *)
(* getConfigDelta made stay exact, and a failure has been reported.         *)
UpdateProgress ==
  /\ \A r \in Reqs : Claims(r) /\ task[r] = "delta" => config[r] = accepted
  /\ \A p \in Procs :
       /\ pc[p] \in UpdatePcs => config[p] = accepted
       /\ pc[p] = "failed" => reported
       /\ pc[p] \in {"stop", "await"}
            => /\ awaited[p] = mComputations \ accepted
               /\ starting[p] = accepted \ mComputations
       /\ pc[p] = "start"
            => /\ AllExited(mComputations \ accepted)
               /\ starting[p] = accepted \ mComputations
       /\ pc[p] = "record"
            => /\ AllExited(mComputations \ accepted)
               /\ starting[p] = accepted \ (mComputations \cup {spawned[p]})
               /\ spawned[p] \in accepted

(* The inductive invariant is layered: Ownership needs nothing of the rest. *)
Ownership ==
  /\ TypeOK
  /\ StepsFitThread
  /\ ComputationAtHand
  /\ BusyOwned
  /\ MainAlone

Stopping ==
  /\ LockHeld
  /\ ProcessesRecorded
  /\ DeleteProgress
  /\ ForgottenAtEnd
  /\ NoOrphan
  /\ SendBeforeDefunct

Applying ==
  /\ UpdateProgress
  /\ ConfigAppliedOrReported

(* Every step of the session keeps these three together: who owns the Busy   *)
(* state, what a deletion has stopped and what an update has applied so far. *)
IInv == Ownership /\ Stopping /\ Applying
=============================================================================
