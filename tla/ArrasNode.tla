------------------------------ MODULE ArrasNode ------------------------------
(***************************************************************************)
(* The life of a node process, from its registration to its exit: main.cc, *)
(* ArrasNode, the event queue of NodeService, ArrasSessions::shutdownAll    *)
(* and PreemptionMonitor.                                                  *)
(*                                                                         *)
(* At the initial state the router has been started and NodeService serves *)
(* HTTP, but nobody knows of it.  Anyone may ask the node to stop: an HTTP  *)
(* request, a signal, the preemption monitor, or the event that the router  *)
(* is gone.  All of them call stopRunning, which needs mRunMutex: run()      *)
(* holds it from its first line to its last, except while it waits.         *)
(*                                                                         *)
(* Sessions are Session objects of module Session, with their threads left   *)
(* out: an id that is created again after its session was erased is another   *)
(* object.  A session raises one event here.  A request that is refused with  *)
(* an error and changes nothing, such as the create of an id that is in use,  *)
(* is left out.  Consul is in use.                                         *)
(***************************************************************************)
EXTENDS Sequences

CONSTANTS
  Reqs,         \* HTTP server threads
  Modifiers,    \* HTTP server threads that serve modifySession
  Sessions,     \* Session objects
  RouterLost,   \* the event "shutdownWithError"
  NoOne         \* no session, no event

ASSUME NodeConstants ==
  /\ RouterLost \notin Sessions
  /\ NoOne \notin Sessions \cup {RouterLost}

VARIABLES
  main,            \* where the main thread is
  stuck,           \* it waits for a mutex that it holds
  mRun,            \* cleared by stopRunning
  mIsRegistered,
  coordinator,     \* Coordinator has this node
  consul,          \* what Consul has of it
  notice,          \* Coordinator has dropped the node and is about to say so
  mClosed,         \* no new sessions
  session,         \* "none", "inserted", "live" (computations) or "down"
  mSessions,       \* the sessions in the map
  toShut,          \* sessions that shutdownAll has still to visit
  hpc, hsession,   \* where each HTTP thread is, with which session
  mEventHandler,   \* the controller knows the NodeService
  mEventQueue,
  mRunThreads,     \* cleared by ~NodeService
  sender, sending, \* where the event thread is, with which event
  monitor,         \* where the preemption monitor is
  router,          \* "up" or "lost"
  raised,          \* history: sessions that raised their event
  early,           \* history: events queued before drainEvents returned
  handled,         \* history: events the event thread is done with
  drained,         \* history: "no", "yes" or "timeout"
  late,            \* history: sessions shutdownAll could not see or stop
  failed,          \* history: a call to Coordinator or Consul failed
  dangling         \* history: an event was given to a destroyed NodeService

registryVars == <<mIsRegistered, coordinator, consul, notice, failed>>
sessionVars == <<mClosed, session, mSessions, toShut, hpc, hsession, late>>
eventVars == <<mEventHandler, mEventQueue, mRunThreads, sender, sending, raised,
               early, handled, drained, dangling>>
vars == <<main, stuck, mRun, registryVars, sessionVars, eventVars, monitor, router>>

Threads == Reqs \cup Modifiers

Starting == {"registerConsul", "registerNode", "updateInfo", "setHandler",
             "startMonitor", "start"}
Cleaning == {"close", "lock", "shutdown", "drain", "deregister", "deregisterConsul"}
Ending   == {"joinMonitor", "destroyService", "joinEvents", "stopHttp",
             "destroySessions", "exited"}

(* run() has mRunMutex; the wait on mRunCondition lets go of it. *)
MutexHeld == main \in {"run"} \cup Cleaning
Serving == main \notin {"registerConsul", "stopHttp", "destroySessions", "exited"}

TypeOK ==
  /\ main \in Starting \cup {"run", "waiting"} \cup Cleaning \cup Ending
  /\ stuck \in BOOLEAN /\ mRun \in BOOLEAN
  /\ mIsRegistered \in BOOLEAN /\ coordinator \in BOOLEAN /\ notice \in BOOLEAN
  /\ consul \subseteq {"service", "check", "info"}
  /\ mClosed \in BOOLEAN
  /\ session \in [Sessions -> {"none", "inserted", "live", "down"}]
  /\ mSessions \subseteq Sessions /\ toShut \subseteq Sessions
  /\ hpc \in [Threads -> {"idle", "stop", "insert", "update", "find", "apply"}]
  /\ hsession \in [Threads -> Sessions \cup {NoOne}]
  /\ mEventHandler \in BOOLEAN /\ mRunThreads \in BOOLEAN
  /\ mEventQueue \in Seq(Sessions \cup {RouterLost})
  /\ sender \in {"loop", "pop", "send", "exited"}
  /\ sending \in Sessions \cup {RouterLost, NoOne}
  /\ monitor \in {"none", "polling", "stop", "ended"}
  /\ router \in {"up", "lost"}
  /\ raised \subseteq Sessions /\ late \subseteq Sessions
  /\ early \subseteq Sessions \cup {RouterLost}
  /\ handled \subseteq Sessions \cup {RouterLost}
  /\ drained \in {"no", "yes", "timeout"}
  /\ failed \in BOOLEAN /\ dangling \in BOOLEAN

Init ==
  /\ main = "registerConsul"
  /\ stuck = FALSE /\ mRun = FALSE
  /\ mIsRegistered = FALSE /\ coordinator = FALSE /\ notice = FALSE
  /\ consul = {}
  /\ mClosed = FALSE
  /\ session = [s \in Sessions |-> "none"]
  /\ mSessions = {} /\ toShut = {}
  /\ hpc = [r \in Threads |-> "idle"]
  /\ hsession = [r \in Threads |-> NoOne]
  /\ mEventHandler = FALSE /\ mRunThreads = TRUE
  /\ mEventQueue = <<>>
  /\ sender = "loop" /\ sending = NoOne
  /\ monitor = "none"
  /\ router = "up"
  /\ raised = {} /\ late = {} /\ early = {} /\ handled = {}
  /\ drained = "no" /\ failed = FALSE /\ dangling = FALSE
-----------------------------------------------------------------------------
GoTo(from, to) == main = from /\ ~stuck /\ main' = to

(* An exception leaves initialize(): the node is destroyed and main returns  *)
(* -1.  What has been registered stays registered.                          *)
InitializeFails(from) == GoTo(from, "destroyService") /\ failed' = TRUE

(* registerNode: the service and its health check in Consul, ... *)
RegisterConsul ==
  /\ GoTo("registerConsul", "registerNode")
  /\ consul' = {"service", "check"}
  /\ UNCHANGED <<stuck, mRun, mIsRegistered, coordinator, notice, failed,
                 sessionVars, eventVars, monitor, router>>

RegisterConsulFails ==
  /\ InitializeFails("registerConsul")
  /\ consul' \in {{}, {"service"}}
  /\ UNCHANGED <<stuck, mRun, mIsRegistered, coordinator, notice, sessionVars,
                 eventVars, monitor, router>>

(* ...the node in Coordinator, ... *)
RegisterNode ==
  /\ GoTo("registerNode", "updateInfo")
  /\ coordinator' = TRUE
  /\ UNCHANGED <<stuck, mRun, mIsRegistered, consul, notice, failed,
                 sessionVars, eventVars, monitor, router>>

RegisterNodeFails ==
  /\ InitializeFails("registerNode")
  /\ coordinator' \in BOOLEAN
  /\ UNCHANGED <<stuck, mRun, mIsRegistered, consul, notice, sessionVars,
                 eventVars, monitor, router>>

(* ...and its description in Consul. *)
UpdateNodeInfo ==
  /\ GoTo("updateInfo", "setHandler")
  /\ consul' = consul \cup {"info"}
  /\ mIsRegistered' = TRUE
  /\ UNCHANGED <<stuck, mRun, coordinator, notice, failed, sessionVars,
                 eventVars, monitor, router>>

UpdateNodeInfoFails ==
  /\ InitializeFails("updateInfo")
  /\ UNCHANGED <<stuck, mRun, mIsRegistered, coordinator, consul, notice,
                 sessionVars, eventVars, monitor, router>>

SetEventHandler ==
  /\ GoTo("setHandler", "startMonitor")
  /\ mEventHandler' = TRUE
  /\ UNCHANGED <<stuck, mRun, registryVars, sessionVars, mEventQueue,
                 mRunThreads, sender, sending, raised, early, handled, drained,
                 dangling, monitor, router>>

(* PreemptionMonitor::start: on some platforms there is none. *)
StartMonitor ==
  /\ GoTo("startMonitor", "start")
  /\ monitor' \in {"none", "polling"}
  /\ UNCHANGED <<stuck, mRun, registryVars, sessionVars, eventVars, router>>

(* run(): whatever stopRunning did before is overwritten. *)
Run ==
  /\ GoTo("start", "run")
  /\ mRun' = TRUE
  /\ UNCHANGED <<stuck, registryVars, sessionVars, eventVars, monitor, router>>

Wait ==
  /\ GoTo("run", "waiting")
  /\ UNCHANGED <<stuck, mRun, registryVars, sessionVars, eventVars, monitor,
                 router>>

Woken ==
  /\ GoTo("waiting", "close")
  /\ ~mRun
  /\ UNCHANGED <<stuck, mRun, registryVars, sessionVars, eventVars, monitor,
                 router>>
-----------------------------------------------------------------------------
(* ArrasSessions::shutdownAll.                                             *)

Close ==
  /\ GoTo("close", "lock")
  /\ mClosed' = TRUE
  /\ UNCHANGED <<stuck, mRun, registryVars, session, mSessions, toShut, hpc,
                 hsession, late, eventVars, monitor, router>>

(* mSessionsMutex is held over the whole loop. *)
LockSessions ==
  /\ GoTo("lock", "shutdown")
  /\ toShut' = mSessions
  /\ UNCHANGED <<stuck, mRun, registryVars, mClosed, session, mSessions, hpc,
                 hsession, late, eventVars, monitor, router>>

(* syncShutdown of one session... *)
SyncShutdown(s) ==
  /\ main = "shutdown" /\ ~stuck
  /\ s \in toShut
  /\ toShut' = toShut \ {s}
  /\ session' = [session EXCEPT ![s] = "down"]
  /\ UNCHANGED <<main, stuck, mRun, registryVars, mClosed, mSessions, hpc,
                 hsession, late, eventVars, monitor, router>>

(* ...or its exception, which is only logged. *)
SyncShutdownGivesUp(s) ==
  /\ main = "shutdown" /\ ~stuck
  /\ s \in toShut /\ session[s] = "live"
  /\ toShut' = toShut \ {s}
  /\ late' = late \cup {s}
  /\ UNCHANGED <<main, stuck, mRun, registryVars, mClosed, session, mSessions,
                 hpc, hsession, eventVars, monitor, router>>

SessionsShutDown ==
  /\ GoTo("shutdown", "drain")
  /\ toShut = {}
  /\ UNCHANGED <<stuck, mRun, registryVars, sessionVars, eventVars, monitor,
                 router>>
-----------------------------------------------------------------------------
(* The rest of run() and of mainloop().                                    *)

(* drainEvents returns when the queue is empty, though the last event may    *)
(* still be on its way, ...                                                *)
DrainEventsAtOnce ==
  /\ GoTo("drain", "deregister")
  /\ drained' = "yes"
  /\ UNCHANGED <<stuck, mRun, registryVars, sessionVars, mEventHandler,
                 mEventQueue, mRunThreads, sender, sending, raised, early,
                 handled, dangling, monitor, router>>

DrainEvents ==
  /\ GoTo("drain", "deregister")
  /\ mEventQueue = <<>>
  /\ drained' = "yes"
  /\ UNCHANGED <<stuck, mRun, registryVars, sessionVars, mEventHandler,
                 mEventQueue, mRunThreads, sender, sending, raised, early,
                 handled, dangling, monitor, router>>

(* ...or after DRAIN_EVENTS_TIMEOUT. *)
DrainForever == FALSE
DrainTimeout ==
  /\ GoTo("drain", "deregister")
  /\ mEventQueue # <<>>
  /\ drained' = "timeout"
  /\ UNCHANGED <<stuck, mRun, registryVars, sessionVars, mEventHandler,
                 mEventQueue, mRunThreads, sender, sending, raised, early,
                 handled, dangling, monitor, router>>

(* deregisterNode: nothing to do, ... *)
AlreadyDeregistered ==
  /\ GoTo("deregister", "joinMonitor")
  /\ ~mIsRegistered
  /\ UNCHANGED <<stuck, mRun, registryVars, sessionVars, eventVars, monitor,
                 router>>

(* ...or Coordinator drops the node, ... *)
DeregisterNode ==
  /\ GoTo("deregister", "deregisterConsul")
  /\ mIsRegistered
  /\ coordinator' = FALSE
  /\ UNCHANGED <<stuck, mRun, mIsRegistered, consul, notice, failed,
                 sessionVars, eventVars, monitor, router>>

(* ...or answers with an error, which is only logged, ... *)
DeregisterNodeRefused ==
  /\ GoTo("deregister", "deregisterConsul")
  /\ mIsRegistered
  /\ failed' = TRUE
  /\ UNCHANGED <<stuck, mRun, mIsRegistered, coordinator, consul, notice,
                 sessionVars, eventVars, monitor, router>>

(* ...or cannot be reached: the exception skips Consul. *)
DeregisterNodeThrows ==
  /\ GoTo("deregister", "joinMonitor")
  /\ mIsRegistered
  /\ failed' = TRUE
  /\ mIsRegistered' = FALSE
  /\ UNCHANGED <<stuck, mRun, coordinator, consul, notice, sessionVars,
                 eventVars, monitor, router>>

DeregisterConsul ==
  /\ GoTo("deregisterConsul", "joinMonitor")
  /\ mIsRegistered' = FALSE
  /\ \/ consul' = consul \ {"service", "check"} /\ UNCHANGED failed
     \/ consul' \in {consul, consul \ {"check"}} /\ failed' = TRUE
  /\ UNCHANGED <<stuck, mRun, coordinator, notice, sessionVars, eventVars,
                 monitor, router>>

(* run() has returned, and ~PreemptionMonitor has cleared the mRun of the     *)
(* monitor: it waits for its thread.                                        *)
JoinMonitor ==
  /\ GoTo("joinMonitor", "destroyService")
  /\ monitor \in {"none", "ended"}
  /\ UNCHANGED <<stuck, mRun, registryVars, sessionVars, eventVars, monitor,
                 router>>

(* ~ArrasNode destroys the NodeService first: its event thread ends, and     *)
(* then its HTTP server...                                                 *)
DestroyNodeService ==
  /\ GoTo("destroyService", "joinEvents")
  /\ mRunThreads' = FALSE
  /\ UNCHANGED <<stuck, mRun, registryVars, sessionVars, mEventHandler,
                 mEventQueue, sender, sending, raised, early, handled, drained,
                 dangling, monitor, router>>

JoinEventThread ==
  /\ GoTo("joinEvents", "stopHttp")
  /\ sender = "exited"
  /\ UNCHANGED <<stuck, mRun, registryVars, sessionVars, eventVars, monitor,
                 router>>

StopHttpServer ==
  /\ GoTo("stopHttp", "destroySessions")
  /\ \A r \in Threads : hpc[r] = "idle"
  /\ UNCHANGED <<stuck, mRun, registryVars, sessionVars, eventVars, monitor,
                 router>>

(* ...and only then the ArrasSessions with the controller, which still has    *)
(* a pointer to the NodeService.                                            *)
DestroySessions ==
  /\ GoTo("destroySessions", "exited")
  /\ UNCHANGED <<stuck, mRun, registryVars, sessionVars, eventVars, monitor,
                 router>>
-----------------------------------------------------------------------------
(* Requests to stop.                                                       *)

StopRunning == ~MutexHeld /\ mRun' = FALSE

(* A signal is handled by the main thread.  In run() it needs a mutex that   *)
(* this very thread holds.                                                  *)
TermHandler ==
  /\ main \notin Ending \ {"joinMonitor"}
  /\ IF MutexHeld THEN stuck' = TRUE /\ UNCHANGED mRun
     ELSE mRun' = FALSE /\ UNCHANGED stuck
  /\ UNCHANGED <<main, registryVars, sessionVars, eventVars, monitor, router>>

(* The monitor learns that the machine will be taken away. *)
MonitorPolls ==
  /\ monitor = "polling"
  /\ monitor' = "stop"
  /\ UNCHANGED <<main, stuck, mRun, registryVars, sessionVars, eventVars,
                 router>>

(* After stopRunning it looks at mRun again: another 15 seconds, or its end. *)
MonitorStops ==
  /\ monitor = "stop"
  /\ StopRunning
  /\ monitor' = IF main = "joinMonitor" THEN "ended" ELSE "polling"
  /\ UNCHANGED <<main, stuck, registryVars, sessionVars, eventVars, router>>

(* Within 15 seconds it sees that its destructor has begun. *)
MonitorEnds ==
  /\ monitor = "polling" /\ main = "joinMonitor"
  /\ monitor' = "ended"
  /\ UNCHANGED <<main, stuck, mRun, registryVars, sessionVars, eventVars,
                 router>>
-----------------------------------------------------------------------------
(* HTTP threads.                                                           *)

(* PUT status "shutdown" *)
SetStatusShutdown(r) ==
  /\ Serving /\ hpc[r] = "idle"
  /\ hpc' = [hpc EXCEPT ![r] = "stop"]
  /\ UNCHANGED <<main, stuck, mRun, registryVars, mClosed, session, mSessions,
                 toShut, hsession, late, eventVars, monitor, router>>

RequestStops(r) ==
  /\ hpc[r] = "stop"
  /\ StopRunning
  /\ hpc' = [hpc EXCEPT ![r] = "idle"]
  /\ UNCHANGED <<main, stuck, registryVars, mClosed, session, mSessions, toShut,
                 hsession, late, eventVars, monitor, router>>

(* PUT status "close" *)
SetStatusClosedUnregisters(r) ==
  /\ Serving /\ hpc[r] = "idle"
  /\ mClosed' = TRUE
  /\ mIsRegistered' = FALSE
  /\ UNCHANGED <<main, stuck, mRun, coordinator, consul, notice, failed,
                 session, mSessions, toShut, hpc, hsession, late, eventVars,
                 monitor, router>>

SetStatusClosed(r) ==
  /\ Serving /\ hpc[r] = "idle"
  /\ mClosed' = TRUE
  /\ UNCHANGED <<main, stuck, mRun, registryVars, session, mSessions, toShut,
                 hpc, hsession, late, eventVars, monitor, router>>

(* Coordinator drops the node by itself... *)
CoordinatorDropsNode ==
  /\ coordinator
  /\ coordinator' = FALSE
  /\ notice' = TRUE
  /\ UNCHANGED <<main, stuck, mRun, mIsRegistered, consul, failed, sessionVars,
                 eventVars, monitor, router>>

(* ...and says so: PUT status "unregistered". *)
SetStatusUnregistered(r) ==
  /\ Serving /\ hpc[r] = "idle"
  /\ notice
  /\ notice' = FALSE
  /\ mIsRegistered' = FALSE
  /\ UNCHANGED <<main, stuck, mRun, coordinator, consul, failed, sessionVars,
                 eventVars, monitor, router>>

(* createSession: mClosed is read before mSessionsMutex is taken, ... *)
CreateSession(r, s) ==
  /\ Serving /\ hpc[r] = "idle"
  /\ ~mClosed
  /\ session[s] = "none" /\ \A q \in Threads : hsession[q] # s
  /\ hpc' = [hpc EXCEPT ![r] = "insert"]
  /\ hsession' = [hsession EXCEPT ![r] = s]
  /\ UNCHANGED <<main, stuck, mRun, registryVars, mClosed, session, mSessions,
                 toShut, late, eventVars, monitor, router>>

InsertSession(r) ==
  /\ hpc[r] = "insert" /\ main # "shutdown"
  /\ session' = [session EXCEPT ![hsession[r]] = "inserted"]
  /\ mSessions' = mSessions \cup {hsession[r]}
  /\ late' = IF main \in {"drain", "deregister", "deregisterConsul"} \cup Ending
             THEN late \cup {hsession[r]} ELSE late
  /\ hpc' = [hpc EXCEPT ![r] = "update"]
  /\ UNCHANGED <<main, stuck, mRun, registryVars, mClosed, toShut, hsession,
                 eventVars, monitor, router>>

Answer(r) ==
  /\ hpc' = [hpc EXCEPT ![r] = "idle"]
  /\ hsession' = [hsession EXCEPT ![r] = NoOne]

(* The create fails, and takes its session out of the map as it is: with      *)
(* what a modify has begun on it.  Only the creator erases a session, so      *)
(* that the id is still its own.                                           *)
EraseSession(r) ==
  /\ main # "shutdown"
  /\ mSessions' = mSessions \ {hsession[r]}
  /\ Answer(r)
  /\ UNCHANGED <<main, stuck, mRun, registryVars, mClosed, session, toShut,
                 late, eventVars, monitor, router>>

(* ...then initializeSession may fail, ... *)
InitializeSessionFails(r) == hpc[r] = "update" /\ EraseSession(r)

(* ...or asyncUpdateConfig starts the computations: the session is Free, or   *)
(* Free again after a modify, ...                                          *)
StartComputationsAnyway(r) ==
  /\ hpc[r] = "update"
  /\ session' = [session EXCEPT ![hsession[r]] = "live"]
  /\ Answer(r)
  /\ UNCHANGED <<main, stuck, mRun, registryVars, mClosed, mSessions, toShut,
                 late, eventVars, monitor, router>>

StartComputations(r) ==
  /\ hpc[r] = "update"
  /\ session[hsession[r]] \in {"inserted", "live"}
  /\ session' = [session EXCEPT ![hsession[r]] = "live"]
  /\ Answer(r)
  /\ UNCHANGED <<main, stuck, mRun, registryVars, mClosed, mSessions, toShut,
                 late, eventVars, monitor, router>>

(* ...or throws, because a modify keeps the session Busy or because it has    *)
(* been shut down or deleted in the meantime.                               *)
StartRefused(r) ==
  /\ hpc[r] = "update" /\ session[hsession[r]] \in {"live", "down"}
  /\ EraseSession(r)

(* modifySession: mClosed is read first, ... *)
ModifySession(r) ==
  /\ Serving /\ hpc[r] = "idle"
  /\ ~mClosed
  /\ hpc' = [hpc EXCEPT ![r] = "find"]
  /\ UNCHANGED <<main, stuck, mRun, registryVars, mClosed, session, mSessions,
                 toShut, hsession, late, eventVars, monitor, router>>

(* ...the session is looked up under mSessionsMutex, ... *)
FindSession(r, s) ==
  /\ hpc[r] = "find" /\ main # "shutdown"
  /\ s \in mSessions
  /\ hpc' = [hpc EXCEPT ![r] = "apply"]
  /\ hsession' = [hsession EXCEPT ![r] = s]
  /\ UNCHANGED <<main, stuck, mRun, registryVars, mClosed, session, mSessions,
                 toShut, late, eventVars, monitor, router>>

SessionNotFound(r) ==
  /\ hpc[r] = "find" /\ main # "shutdown"
  /\ Answer(r)
  /\ UNCHANGED <<main, stuck, mRun, registryVars, mClosed, session, mSessions,
                 toShut, late, eventVars, monitor, router>>

(* ...and asyncUpdateConfig is called with no mutex, on a session that may    *)
(* have been erased or shut down meanwhile.  On one that has computations it   *)
(* starts or is refused, and on one that is down it is refused.              *)
ModifyComputations(r) ==
  /\ hpc[r] = "apply"
  /\ session' = [session EXCEPT ![hsession[r]] = IF @ = "inserted" THEN "live" ELSE @]
  /\ Answer(r)
  /\ UNCHANGED <<main, stuck, mRun, registryVars, mClosed, mSessions, toShut,
                 late, eventVars, monitor, router>>

DeleteSession(r, s) ==
  /\ Serving /\ hpc[r] = "idle" /\ main # "shutdown"
  /\ s \in mSessions /\ session[s] \in {"inserted", "live"}
  /\ session' = [session EXCEPT ![s] = "down"]
  /\ UNCHANGED <<main, stuck, mRun, registryVars, mClosed, mSessions, toShut,
                 hpc, hsession, late, eventVars, monitor, router>>
-----------------------------------------------------------------------------
(* Events: ArrasController::handleEvent and NodeService::sendEventsProc.     *)

(* An event that is raised before setEventHandler is dropped. *)
HandleEvent(e) ==
  LET alive == main \notin {"destroySessions", "exited"} IN
  /\ mEventQueue' = IF mEventHandler /\ alive THEN Append(mEventQueue, e)
                    ELSE mEventQueue
  /\ early' = IF mEventHandler /\ drained = "no" /\ alive THEN early \cup {e}
              ELSE early
  /\ dangling' = (dangling \/ (mEventHandler /\ ~alive))

(* A computation ends, the client leaves, an operation fails... *)
SessionEvent(s) ==
  /\ session[s] = "live" /\ s \notin raised /\ main # "exited"
  /\ raised' = raised \cup {s}
  /\ HandleEvent(s)
  /\ UNCHANGED <<main, stuck, mRun, registryVars, sessionVars, mEventHandler,
                 mRunThreads, sender, sending, handled, drained, monitor,
                 router>>

(* onDispatcherExit *)
OnDispatcherExit ==
  /\ router = "up" /\ main # "exited"
  /\ router' = "lost"
  /\ HandleEvent(RouterLost)
  /\ UNCHANGED <<main, stuck, mRun, registryVars, sessionVars, mEventHandler,
                 mRunThreads, sender, sending, raised, handled, drained,
                 monitor>>

(* while (mRunThreads) *)
SendEventsLoop ==
  /\ sender = "loop"
  /\ sender' = IF mRunThreads THEN "pop" ELSE "exited"
  /\ UNCHANGED <<main, stuck, mRun, registryVars, sessionVars, mEventHandler,
                 mEventQueue, mRunThreads, sending, raised, early, handled,
                 drained, dangling, monitor, router>>

PopEvent ==
  /\ sender = "pop" /\ mEventQueue # <<>>
  /\ sending' = Head(mEventQueue)
  /\ mEventQueue' = Tail(mEventQueue)
  /\ sender' = "send"
  /\ UNCHANGED <<main, stuck, mRun, registryVars, sessionVars, mEventHandler,
                 mRunThreads, raised, early, handled, drained, dangling,
                 monitor, router>>

(* The destructor has shut the queue down. *)
PopThrows ==
  /\ sender = "pop" /\ ~mRunThreads
  /\ sender' = "loop"
  /\ UNCHANGED <<main, stuck, mRun, registryVars, sessionVars, mEventHandler,
                 mEventQueue, mRunThreads, sending, raised, early, handled,
                 drained, dangling, monitor, router>>

SentAfterReset ==
  /\ sender = "send"
  /\ sending' = NoOne
  /\ handled' = handled \cup {sending'}
  /\ sender' = "loop"
  /\ UNCHANGED <<main, stuck, registryVars, sessionVars, mEventHandler,
                 mEventQueue, mRunThreads, raised, early, drained, dangling,
                 monitor, router>>

Sent ==
  /\ sender = "send"
  /\ handled' = handled \cup {sending}
  /\ sending' = NoOne
  /\ sender' = "loop"
  /\ UNCHANGED <<main, stuck, registryVars, sessionVars, mEventHandler,
                 mEventQueue, mRunThreads, raised, early, drained, dangling,
                 monitor, router>>

(* An event of a session goes to Coordinator; an error is logged. *)
SendEvent == sending \in Sessions /\ Sent /\ UNCHANGED mRun

(* notifyShutdownWithError *)
NotifyShutdownWithError == sending = RouterLost /\ Sent /\ StopRunning
-----------------------------------------------------------------------------
MainStep ==
  \/ RegisterConsul \/ RegisterConsulFails \/ RegisterNode \/ RegisterNodeFails
  \/ UpdateNodeInfo \/ UpdateNodeInfoFails \/ SetEventHandler \/ StartMonitor
  \/ Run \/ Wait \/ Woken \/ Close \/ LockSessions
  \/ \E s \in Sessions : SyncShutdown(s) \/ SyncShutdownGivesUp(s)
  \/ SessionsShutDown \/ DrainEvents \/ DrainTimeout
  \/ AlreadyDeregistered \/ DeregisterNode \/ DeregisterNodeRefused
  \/ DeregisterNodeThrows \/ DeregisterConsul \/ JoinMonitor
  \/ DestroyNodeService \/ JoinEventThread \/ StopHttpServer \/ DestroySessions

EventThread ==
  SendEventsLoop \/ PopEvent \/ PopThrows \/ SendEvent \/ NotifyShutdownWithError

RequestStep(r) ==
  \/ RequestStops(r) \/ InsertSession(r) \/ InitializeSessionFails(r)
  \/ StartComputations(r) \/ StartRefused(r)

ModifyStep(r) ==
  \/ SessionNotFound(r) \/ ModifyComputations(r)
  \/ \E s \in Sessions : FindSession(r, s)

Request(r) ==
  \/ SetStatusShutdown(r) \/ SetStatusClosed(r) \/ SetStatusUnregistered(r)
  \/ \E s \in Sessions : CreateSession(r, s) \/ DeleteSession(r, s)

Next ==
  \/ MainStep \/ EventThread \/ TermHandler \/ CoordinatorDropsNode
  \/ MonitorPolls \/ MonitorStops \/ MonitorEnds \/ OnDispatcherExit
  \/ \E r \in Reqs : Request(r) \/ RequestStep(r)
  \/ \E r \in Modifiers : ModifySession(r) \/ ModifyStep(r)
  \/ \E s \in Sessions : SessionEvent(s)

Spec == Init /\ [][Next]_vars

(* Threads run, and calls to Coordinator and Consul return.  Nobody owes a   *)
(* request, a signal or an event.                                           *)
FairSpec ==
  /\ Spec
  /\ WF_vars(MainStep) /\ WF_vars(EventThread)
  /\ WF_vars(MonitorEnds) /\ WF_vars(MonitorStops)
  /\ \A r \in Reqs : WF_vars(RequestStep(r))
  /\ \A r \in Modifiers : WF_vars(ModifyStep(r))
-----------------------------------------------------------------------------
(* Past shutdownAll, of the sessions that are in the map only one that it      *)
(* could not stop, or one that entered the map after its loop, has              *)
(* computations: neither the creates nor the modifies that were under way slip  *)
(* past mSessionsMutex and mClosed.  It says nothing of a session that a modify  *)
(* made live before its own create failed and erased it from the map            *)
(* (ArrasSessions.cc:161 and 181): shutdownAll does not see that one, and its    *)
(* computations go on.                                                       *)
ShutdownAllComplete ==
  main \in {"drain", "deregister", "deregisterConsul"}
    => \A s \in mSessions : session[s] = "live" => s \in late

(* Unless drainEvents times out, the node does not exit before every event   *)
(* that was queued until then has been sent, the one in flight included.     *)
EventsNotDropped == main = "exited" /\ drained = "yes" => early \subseteq handled

(* A node that ran and exits is no longer in Coordinator, whichever of them  *)
(* ended the registration first, if the calls of the node succeed.          *)
DeregisteredAtExit ==
  main = "exited" /\ drained # "no" /\ ~failed => ~coordinator

(* A node that runs and is asked to stop exits, though the threads that it   *)
(* waits for may be waiting for mRunMutex, which it holds; only a second     *)
(* signal, handled by the main thread itself, may hang it.                  *)
StopHonoured == (main = "waiting" /\ ~mRun) ~> (main = "exited" \/ stuck)

(* "Lost router connection: arras node should shut down"                    *)
(* (ArrasController.cc:134).                                                *)
LostRouterStops == router = "lost" ~> (main = "exited" \/ stuck)
=============================================================================
