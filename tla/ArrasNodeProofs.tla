--------------------------- MODULE ArrasNodeProofs ---------------------------
(***************************************************************************)
(* What a node leaves behind when it stops, for any number of HTTP threads  *)
(* and sessions: no computation of a session that shutdownAll saw, no event  *)
(* that was queued in time, no entry in Coordinator.                        *)
(***************************************************************************)
EXTENDS ArrasNode, Integers, TLAPS

Running(s) == session[s] \in {"inserted", "live"}

(* A request between two steps of createSession or modifySession has its      *)
(* session.                                                                *)
TypeInv ==
  /\ TypeOK
  /\ \A r \in Threads :
       hpc[r] \in {"insert", "update", "apply"} => hsession[r] \in Sessions

(* Under mSessionsMutex every session of the map that may still have           *)
(* computations is one that shutdownAll has to visit, or one that it gave up;  *)
(* a session that is only inserted counts, for neither its creator nor a        *)
(* modify needs a mutex to start it.                                         *)
ShutdownInv ==
  /\ main = "shutdown" =>
       \A s \in mSessions : Running(s) => s \in toShut \cup late
  /\ main \in {"drain", "deregister", "deregisterConsul"} =>
       \A s \in mSessions : Running(s) => s \in late

Queued(e) == \E i \in 1..Len(mEventQueue) : mEventQueue[i] = e
InFlight(e) == sender = "send" /\ sending = e

(* An event that was queued before drainEvents returned is on its way or      *)
(* done; when drainEvents found the queue empty only the one in flight is     *)
(* left, and the event thread ends between two events.                      *)
EventInv ==
  /\ \A e \in early : e \in handled \/ Queued(e) \/ InFlight(e)
  /\ drained = "yes" => \A e \in early : e \in handled \/ InFlight(e)
  /\ main \in {"stopHttp", "destroySessions", "exited"} => sender = "exited"

(* The node believes that it is registered whenever it is in Coordinator,    *)
(* from the end of registerNode to deregisterNode.                          *)
Registered ==
  {"setHandler", "startMonitor", "start", "run", "waiting", "close", "lock",
   "shutdown", "drain", "deregister"}
RegistryInv ==
  /\ main \in {"registerConsul", "registerNode"} => ~coordinator /\ ~notice
  /\ notice => ~coordinator
  /\ main \in Registered => (coordinator => mIsRegistered)
  /\ main \in {"deregisterConsul"} \cup Ending /\ ~failed => ~coordinator

(* Every step keeps the types. *)
LEMMA TypeKept == TypeInv /\ [Next]_vars => TypeInv'
<1> SUFFICES ASSUME TypeInv, [Next]_vars PROVE TypeInv'
  OBVIOUS
<1> USE DEF TypeInv, TypeOK, Threads, Starting, Cleaning, Ending, registryVars,
            sessionVars, eventVars
<1>1. CASE RegisterConsul
  BY <1>1 DEF RegisterConsul, GoTo
<1>2. CASE RegisterConsulFails
  BY <1>2 DEF RegisterConsulFails, InitializeFails, GoTo
<1>3. CASE RegisterNode
  BY <1>3 DEF RegisterNode, GoTo
<1>4. CASE RegisterNodeFails
  BY <1>4 DEF RegisterNodeFails, InitializeFails, GoTo
<1>5. CASE UpdateNodeInfo
  BY <1>5 DEF UpdateNodeInfo, GoTo
<1>6. CASE UpdateNodeInfoFails
  BY <1>6 DEF UpdateNodeInfoFails, InitializeFails, GoTo
<1>7. CASE SetEventHandler
  BY <1>7 DEF SetEventHandler, GoTo
<1>8. CASE StartMonitor
  BY <1>8 DEF StartMonitor, GoTo
<1>9. CASE Run
  BY <1>9 DEF Run, GoTo
<1>10. CASE Wait
  BY <1>10 DEF Wait, GoTo
<1>11. CASE Woken
  BY <1>11 DEF Woken, GoTo
<1>12. CASE Close
  BY <1>12 DEF Close, GoTo
<1>13. CASE LockSessions
  BY <1>13 DEF LockSessions, GoTo
<1>14. CASE SessionsShutDown
  BY <1>14 DEF SessionsShutDown, GoTo
<1>15. CASE DrainEvents
  BY <1>15 DEF DrainEvents, GoTo
<1>16. CASE DrainTimeout
  BY <1>16 DEF DrainTimeout, GoTo
<1>17. CASE AlreadyDeregistered
  BY <1>17 DEF AlreadyDeregistered, GoTo
<1>18. CASE DeregisterNode
  <2>1. coordinator' \in BOOLEAN
    BY <1>18 DEF DeregisterNode, GoTo
  <2> QED
    BY <1>18, <2>1 DEF DeregisterNode, GoTo
<1>19. CASE DeregisterNodeRefused
  BY <1>19 DEF DeregisterNodeRefused, GoTo
<1>20. CASE DeregisterNodeThrows
  <2>1. mIsRegistered' \in BOOLEAN
    BY <1>20 DEF DeregisterNodeThrows, GoTo
  <2> QED
    BY <1>20, <2>1 DEF DeregisterNodeThrows, GoTo
<1>21. CASE DeregisterConsul
  <2>1. mIsRegistered' \in BOOLEAN /\ failed' \in BOOLEAN
    BY <1>21 DEF DeregisterConsul, GoTo
  <2>2. consul' \subseteq {"service", "check", "info"} /\ main' = "joinMonitor"
    BY <1>21 DEF DeregisterConsul, GoTo
  <2>3. UNCHANGED <<stuck, mRun, coordinator, notice, sessionVars,
     eventVars, monitor,
                    router>>
    BY <1>21 DEF DeregisterConsul
  <2> QED
    BY <2>1, <2>2, <2>3
<1>23. CASE JoinMonitor
  BY <1>23 DEF JoinMonitor, GoTo
<1>24. CASE DestroyNodeService
  <2>1. mRunThreads' \in BOOLEAN
    BY <1>24 DEF DestroyNodeService, GoTo
  <2> QED
    BY <1>24, <2>1 DEF DestroyNodeService, GoTo
<1>25. CASE JoinEventThread
  BY <1>25 DEF JoinEventThread, GoTo
<1>26. CASE StopHttpServer
  BY <1>26 DEF StopHttpServer, GoTo
<1>27. CASE DestroySessions
  BY <1>27 DEF DestroySessions, GoTo
<1>28. ASSUME NEW s \in Sessions, SyncShutdown(s) PROVE TypeInv'
  BY <1>28 DEF SyncShutdown
<1>29. ASSUME NEW s \in Sessions, SyncShutdownGivesUp(s) PROVE TypeInv'
  BY <1>29 DEF SyncShutdownGivesUp
<1>30. CASE SendEventsLoop
  BY <1>30 DEF SendEventsLoop
<1>31. CASE PopEvent
  BY <1>31 DEF PopEvent
<1>32. CASE PopThrows
  BY <1>32 DEF PopThrows
<1>33. CASE SendEvent
  BY <1>33 DEF SendEvent, Sent
<1>34. CASE NotifyShutdownWithError
  <2>1. mRun' \in BOOLEAN
    BY <1>34 DEF NotifyShutdownWithError, Sent, StopRunning
  <2> QED
    BY <1>34, <2>1 DEF NotifyShutdownWithError, Sent, StopRunning
<1>35. CASE TermHandler
  <2>1. mRun' \in BOOLEAN /\ stuck' \in BOOLEAN
    BY <1>35 DEF TermHandler
  <2> QED
    BY <1>35, <2>1 DEF TermHandler
<1>36. CASE CoordinatorDropsNode
  <2>1. coordinator' \in BOOLEAN /\ notice' \in BOOLEAN
    BY <1>36 DEF CoordinatorDropsNode
  <2> QED
    BY <1>36, <2>1 DEF CoordinatorDropsNode
<1>37. CASE MonitorPolls
  BY <1>37 DEF MonitorPolls
<1>38. CASE MonitorStops
  <2>1. mRun' \in BOOLEAN
    BY <1>38 DEF MonitorStops, StopRunning
  <2> QED
    BY <1>38, <2>1 DEF MonitorStops, StopRunning
<1>39. CASE MonitorEnds
  BY <1>39 DEF MonitorEnds
<1>40. CASE OnDispatcherExit
  BY <1>40 DEF OnDispatcherExit, HandleEvent
<1>41. ASSUME NEW r \in Reqs, SetStatusShutdown(r) PROVE TypeInv'
  BY <1>41 DEF SetStatusShutdown
<1>42. ASSUME NEW r \in Reqs, SetStatusClosed(r) PROVE TypeInv'
  BY <1>42 DEF SetStatusClosed
<1>43. ASSUME NEW r \in Reqs, SetStatusUnregistered(r) PROVE TypeInv'
  <2>1. notice' \in BOOLEAN /\ mIsRegistered' \in BOOLEAN
    BY <1>43 DEF SetStatusUnregistered
  <2> QED
    BY <1>43, <2>1 DEF SetStatusUnregistered
<1>44. ASSUME NEW r \in Reqs, RequestStops(r) PROVE TypeInv'
  <2>1. mRun' \in BOOLEAN
    BY <1>44 DEF RequestStops, StopRunning
  <2> QED
    BY <1>44, <2>1 DEF RequestStops, StopRunning
<1>45. ASSUME NEW r \in Reqs, InsertSession(r) PROVE TypeInv'
  BY <1>45 DEF InsertSession
<1>46. ASSUME NEW r \in Reqs, InitializeSessionFails(r) PROVE TypeInv'
  BY <1>46 DEF InitializeSessionFails, EraseSession, Answer
<1>47. ASSUME NEW r \in Reqs, StartComputations(r) PROVE TypeInv'
  BY <1>47 DEF StartComputations, Answer
<1>48. ASSUME NEW r \in Reqs, StartRefused(r) PROVE TypeInv'
  BY <1>48 DEF StartRefused, EraseSession, Answer
<1>49. ASSUME NEW r \in Reqs, NEW s \in Sessions, CreateSession(r, s) PROVE
   TypeInv'
  BY <1>49 DEF CreateSession
<1>50. ASSUME NEW r \in Reqs, NEW s \in Sessions, DeleteSession(r, s) PROVE
   TypeInv'
  BY <1>50 DEF DeleteSession
<1>51. ASSUME NEW s \in Sessions, SessionEvent(s) PROVE TypeInv'
  BY <1>51 DEF SessionEvent, HandleEvent
<1>52. CASE UNCHANGED vars
  BY <1>52 DEF vars
<1>53. ASSUME NEW r \in Modifiers, ModifySession(r) PROVE TypeInv'
  BY <1>53 DEF ModifySession
<1>54. ASSUME NEW r \in Modifiers, NEW s \in Sessions, FindSession(r, s) PROVE TypeInv'
  BY <1>54 DEF FindSession
<1>55. ASSUME NEW r \in Modifiers, SessionNotFound(r) PROVE TypeInv'
  BY <1>55 DEF SessionNotFound, Answer
<1>56. ASSUME NEW r \in Modifiers, ModifyComputations(r) PROVE TypeInv'
  BY <1>56 DEF ModifyComputations, Answer
<1> QED
  BY <1>1, <1>2, <1>3, <1>4, <1>5, <1>6, <1>7, <1>8, <1>9, <1>10, <1>11,
     <1>12, <1>13, <1>14, <1>15, <1>16, <1>17, <1>18, <1>19, <1>20, <1>21,
     <1>23, <1>24, <1>25, <1>26, <1>27, <1>28, <1>29, <1>30, <1>31,
     <1>32, <1>33, <1>34, <1>35, <1>36, <1>37, <1>38, <1>39, <1>40, <1>41,
     <1>42, <1>43, <1>44, <1>45, <1>46, <1>47, <1>48, <1>49, <1>50, <1>51,
     <1>52, <1>53, <1>54, <1>55, <1>56
     DEF Next, MainStep, EventThread, Request, RequestStep, ModifyStep

LEMMA TypeInit == Init => TypeInv
<1> SUFFICES ASSUME Init PROVE TypeInv
  OBVIOUS
<1>1. /\ stuck \in BOOLEAN /\ mRun \in BOOLEAN /\ mIsRegistered \in BOOLEAN
      /\ coordinator \in BOOLEAN /\ notice \in BOOLEAN /\ mClosed \in BOOLEAN
      /\ mEventHandler \in BOOLEAN /\ mRunThreads \in BOOLEAN
      /\ failed \in BOOLEAN /\ dangling \in BOOLEAN
  BY DEF Init
<1>2. TypeOK
  BY <1>1 DEF Init, TypeOK, Threads, Starting
<1>3. \A r \in Threads : hpc[r] = "idle"
  BY DEF Init
<1> QED
  BY <1>2, <1>3 DEF TypeInv

(* Every variable keeps its type, and an HTTP thread between two steps of     *)
(* createSession or modifySession has a session (TypeInv).                   *)
THEOREM TypeCorrect == Spec => []TypeOK
<1>1. TypeInv => TypeOK
  BY DEF TypeInv
<1> QED
  BY <1>1, TypeInit, TypeKept, PTL DEF Spec
-----------------------------------------------------------------------------
(* Only these threads touch what shutdownAll looks at, and only these steps   *)
(* lead into or along it; whatever else is done leaves ShutdownInv alone.    *)
LEMMA ShutdownAside ==
  ASSUME ShutdownInv, UNCHANGED <<session, mSessions, late>>,
         \/ main' \notin {"shutdown", "drain", "deregister", "deregisterConsul"}
         \/ main' = main /\ toShut' = toShut
         \/ {main, main'} \subseteq {"drain", "deregister", "deregisterConsul"}
  PROVE  ShutdownInv'
BY DEF ShutdownInv, Running

LEMMA ShutdownKept == TypeInv /\ ShutdownInv /\ [Next]_vars => ShutdownInv'
<1> SUFFICES ASSUME TypeInv, ShutdownInv, [Next]_vars PROVE ShutdownInv'
  OBVIOUS
<1>t. /\ session \in [Sessions -> {"none", "inserted", "live", "down"}]
      /\ hsession \in [Threads -> Sessions \cup {NoOne}] /\ mSessions \subseteq Sessions
      /\ \A r \in Reqs \cup Modifiers : r \in Threads
  BY DEF TypeInv, TypeOK, Threads
<1>1. CASE LockSessions
  BY <1>1, <1>t DEF LockSessions, GoTo, ShutdownInv, Running
<1>2. ASSUME NEW s \in Sessions, SyncShutdown(s) PROVE ShutdownInv'
  <2>1. /\ main = "shutdown" /\ main' = main /\ late' = late
        /\ toShut' = toShut \ {s} /\ mSessions' = mSessions
        /\ \A t \in Sessions : session'[t] = IF t = s THEN "down" ELSE session[t]
    BY <1>2, <1>t DEF SyncShutdown
  <2> QED
    BY <1>t, <2>1 DEF ShutdownInv, Running
<1>3. ASSUME NEW s \in Sessions, SyncShutdownGivesUp(s) PROVE ShutdownInv'
  BY <1>3 DEF SyncShutdownGivesUp, ShutdownInv, Running
<1>4. CASE SessionsShutDown
  BY <1>4 DEF SessionsShutDown, GoTo, sessionVars, ShutdownInv, Running
<1>5. ASSUME NEW r \in Reqs, InsertSession(r) PROVE ShutdownInv'
  <2>1. /\ main # "shutdown" /\ main' = main /\ toShut' = toShut
        /\ mSessions' = mSessions \cup {hsession[r]}
        /\ late' = IF main \in {"drain", "deregister", "deregisterConsul"} \cup Ending
                   THEN late \cup {hsession[r]} ELSE late
    BY <1>5 DEF InsertSession
  <2>2. \A t \in mSessions : t # hsession[r] => session'[t] = session[t]
    BY <1>5, <1>t DEF InsertSession
  <2> QED
    BY <2>1, <2>2 DEF ShutdownInv, Running
<1>6. ASSUME NEW r \in Reqs, InitializeSessionFails(r) \/ StartRefused(r)
      PROVE  ShutdownInv'
  <2>1. /\ UNCHANGED <<main, toShut, late, session>> /\ mSessions' \subseteq mSessions
    BY <1>6 DEF InitializeSessionFails, StartRefused, EraseSession
  <2> QED
    BY <2>1 DEF ShutdownInv, Running
<1>7. ASSUME NEW r \in Reqs, StartComputations(r) PROVE ShutdownInv'
  <2>1. /\ UNCHANGED <<main, toShut, late, mSessions>>
        /\ \A t \in Sessions : session'[t] = session[t] \/ Running(t)
    BY <1>7, <1>t DEF StartComputations, Running
  <2> QED
    BY <1>t, <2>1 DEF ShutdownInv, Running
<1>8. ASSUME NEW r \in Modifiers, ModifyComputations(r) PROVE ShutdownInv'
  <2>1. /\ UNCHANGED <<main, toShut, late, mSessions>>
        /\ \A t \in Sessions : session'[t] = session[t] \/ Running(t)
    BY <1>8, <1>t DEF ModifyComputations, Running
  <2> QED
    BY <1>t, <2>1 DEF ShutdownInv, Running
<1>9. ASSUME NEW r \in Reqs, NEW s \in Sessions, DeleteSession(r, s)
      PROVE  ShutdownInv'
  <2>1. /\ UNCHANGED <<main, toShut, late, mSessions>>
        /\ \A t \in Sessions : session'[t] \in {session[t], "down"}
    BY <1>9, <1>t DEF DeleteSession
  <2> QED
    BY <1>t, <2>1 DEF ShutdownInv, Running
<1>10. CASE \/ RegisterConsul \/ RegisterConsulFails \/ RegisterNode
            \/ RegisterNodeFails \/ UpdateNodeInfo \/ UpdateNodeInfoFails
            \/ SetEventHandler \/ StartMonitor \/ Run \/ Wait \/ Woken
            \/ AlreadyDeregistered \/ DeregisterNodeThrows \/ DeregisterConsul
            \/ JoinMonitor \/ DestroyNodeService
            \/ JoinEventThread \/ StopHttpServer \/ DestroySessions
  BY <1>10, ShutdownAside
     DEF RegisterConsul, RegisterConsulFails, RegisterNode, RegisterNodeFails,
         UpdateNodeInfo, UpdateNodeInfoFails, SetEventHandler, StartMonitor, Run,
         Wait, Woken, AlreadyDeregistered, DeregisterNodeThrows, DeregisterConsul,
         JoinMonitor, DestroyNodeService, JoinEventThread,
         StopHttpServer, DestroySessions, GoTo, InitializeFails, sessionVars
<1>11. CASE Close
  BY <1>11, ShutdownAside DEF Close, GoTo
<1>12. CASE DrainEvents \/ DrainTimeout \/ DeregisterNode \/ DeregisterNodeRefused
  BY <1>12, ShutdownAside
     DEF DrainEvents, DrainTimeout, DeregisterNode, DeregisterNodeRefused, GoTo,
         sessionVars
<1>13. CASE EventThread
  BY <1>13, ShutdownAside
     DEF EventThread, SendEventsLoop, PopEvent, PopThrows, SendEvent,
         NotifyShutdownWithError, Sent, sessionVars
<1>14. CASE \/ TermHandler \/ CoordinatorDropsNode \/ MonitorPolls \/ MonitorStops
            \/ MonitorEnds \/ OnDispatcherExit \/ UNCHANGED vars
  BY <1>14, ShutdownAside
     DEF TermHandler, CoordinatorDropsNode, MonitorPolls, MonitorStops, MonitorEnds,
         OnDispatcherExit, vars, sessionVars
<1>15. ASSUME NEW r \in Reqs,
              SetStatusShutdown(r) \/ SetStatusClosed(r) \/ SetStatusUnregistered(r)
                \/ RequestStops(r)
       PROVE  ShutdownInv'
  BY <1>15, ShutdownAside
     DEF SetStatusShutdown, SetStatusClosed, SetStatusUnregistered, RequestStops,
         sessionVars
<1>16. ASSUME NEW r \in Reqs, NEW s \in Sessions, CreateSession(r, s)
       PROVE  ShutdownInv'
  BY <1>16, ShutdownAside DEF CreateSession
<1>17. ASSUME NEW s \in Sessions, SessionEvent(s) PROVE ShutdownInv'
  BY <1>17, ShutdownAside DEF SessionEvent, sessionVars
<1>18. ASSUME NEW r \in Modifiers,
              ModifySession(r) \/ SessionNotFound(r) \/ \E s \in Sessions : FindSession(r, s)
       PROVE  ShutdownInv'
  BY <1>18, ShutdownAside DEF ModifySession, SessionNotFound, FindSession
<1> QED
  BY <1>1, <1>2, <1>3, <1>4, <1>5, <1>6, <1>7, <1>8, <1>9, <1>10, <1>11, <1>12,
     <1>13, <1>14, <1>15, <1>16, <1>17, <1>18
     DEF Next, MainStep, Request, RequestStep, ModifyStep

(* When run() comes out of shutdownAll, the sessions of the map with            *)
(* computations are those whose shutdown threw and those inserted after its     *)
(* loop: no create and no modify that was under way slips past mSessionsMutex.  *)
(* A session that its own create has erased is out of the map, and the theorem   *)
(* says nothing of it: if a modify has started its computations, they go on.     *)
THEOREM SessionsAlwaysShutDown == Spec => []ShutdownAllComplete
<1>1. Init => ShutdownInv
  BY DEF Init, ShutdownInv
<1>2. ShutdownInv => ShutdownAllComplete
  BY DEF ShutdownInv, ShutdownAllComplete, Running
<1> QED
  BY <1>1, <1>2, TypeInit, TypeKept, ShutdownKept, PTL DEF Spec
-----------------------------------------------------------------------------
(* A step that leaves the queue, the event thread and the histories alone    *)
(* and does not pass the join of the event thread.                          *)
LEMMA EventAside ==
  ASSUME EventInv, UNCHANGED <<mEventQueue, sender, sending, early, handled, drained>>,
         main' = main \/ main' \notin {"stopHttp", "destroySessions", "exited"}
           \/ sender = "exited"
  PROVE  EventInv'
BY DEF EventInv, Queued, InFlight

(* ArrasController::handleEvent: what it adds to early it adds to the queue. *)
LEMMA EventAdded ==
  ASSUME TypeInv, EventInv, NEW e \in Sessions \cup {RouterLost}, HandleEvent(e),
         UNCHANGED <<main, sender, sending, handled, drained>>
  PROVE  EventInv'
<1>1. mEventQueue \in Seq(Sessions \cup {RouterLost})
  BY DEF TypeInv, TypeOK
<1>2. CASE mEventQueue' = mEventQueue /\ early' = early
  BY <1>2 DEF EventInv, Queued, InFlight
<1>3. CASE /\ mEventQueue' = Append(mEventQueue, e)
           /\ early' = IF drained = "no" THEN early \cup {e} ELSE early
  <2>1. /\ Len(mEventQueue') = Len(mEventQueue) + 1 /\ Len(mEventQueue) \in Nat
        /\ \A i \in 1..Len(mEventQueue) : mEventQueue'[i] = mEventQueue[i]
        /\ mEventQueue'[Len(mEventQueue) + 1] = e
    BY <1>1, <1>3
  <2>2. \A f : Queued(f) => Queued(f)'
    BY <2>1 DEF Queued
  <2>3. Queued(e)'
    BY <2>1 DEF Queued
  <2>4. \A f : InFlight(f)' <=> InFlight(f)
    BY DEF InFlight
  <2>5. \A f \in early' : f \in early \/ f = e
    BY <1>3
  <2> QED
    BY <1>3, <2>2, <2>3, <2>4, <2>5 DEF EventInv
<1> QED
  BY <1>2, <1>3 DEF HandleEvent

LEMMA EventKept == TypeInv /\ EventInv /\ [Next]_vars => EventInv'
<1> SUFFICES ASSUME TypeInv, EventInv, [Next]_vars PROVE EventInv'
  OBVIOUS
<1>t. mEventQueue \in Seq(Sessions \cup {RouterLost})
  BY DEF TypeInv, TypeOK
<1>1. ASSUME NEW s \in Sessions, SessionEvent(s) PROVE EventInv'
  BY <1>1, EventAdded DEF SessionEvent
<1>2. CASE OnDispatcherExit
  BY <1>2, EventAdded DEF OnDispatcherExit
<1>3. CASE SendEventsLoop
  BY <1>3 DEF SendEventsLoop, EventInv, Queued, InFlight
<1>4. CASE PopEvent
  <2>1. /\ sender = "pop" /\ sender' = "send" /\ mEventQueue # <<>>
        /\ sending' = Head(mEventQueue) /\ mEventQueue' = Tail(mEventQueue)
        /\ UNCHANGED <<main, early, handled, drained>>
    BY <1>4 DEF PopEvent
  <2>2. /\ Len(mEventQueue) \in Nat /\ Len(mEventQueue') = Len(mEventQueue) - 1
        /\ \A i \in 1..Len(mEventQueue') : mEventQueue'[i] = mEventQueue[i + 1]
        /\ sending' = mEventQueue[1]
    BY <1>t, <2>1
  <2>3. ASSUME NEW e, Queued(e) PROVE Queued(e)' \/ InFlight(e)'
    <3>1. PICK i \in 1..Len(mEventQueue) : mEventQueue[i] = e
      BY <2>3 DEF Queued
    <3>2. CASE i = 1
      BY <2>1, <2>2, <3>1, <3>2 DEF InFlight
    <3>3. CASE i # 1
      <4>1. i - 1 \in 1..Len(mEventQueue') /\ mEventQueue'[i - 1] = e
        BY <2>2, <3>1, <3>3
      <4> QED
        BY <4>1 DEF Queued
    <3> QED
      BY <3>2, <3>3
  <2> QED
    BY <2>1, <2>3 DEF EventInv, InFlight
<1>5. CASE PopThrows
  BY <1>5 DEF PopThrows, EventInv, Queued, InFlight
<1>6. CASE SendEvent \/ NotifyShutdownWithError
  <2>1. /\ sender = "send" /\ handled' = handled \cup {sending} /\ sender' = "loop"
        /\ UNCHANGED <<main, mEventQueue, early, drained>>
    BY <1>6 DEF SendEvent, NotifyShutdownWithError, Sent
  <2> QED
    BY <2>1 DEF EventInv, Queued, InFlight
<1>7. CASE DrainEvents
  <2>1. /\ mEventQueue = <<>> /\ main' = "deregister"
        /\ UNCHANGED <<mEventQueue, sender, sending, early, handled>>
    BY <1>7 DEF DrainEvents, GoTo
  <2>2. \A e : ~Queued(e)
    BY <2>1 DEF Queued
  <2> QED
    BY <2>1, <2>2 DEF EventInv, Queued, InFlight
<1>8. CASE DrainTimeout
  BY <1>8 DEF DrainTimeout, GoTo, EventInv, Queued, InFlight
<1>9. CASE JoinEventThread \/ StopHttpServer \/ DestroySessions
  BY <1>9, EventAside
     DEF JoinEventThread, StopHttpServer, DestroySessions, GoTo, eventVars, EventInv
<1>10. CASE \/ RegisterConsul \/ RegisterConsulFails \/ RegisterNode
            \/ RegisterNodeFails \/ UpdateNodeInfo \/ UpdateNodeInfoFails
            \/ SetEventHandler \/ StartMonitor \/ Run \/ Wait \/ Woken \/ Close
            \/ LockSessions \/ SessionsShutDown
  BY <1>10, EventAside
     DEF RegisterConsul, RegisterConsulFails, RegisterNode, RegisterNodeFails,
         UpdateNodeInfo, UpdateNodeInfoFails, SetEventHandler, StartMonitor, Run,
         Wait, Woken, Close, LockSessions, SessionsShutDown, GoTo, InitializeFails,
         eventVars
<1>11. CASE \/ AlreadyDeregistered \/ DeregisterNode \/ DeregisterNodeRefused
            \/ DeregisterNodeThrows \/ DeregisterConsul \/ JoinMonitor \/ DestroyNodeService
  BY <1>11, EventAside
     DEF AlreadyDeregistered, DeregisterNode, DeregisterNodeRefused,
         DeregisterNodeThrows, DeregisterConsul, JoinMonitor,
         DestroyNodeService, GoTo, eventVars
<1>12. ASSUME NEW s \in Sessions, SyncShutdown(s) \/ SyncShutdownGivesUp(s)
       PROVE  EventInv'
  BY <1>12, EventAside DEF SyncShutdown, SyncShutdownGivesUp, eventVars
<1>13. CASE \/ TermHandler \/ CoordinatorDropsNode \/ MonitorPolls \/ MonitorStops
            \/ MonitorEnds \/ UNCHANGED vars
  BY <1>13, EventAside
     DEF TermHandler, CoordinatorDropsNode, MonitorPolls, MonitorStops, MonitorEnds,
         vars, eventVars
<1>14. ASSUME NEW r \in Reqs, Request(r) PROVE EventInv'
  BY <1>14, EventAside
     DEF Request, SetStatusShutdown, SetStatusClosed, SetStatusUnregistered,
         CreateSession, DeleteSession, eventVars
<1>15. ASSUME NEW r \in Reqs, RequestStep(r) PROVE EventInv'
  BY <1>15, EventAside
     DEF RequestStep, RequestStops, InsertSession, InitializeSessionFails,
         StartComputations, StartRefused, EraseSession, eventVars
<1>16. ASSUME NEW r \in Modifiers, ModifySession(r) \/ ModifyStep(r) PROVE EventInv'
  BY <1>16, EventAside
     DEF ModifySession, ModifyStep, FindSession, SessionNotFound, ModifyComputations,
         eventVars
<1> QED
  BY <1>1, <1>2, <1>3, <1>4, <1>5, <1>6, <1>7, <1>8, <1>9, <1>10, <1>11, <1>12,
     <1>13, <1>14, <1>15, <1>16 DEF Next, MainStep, EventThread

(* drainEvents looks at the queue alone, yet no event is lost by it: the one  *)
(* that sendEventsProc has popped is sent before ~NodeService can join its    *)
(* thread.                                                                 *)
THEOREM EventsNeverDropped == Spec => []EventsNotDropped
<1>1. Init => EventInv
  BY DEF Init, EventInv
<1>2. EventInv => EventsNotDropped
  BY DEF EventInv, EventsNotDropped, InFlight
<1> QED
  BY <1>1, <1>2, TypeInit, TypeKept, EventKept, PTL DEF Spec
-----------------------------------------------------------------------------
LEMMA RegistryAside ==
  ASSUME RegistryInv, UNCHANGED registryVars,
         \/ main' = main
         \/ {main, main'} \subseteq Registered
         \/ {main, main'} \subseteq {"deregisterConsul"} \cup Ending
  PROVE  RegistryInv'
<1>1. /\ UNCHANGED <<coordinator, notice, mIsRegistered, failed>>
      /\ {main, main'} \subseteq Registered =>
           main' \notin {"registerConsul", "registerNode", "deregisterConsul"} \cup Ending
      /\ {main, main'} \subseteq {"deregisterConsul"} \cup Ending =>
           main' \notin {"registerConsul", "registerNode"} \cup Registered
  BY DEF registryVars, Registered, Ending
<1> QED
  BY <1>1 DEF RegistryInv

LEMMA RegistryKept == RegistryInv /\ [Next]_vars => RegistryInv'
<1> SUFFICES ASSUME RegistryInv, [Next]_vars PROVE RegistryInv'
  OBVIOUS
<1>1. CASE RegisterConsul
  BY <1>1 DEF RegisterConsul, GoTo, RegistryInv, Registered, Ending
<1>2. CASE RegisterConsulFails \/ RegisterNodeFails \/ UpdateNodeInfoFails
  BY <1>2 DEF RegisterConsulFails, RegisterNodeFails, UpdateNodeInfoFails,
              InitializeFails, GoTo, RegistryInv, Registered, Ending
<1>3. CASE RegisterNode
  BY <1>3 DEF RegisterNode, GoTo, RegistryInv, Registered, Ending
<1>4. CASE UpdateNodeInfo
  BY <1>4 DEF UpdateNodeInfo, GoTo, RegistryInv, Registered, Ending
<1>5. CASE AlreadyDeregistered
  BY <1>5 DEF AlreadyDeregistered, GoTo, registryVars, RegistryInv, Registered, Ending
<1>6. CASE DeregisterNode
  BY <1>6 DEF DeregisterNode, GoTo, RegistryInv, Registered, Ending
<1>7. CASE DeregisterNodeRefused \/ DeregisterNodeThrows
  BY <1>7 DEF DeregisterNodeRefused, DeregisterNodeThrows, GoTo, RegistryInv,
              Registered, Ending
<1>8. CASE DeregisterConsul
  BY <1>8 DEF DeregisterConsul, GoTo, RegistryInv, Registered, Ending
<1>9. CASE CoordinatorDropsNode
  BY <1>9 DEF CoordinatorDropsNode, RegistryInv
<1>10. ASSUME NEW r \in Reqs, SetStatusUnregistered(r) PROVE RegistryInv'
  BY <1>10 DEF SetStatusUnregistered, RegistryInv
<1>11. CASE \/ SetEventHandler \/ StartMonitor \/ Run \/ Wait \/ Woken \/ Close
            \/ LockSessions \/ SessionsShutDown \/ DrainEvents \/ DrainTimeout
  BY <1>11, RegistryAside
     DEF SetEventHandler, StartMonitor, Run, Wait, Woken, Close, LockSessions,
         SessionsShutDown, DrainEvents, DrainTimeout, GoTo, Registered
<1>12. CASE \/ JoinMonitor \/ DestroyNodeService \/ JoinEventThread
            \/ StopHttpServer \/ DestroySessions
  BY <1>12, RegistryAside
     DEF JoinMonitor, DestroyNodeService, JoinEventThread,
         StopHttpServer, DestroySessions, GoTo, Ending
<1>13. ASSUME NEW s \in Sessions,
              SyncShutdown(s) \/ SyncShutdownGivesUp(s) \/ SessionEvent(s)
       PROVE  RegistryInv'
  BY <1>13, RegistryAside DEF SyncShutdown, SyncShutdownGivesUp, SessionEvent
<1>14. CASE EventThread
  BY <1>14, RegistryAside
     DEF EventThread, SendEventsLoop, PopEvent, PopThrows, SendEvent,
         NotifyShutdownWithError, Sent
<1>15. CASE \/ TermHandler \/ MonitorPolls \/ MonitorStops \/ MonitorEnds
            \/ OnDispatcherExit \/ UNCHANGED vars
  BY <1>15, RegistryAside
     DEF TermHandler, MonitorPolls, MonitorStops, MonitorEnds, OnDispatcherExit, vars
<1>16. ASSUME NEW r \in Reqs, SetStatusShutdown(r) \/ SetStatusClosed(r) \/ RequestStep(r)
       PROVE  RegistryInv'
  BY <1>16, RegistryAside
     DEF SetStatusShutdown, SetStatusClosed, RequestStep, RequestStops, InsertSession,
         InitializeSessionFails, StartComputations, StartRefused, EraseSession
<1>17. ASSUME NEW r \in Reqs, NEW s \in Sessions,
              CreateSession(r, s) \/ DeleteSession(r, s)
       PROVE  RegistryInv'
  BY <1>17, RegistryAside DEF CreateSession, DeleteSession
<1>18. ASSUME NEW r \in Modifiers, ModifySession(r) \/ ModifyStep(r) PROVE RegistryInv'
  BY <1>18, RegistryAside
     DEF ModifySession, ModifyStep, FindSession, SessionNotFound, ModifyComputations
<1> QED
  BY <1>1, <1>2, <1>3, <1>4, <1>5, <1>6, <1>7, <1>8, <1>9, <1>10, <1>11, <1>12,
     <1>13, <1>14, <1>15, <1>16, <1>17, <1>18 DEF Next, MainStep, Request

(* A node that has left run() is not in Coordinator, whichever of the two      *)
(* ended the registration first and however the notice of Coordinator races   *)
(* deregisterNode, unless a call of the node failed.                         *)
THEOREM AlwaysDeregisteredAtExit == Spec => []DeregisteredAtExit
<1>1. Init => RegistryInv
  BY DEF Init, RegistryInv, Registered, Ending
<1>2. RegistryInv => DeregisteredAtExit
  BY DEF RegistryInv, DeregisteredAtExit, Ending
<1> QED
  BY <1>1, <1>2, RegistryKept, PTL DEF Spec
=============================================================================
