---------------------------- MODULE ClientSession ----------------------------
(***************************************************************************)
(* The client of one session, seen from its entry node: ArrasSessions and  *)
(* ArrasController in the node process, the router process, and the client *)
(* connections between which the router chooses.                           *)
(*                                                                         *)
(* The node and the router talk over one socket: toRouter and toService    *)
(* are the messages on their way, in order.  Each HTTP thread serves one    *)
(* request here.  A Session object is named by the thread that created it,  *)
(* so that a session created again is another object.  Its operation thread *)
(* is the one of module Session with only the steps the router sees.        *)
(* The node is open (mClosed is false) and the session's entry node.        *)
(***************************************************************************)
EXTENDS Sequences, Naturals

CONSTANTS
  Creators,   \* HTTP threads that create the session (POST sessions)
  Changers,   \* HTTP threads that modify or delete it
  Conns,      \* client connections
  NoOne       \* no session, no connection

ASSUME ClientConstants ==
  /\ NoOne \notin Creators \cup Conns
  /\ Creators \cap Changers = {}

VARIABLES
  mSessions,             \* the Session object in the map, or NoOne
  hpc,                   \* where each HTTP thread is
  mState,                \* of each Session object
  op,                    \* where its operation thread is
  mExpirationSet,        \* of each Session object
  mExpirationThread,     \* "none", "waiting" or "ended" (joinable, but over)
  mRouterHasRoutingData, \* the router has acknowledged this session id
  dpc, dsession,         \* where the dispatcher thread is, with which Session
  events,                \* history: events sent to Coordinator
  reported,              \* history: whose sessionClientDisconnected was sent
  toRouter, toService,   \* messages on their way
  routing,               \* the router's routing data: whose create it is from
  mClients,              \* the tracked endpoint of the session's client
  lpc, lconn,            \* where the router thread is, with which connection
  kpc, kconn,            \* where the serviceToRouter thread is
  conn,                  \* the state of each connection
  endpoint,              \* its endpoint: "none", "full", "temporary", "gone"
  recv, send,            \* the endpoint's threads are running
  status,                \* SessionStatus for it: "none", "queued", "popped"
  flagged                \* mFlaggedForDestruction

serviceVars == <<mSessions, hpc, mState, op, mExpirationSet, mExpirationThread,
                 mRouterHasRoutingData, dpc, dsession, events, reported>>
routerVars == <<routing, mClients, lpc, lconn, kpc, kconn>>
endpointVars == <<conn, endpoint, recv, send, status, flagged>>
vars == <<serviceVars, toRouter, toService, routerVars, endpointVars>>

Threads == Creators \cup Changers

(* A disconnection is about the session; of is the connection, which only    *)
(* the history variable reported uses.                                     *)
ServiceMessages ==
  [kind : {"ack", "connected"}] \cup [kind : {"disconnected"}, of : Conns]
RouterMessages == [kind : {"init"}, from : Creators] \cup [kind : {"kick", "delete"}]

TypeOK ==
  /\ mSessions \in Creators \cup {NoOne}
  /\ hpc \in [Threads -> {"idle", "init", "await", "arm", "thread", "start",
                          "destroy", "destroyJoin", "done"}]
  /\ mState \in [Creators -> {"none", "Free", "Busy", "Defunct"}]
  /\ op \in [Creators -> {"none", "update", "stop", "forget", "defunct"}]
  /\ mExpirationSet \in [Creators -> BOOLEAN]
  /\ mExpirationThread \in [Creators -> {"none", "waiting", "ended"}]
  /\ mRouterHasRoutingData \in BOOLEAN
  /\ dpc \in {"idle", "isActive", "clear", "join"}
  /\ dsession \in Creators \cup {NoOne}
  /\ events \in SUBSET {"sessionExpired", "sessionOperationFailed"}
  /\ reported \in SUBSET Conns
  /\ toRouter \in Seq(RouterMessages)
  /\ toService \in Seq(ServiceMessages)
  /\ routing \in Creators \cup {NoOne}
  /\ mClients \in Conns \cup {NoOne}
  /\ lpc \in {"poll", "full", "temporary", "track", "notify"}
  /\ lconn \in Conns \cup {NoOne}
  /\ kpc \in {"pop", "drain"}
  /\ kconn \in Conns \cup {NoOne}
  /\ conn \in [Conns -> {"idle", "pending", "open", "leaving", "left", "closed"}]
  /\ endpoint \in [Conns -> {"none", "full", "temporary", "gone"}]
  /\ recv \in [Conns -> BOOLEAN]
  /\ send \in [Conns -> BOOLEAN]
  /\ status \in [Conns -> {"none", "queued", "popped"}]
  /\ flagged \in [Conns -> BOOLEAN]

Init ==
  /\ mSessions = NoOne
  /\ hpc = [h \in Threads |-> "idle"]
  /\ mState = [s \in Creators |-> "none"]
  /\ op = [s \in Creators |-> "none"]
  /\ mExpirationSet = [s \in Creators |-> FALSE]
  /\ mExpirationThread = [s \in Creators |-> "none"]
  /\ mRouterHasRoutingData = FALSE
  /\ dpc = "idle" /\ dsession = NoOne
  /\ events = {} /\ reported = {}
  /\ toRouter = <<>> /\ toService = <<>>
  /\ routing = NoOne
  /\ mClients = NoOne
  /\ lpc = "poll" /\ lconn = NoOne
  /\ kpc = "pop" /\ kconn = NoOne
  /\ conn = [c \in Conns |-> "idle"]
  /\ endpoint = [c \in Conns |-> "none"]
  /\ recv = [c \in Conns |-> FALSE]
  /\ send = [c \in Conns |-> FALSE]
  /\ status = [c \in Conns |-> "none"]
  /\ flagged = [c \in Conns |-> FALSE]
-----------------------------------------------------------------------------
(* HTTP threads: ArrasSessions::createSession.                             *)

ToRouter(m) == toRouter' = Append(toRouter, m)

Step(h, from, to) == hpc[h] = from /\ hpc' = [hpc EXCEPT ![h] = to]

(* Under mSessionsMutex: a new Session object takes the id, if it is free. *)
CreateSession(h) ==
  /\ Step(h, "idle", "init")
  /\ mSessions = NoOne
  /\ mSessions' = h
  /\ mState' = [mState EXCEPT ![h] = "Free"]
  /\ UNCHANGED <<op, mExpirationSet, mExpirationThread, mRouterHasRoutingData,
                 dpc, dsession, events, toRouter, toService, reported,
                 routerVars, endpointVars>>

(* initializeSession sends the routing data... *)
InitializeSession(h) ==
  /\ Step(h, "init", "await")
  /\ ToRouter([kind |-> "init", from |-> h])
  /\ UNCHANGED <<mSessions, mState, op, mExpirationSet, mExpirationThread,
                 mRouterHasRoutingData, dpc, dsession, events, toService,
                 reported, routerVars, endpointVars>>

(* ...and waits until the flag of this session id is set, which may be from *)
(* an earlier create: nothing resets it.                                   *)
RoutingAcknowledgedUnchecked(h) ==
  /\ Step(h, "await", "arm")
  /\ UNCHANGED <<mSessions, mState, op, mExpirationSet, mExpirationThread,
                 mRouterHasRoutingData, dpc, dsession, events, toRouter,
                 toService, reported, routerVars, endpointVars>>

RoutingAcknowledged(h) ==
  /\ Step(h, "await", "arm")
  /\ mRouterHasRoutingData
  /\ UNCHANGED <<mSessions, mState, op, mExpirationSet, mExpirationThread,
                 mRouterHasRoutingData, dpc, dsession, events, toRouter,
                 toService, reported, routerVars, endpointVars>>

(* No acknowledgement in 10 seconds: the id is free again, and the object is *)
(* destroyed on the way out.  The router is not told.                       *)
RoutingTimeout(h) ==
  /\ Step(h, "await", "destroy")
  /\ ~mRouterHasRoutingData
  /\ mSessions' = NoOne
  /\ UNCHANGED <<mState, op, mExpirationSet, mExpirationThread,
                 mRouterHasRoutingData, dpc, dsession, events, toRouter,
                 toService, reported, routerVars, endpointVars>>

(* setExpirationTime: the flag is set under mExpirationMutex... *)
SetExpirationTime(h) ==
  /\ Step(h, "arm", "thread")
  /\ mExpirationSet' = [mExpirationSet EXCEPT ![h] = TRUE]
  /\ UNCHANGED <<mSessions, mState, op, mExpirationThread,
                 mRouterHasRoutingData, dpc, dsession, events, toRouter,
                 toService, reported, routerVars, endpointVars>>

(* ...and then the thread is started. *)
StartExpirationThread(h) ==
  /\ Step(h, "thread", "start")
  /\ mExpirationThread' = [mExpirationThread EXCEPT ![h] = "waiting"]
  /\ UNCHANGED <<mSessions, mState, op, mExpirationSet, mRouterHasRoutingData,
                 dpc, dsession, events, toRouter, toService, reported,
                 routerVars, endpointVars>>

(* asyncUpdateConfig succeeds: the computations are being started. *)
StartUpdate(h) ==
  /\ Step(h, "start", "done")
  /\ mState[h] = "Free"
  /\ mState' = [mState EXCEPT ![h] = "Busy"]
  /\ op' = [op EXCEPT ![h] = "update"]
  /\ UNCHANGED <<mSessions, mExpirationSet, mExpirationThread,
                 mRouterHasRoutingData, dpc, dsession, events, toRouter,
                 toService, reported, routerVars, endpointVars>>

(* asyncUpdateConfig throws, because another request was faster: the id is  *)
(* free again.                                                             *)
StartRefused(h) ==
  /\ Step(h, "start", "destroy")
  /\ mState[h] # "Free"
  /\ mSessions' = NoOne
  /\ UNCHANGED <<mState, op, mExpirationSet, mExpirationThread,
                 mRouterHasRoutingData, dpc, dsession, events, toRouter,
                 toService, reported, routerVars, endpointVars>>

(* ~Session: it joins the operation thread, once the dispatcher has dropped *)
(* its reference, and calls stopExpiration.  In the code whoever drops the   *)
(* last pointer does this; here it is always the creator, which waits for    *)
(* the dispatcher, so that a dispatcher that joins is left out.              *)
DestroySession(h) ==
  /\ Step(h, "destroy", "destroyJoin")
  /\ op[h] = "none" /\ dsession # h
  /\ mExpirationSet' = [mExpirationSet EXCEPT ![h] = FALSE]
  /\ UNCHANGED <<mSessions, mState, op, mExpirationThread,
                 mRouterHasRoutingData, dpc, dsession, events, toRouter,
                 toService, reported, routerVars, endpointVars>>

SessionDestroyed(h) ==
  /\ Step(h, "destroyJoin", "done")
  /\ mExpirationThread[h] # "waiting"
  /\ mExpirationThread' = [mExpirationThread EXCEPT ![h] = "none"]
  /\ mState' = [mState EXCEPT ![h] = "none"]
  /\ UNCHANGED <<mSessions, op, mExpirationSet, mRouterHasRoutingData, dpc,
                 dsession, events, toRouter, toService, reported, routerVars,
                 endpointVars>>
-----------------------------------------------------------------------------
(* HTTP threads: modifySession and deleteSession, when not answered with an *)
(* error, and the operation threads they start.                            *)

StartOperation(h, first) ==
  /\ Step(h, "idle", "done")
  /\ mSessions # NoOne
  /\ mState[mSessions] = "Free"
  /\ mState' = [mState EXCEPT ![mSessions] = "Busy"]
  /\ op' = [op EXCEPT ![mSessions] = first]
  /\ UNCHANGED <<mSessions, mExpirationSet, mExpirationThread,
                 mRouterHasRoutingData, dpc, dsession, events, toRouter,
                 toService, reported, routerVars, endpointVars>>

ModifySession(h) == StartOperation(h, "update")

DeleteSession(h) == StartOperation(h, "stop")

(* updateProc ends; it may have failed, and raised an event. *)
UpdateEnds(s) ==
  /\ op[s] = "update"
  /\ op' = [op EXCEPT ![s] = "none"]
  /\ mState' = [mState EXCEPT ![s] = "Free"]
  /\ events' \in {events, events \cup {"sessionOperationFailed"}}
  /\ UNCHANGED <<mSessions, hpc, mExpirationSet, mExpirationThread,
                 mRouterHasRoutingData, dpc, dsession, toRouter, toService,
                 reported, routerVars, endpointVars>>

(* deleteProc, its computations stopped: shutdownSession sends a kick for   *)
(* the client...                                                           *)
ShutdownSession(s) ==
  /\ op[s] = "stop"
  /\ op' = [op EXCEPT ![s] = "forget"]
  /\ ToRouter([kind |-> "kick"])
  /\ UNCHANGED <<mSessions, hpc, mState, mExpirationSet, mExpirationThread,
                 mRouterHasRoutingData, dpc, dsession, events, toService,
                 reported, routerVars, endpointVars>>

(* ...and the end of the routing data. *)
ForgetRouting(s) ==
  /\ op[s] = "forget"
  /\ op' = [op EXCEPT ![s] = "defunct"]
  /\ ToRouter([kind |-> "delete"])
  /\ UNCHANGED <<mSessions, hpc, mState, mExpirationSet, mExpirationThread,
                 mRouterHasRoutingData, dpc, dsession, events, toService,
                 reported, routerVars, endpointVars>>

(* An exception while the computations are stopped skips both. *)
DeleteFails(s) ==
  /\ op[s] = "stop"
  /\ op' = [op EXCEPT ![s] = "defunct"]
  /\ events' = events \cup {"sessionOperationFailed"}
  /\ UNCHANGED <<mSessions, hpc, mState, mExpirationSet, mExpirationThread,
                 mRouterHasRoutingData, dpc, dsession, toRouter, toService,
                 reported, routerVars, endpointVars>>

(* Only now is the session Defunct; its expiration is left as it is. *)
BecomeDefunct(s) ==
  /\ op[s] = "defunct"
  /\ op' = [op EXCEPT ![s] = "none"]
  /\ mState' = [mState EXCEPT ![s] = "Defunct"]
  /\ UNCHANGED <<mSessions, hpc, mExpirationSet, mExpirationThread,
                 mRouterHasRoutingData, dpc, dsession, events, toRouter,
                 toService, reported, routerVars, endpointVars>>
-----------------------------------------------------------------------------
(* expirationProc.  The loop reads the flag under mExpirationMutex before    *)
(* each wait, so that no notification is missed.                            *)

ExpirationEnds(s, evts) ==
  /\ mExpirationThread[s] = "waiting"
  /\ mExpirationThread' = [mExpirationThread EXCEPT ![s] = "ended"]
  /\ events' = events \cup evts
  /\ UNCHANGED <<mSessions, hpc, mState, op, mExpirationSet,
                 mRouterHasRoutingData, dpc, dsession, toRouter, toService,
                 reported, routerVars, endpointVars>>

ExpirationStopped(s) == ~mExpirationSet[s] /\ ExpirationEnds(s, {})

(* The time has come and the flag is still set. *)
ExpireAndWaitAgain(s) ==
  /\ mExpirationSet[s] /\ mExpirationThread[s] = "waiting"
  /\ events' = events \cup {"sessionExpired"}
  /\ UNCHANGED <<mSessions, hpc, mState, op, mExpirationSet, mExpirationThread,
                 mRouterHasRoutingData, dpc, dsession, toRouter, toService,
                 reported, routerVars, endpointVars>>

Expire(s) == mExpirationSet[s] /\ ExpirationEnds(s, {"sessionExpired"})
-----------------------------------------------------------------------------
(* The dispatcher thread of the node: ArrasController::handleMessage.       *)

Receive(m) ==
  /\ dpc = "idle"
  /\ toService # <<>> /\ Head(toService).kind = m
  /\ toService' = Tail(toService)

HandleAck ==
  /\ Receive("ack")
  /\ mRouterHasRoutingData' = TRUE
  /\ UNCHANGED <<mSessions, hpc, mState, op, mExpirationSet, mExpirationThread,
                 dpc, dsession, events, toRouter, reported, routerVars,
                 endpointVars>>

(* A client of an unknown session is kicked at once. *)
HandleConnected ==
  /\ Receive("connected")
  /\ IF mSessions = NoOne
     THEN ToRouter([kind |-> "kick"]) /\ UNCHANGED <<dpc, dsession>>
     ELSE dpc' = "isActive" /\ dsession' = mSessions /\ UNCHANGED toRouter
  /\ UNCHANGED <<mSessions, hpc, mState, op, mExpirationSet, mExpirationThread,
                 mRouterHasRoutingData, events, reported, routerVars,
                 endpointVars>>

HandleDisconnected ==
  /\ Receive("disconnected")
  /\ reported' = reported \cup {Head(toService).of}
  /\ UNCHANGED <<mSessions, hpc, mState, op, mExpirationSet, mExpirationThread,
                 mRouterHasRoutingData, dpc, dsession, events, toRouter,
                 routerVars, endpointVars>>

(* isActive, read once: the client of a Defunct session is kicked. *)
CheckActive ==
  /\ dpc = "isActive"
  /\ IF mState[dsession] # "Defunct"
     THEN dpc' = "clear" /\ UNCHANGED <<dsession, toRouter>>
     ELSE dpc' = "idle" /\ dsession' = NoOne /\ ToRouter([kind |-> "kick"])
  /\ UNCHANGED <<mSessions, hpc, mState, op, mExpirationSet, mExpirationThread,
                 mRouterHasRoutingData, events, toService, reported, routerVars,
                 endpointVars>>

(* stopExpiration: the flag, and then the thread, if there is one. *)
StopExpiration ==
  /\ dpc = "clear"
  /\ dpc' = "join"
  /\ mExpirationSet' = [mExpirationSet EXCEPT ![dsession] = FALSE]
  /\ UNCHANGED <<mSessions, hpc, mState, op, mExpirationThread,
                 mRouterHasRoutingData, dsession, events, toRouter, toService,
                 reported, routerVars, endpointVars>>

JoinExpiration ==
  /\ dpc = "join"
  /\ mExpirationThread[dsession] # "waiting"
  /\ mExpirationThread' = [mExpirationThread EXCEPT ![dsession] = "none"]
  /\ dpc' = "idle" /\ dsession' = NoOne
  /\ UNCHANGED <<mSessions, hpc, mState, op, mExpirationSet,
                 mRouterHasRoutingData, events, toRouter, toService, reported,
                 routerVars, endpointVars>>
-----------------------------------------------------------------------------
(* Clients: they may connect and leave at any time, whatever the session's  *)
(* state.                                                                  *)

Connect(c) ==
  /\ conn[c] = "idle"
  /\ conn' = [conn EXCEPT ![c] = "pending"]
  /\ UNCHANGED <<serviceVars, toRouter, toService, routerVars, endpoint, recv,
                 send, status, flagged>>

Connected(c) == conn[c] \in {"open", "leaving"}

(* The client closes the connection, or is lost. *)
Leave(c) ==
  /\ Connected(c)
  /\ conn' = [conn EXCEPT ![c] = "left"]
  /\ UNCHANGED <<serviceVars, toRouter, toService, routerVars, endpoint, recv,
                 send, status, flagged>>
-----------------------------------------------------------------------------
(* The router thread: NodeRouter::threadProc and its filter for clients.    *)

Close(c) == conn' = [conn EXCEPT ![c] = "closed"]

(* Refused while the session has a client, even one that has left and is    *)
(* still tracked.                                                          *)
RefuseClient(c) ==
  /\ lpc = "poll" /\ conn[c] = "pending"
  /\ mClients # NoOne
  /\ Close(c)
  /\ UNCHANGED <<serviceVars, toRouter, toService, routerVars, endpoint, recv,
                 send, status, flagged>>

(* Without routing data the client is accepted temporarily, to be told that  *)
(* the session is over.                                                     *)
AcceptClientAlways(c) ==
  /\ lpc = "poll" /\ conn[c] = "pending"
  /\ conn' = [conn EXCEPT ![c] = "open"]
  /\ lpc' = IF routing # NoOne THEN "full" ELSE "temporary"
  /\ lconn' = c
  /\ UNCHANGED <<serviceVars, toRouter, toService, routing, mClients, kpc, kconn,
                 endpoint, recv, send, status, flagged>>

AcceptClient(c) ==
  /\ lpc = "poll" /\ conn[c] = "pending"
  /\ mClients = NoOne
  /\ conn' = [conn EXCEPT ![c] = "open"]
  /\ lpc' = IF routing # NoOne THEN "full" ELSE "temporary"
  /\ lconn' = c
  /\ UNCHANGED <<serviceVars, toRouter, toService, routing, mClients, kpc, kconn,
                 endpoint, recv, send, status, flagged>>

(* The ClientRemoteEndpoint constructor starts the threads; a temporary one  *)
(* has no receive thread.                                                  *)
BuildEndpoint ==
  /\ lpc = "temporary" \/ (lpc = "full" /\ routing # NoOne)
  /\ endpoint' = [endpoint EXCEPT ![lconn] = lpc]
  /\ recv' = [recv EXCEPT ![lconn] = (lpc = "full")]
  /\ send' = [send EXCEPT ![lconn] = TRUE]
  /\ lpc' = "track"
  /\ UNCHANGED <<serviceVars, toRouter, toService, routing, mClients, lconn, kpc,
                 kconn, conn, status, flagged>>

(* The constructor looks the routing data up again, and throws if it has     *)
(* gone: ListenServer then closes the connection.                           *)
BuildThrows ==
  /\ lpc = "full" /\ routing = NoOne
  /\ Close(lconn)
  /\ lpc' = "poll" /\ lconn' = NoOne
  /\ UNCHANGED <<serviceVars, toRouter, toService, routing, mClients, kpc, kconn,
                 endpoint, recv, send, status, flagged>>

TrackClient ==
  /\ lpc = "track"
  /\ mClients' = lconn
  /\ lpc' = "notify"
  /\ UNCHANGED <<serviceVars, toRouter, toService, routing, lconn, kpc, kconn,
                 endpointVars>>

NotifyClientConnected ==
  /\ lpc = "notify"
  /\ toService' = Append(toService, [kind |-> "connected"])
  /\ lpc' = "poll" /\ lconn' = NoOne
  /\ UNCHANGED <<serviceVars, toRouter, routing, mClients, kpc, kconn,
                 endpointVars>>

(* ~RemoteEndpoint: it closes the socket and joins both threads; its queue   *)
(* and its flag are gone with it.                                          *)
Destroy(c) ==
  /\ endpoint' = [endpoint EXCEPT ![c] = "gone"]
  /\ recv' = [recv EXCEPT ![c] = FALSE]
  /\ send' = [send EXCEPT ![c] = FALSE]
  /\ status' = [status EXCEPT ![c] = "none"]
  /\ flagged' = [flagged EXCEPT ![c] = FALSE]
  /\ Close(c)

(* destroyEndpoints, after each poll: a flagged endpoint is untracked, and   *)
(* destroyed unless kickClient still holds a pointer to it.                 *)
DestroyEndpoints ==
  /\ lpc = "poll"
  /\ mClients # NoOne /\ flagged[mClients]
  /\ mClients' = NoOne
  /\ IF kconn = mClients
     THEN UNCHANGED endpointVars
     ELSE Destroy(mClients)
  /\ UNCHANGED <<serviceVars, toRouter, toService, routing, lpc, lconn, kpc,
                 kconn>>
-----------------------------------------------------------------------------
(* The serviceToRouter thread: NodeRouter::serviceToRouterProc.             *)

Pop(kind) ==
  /\ kpc = "pop"
  /\ toRouter # <<>> /\ Head(toRouter).kind = kind
  /\ toRouter' = Tail(toRouter)

(* putSessionRoutingData keeps what is there, and an acknowledgement goes back. *)
PutRoutingDataEchoed ==
  /\ Pop("init")
  /\ routing' = IF routing = NoOne THEN Head(toRouter).from ELSE routing
  /\ toService' = Append(toService, [kind |-> Head(toRouter).kind])
  /\ UNCHANGED <<serviceVars, mClients, lpc, lconn, kpc, kconn, endpointVars>>

PutRoutingData ==
  /\ Pop("init")
  /\ routing' = IF routing = NoOne THEN Head(toRouter).from ELSE routing
  /\ toService' = Append(toService, [kind |-> "ack"])
  /\ UNCHANGED <<serviceVars, mClients, lpc, lconn, kpc, kconn, endpointVars>>

DeleteRoutingData ==
  /\ Pop("delete")
  /\ routing' = NoOne
  /\ UNCHANGED <<serviceVars, toService, mClients, lpc, lconn, kpc, kconn,
                 endpointVars>>

(* kickClient, with no client to disconnect. *)
KickNoClient ==
  /\ Pop("kick")
  /\ mClients = NoOne
  /\ UNCHANGED <<serviceVars, toService, routerVars, endpointVars>>

(* kickClient: a SessionStatus is queued for the client... *)
KickClientUntold ==
  /\ Pop("kick")
  /\ mClients # NoOne
  /\ kconn' = mClients /\ kpc' = "drain"
  /\ UNCHANGED <<serviceVars, toService, routing, mClients, lpc, lconn,
                 endpointVars>>

KickClient ==
  /\ Pop("kick")
  /\ mClients # NoOne
  /\ kconn' = mClients /\ kpc' = "drain"
  /\ status' = [status EXCEPT ![mClients] = "queued"]
  /\ UNCHANGED <<serviceVars, toService, routing, mClients, lpc, lconn, conn,
                 endpoint, recv, send, flagged>>

(* ...and, when its queue is empty or after 5 seconds, the endpoint is flagged *)
(* and the pointer dropped.  The last pointer destroys it.                  *)
FlagKicked ==
  /\ kpc = "drain"
  /\ kpc' = "pop" /\ kconn' = NoOne
  /\ IF mClients = kconn
     THEN /\ flagged' = [flagged EXCEPT ![kconn] = TRUE]
          /\ UNCHANGED <<conn, endpoint, recv, send, status>>
     ELSE Destroy(kconn)
  /\ UNCHANGED <<serviceVars, toRouter, toService, routing, mClients, lpc, lconn>>

LeaveKicked ==
  /\ kpc = "drain"
  /\ kpc' = "pop" /\ kconn' = NoOne
  /\ UNCHANGED <<serviceVars, toRouter, toService, routing, mClients, lpc, lconn,
                 endpointVars>>

Drained == kpc = "drain" /\ status[kconn] # "queued" /\ FlagKicked
DrainTimeoutUnflagged == kpc = "drain" /\ status[kconn] = "queued" /\ LeaveKicked
DrainTimeout == kpc = "drain" /\ status[kconn] = "queued" /\ FlagKicked
-----------------------------------------------------------------------------
(* The threads of an endpoint.                                             *)

(* notifyClientDisconnected.  A temporary endpoint has no session id, and     *)
(* what it notifies is not about this session.                              *)
NotifyClientDisconnected(c) ==
  toService' = IF endpoint[c] = "full"
               THEN Append(toService, [kind |-> "disconnected", of |-> c])
               ELSE toService

(* RemoteEndpoint::disconnect. *)
Disconnect(c) ==
  /\ NotifyClientDisconnected(c)
  /\ flagged' = [flagged EXCEPT ![c] = TRUE]

(* receiveThread: the client's "disconnect" message, ... *)
ReceiveDisconnect(c) ==
  /\ recv[c] /\ conn[c] = "open"
  /\ conn' = [conn EXCEPT ![c] = "leaving"]
  /\ NotifyClientDisconnected(c)
  /\ UNCHANGED <<serviceVars, toRouter, routerVars, endpoint, recv, send, status,
                 flagged>>

(* ...and what ends the thread: the end of the connection, or any exception   *)
(* of poll, of a message that cannot be read or of its routing, whether or    *)
(* not the client is still there.                                          *)
ReceiveFailsUnflagged(c) ==
  /\ recv[c]
  /\ recv' = [recv EXCEPT ![c] = FALSE]
  /\ NotifyClientDisconnected(c)
  /\ UNCHANGED <<serviceVars, toRouter, routerVars, endpoint, send, status, conn,
                 flagged>>

ReceiveFails(c) ==
  /\ recv[c]
  /\ recv' = [recv EXCEPT ![c] = FALSE]
  /\ Disconnect(c)
  /\ UNCHANGED <<serviceVars, toRouter, routerVars, endpoint, send, status, conn>>

(* sendThread: the status leaves the queue; the socket may take it even      *)
(* though the client has left.                                              *)
SendStatus(c) ==
  /\ send[c] /\ status[c] = "queued"
  /\ status' = [status EXCEPT ![c] = "popped"]
  /\ UNCHANGED <<serviceVars, toRouter, toService, routerVars, endpoint, recv,
                 send, conn, flagged>>

(* An exception while any envelope is sent, the status or one before it,      *)
(* ends the thread, whether or not the client is still there.                *)
SendFails(c) ==
  /\ send[c]
  /\ status' \in {status, [status EXCEPT ![c] = IF @ = "queued" THEN "popped" ELSE @]}
  /\ send' = [send EXCEPT ![c] = FALSE]
  /\ Disconnect(c)
  /\ UNCHANGED <<serviceVars, toRouter, routerVars, endpoint, recv, conn>>
-----------------------------------------------------------------------------
Create(h) ==
  \/ InitializeSession(h) \/ RoutingAcknowledged(h) \/ RoutingTimeout(h)
  \/ SetExpirationTime(h) \/ StartExpirationThread(h) \/ StartUpdate(h)
  \/ StartRefused(h) \/ DestroySession(h) \/ SessionDestroyed(h)

Operation(s) ==
  \/ UpdateEnds(s) \/ ShutdownSession(s) \/ ForgetRouting(s) \/ DeleteFails(s)
  \/ BecomeDefunct(s)

Dispatcher ==
  \/ HandleAck \/ HandleConnected \/ HandleDisconnected \/ CheckActive
  \/ StopExpiration \/ JoinExpiration

RouterThread ==
  \/ BuildEndpoint \/ BuildThrows \/ TrackClient \/ NotifyClientConnected
  \/ \E c \in Conns : RefuseClient(c) \/ AcceptClient(c)

ServiceToRouter ==
  \/ PutRoutingData \/ DeleteRoutingData \/ KickNoClient \/ KickClient
  \/ Drained \/ DrainTimeout

Next ==
  \/ \E h \in Creators : CreateSession(h) \/ Create(h)
  \/ \E h \in Changers : ModifySession(h) \/ DeleteSession(h)
  \/ \E s \in Creators : Operation(s) \/ ExpirationStopped(s) \/ Expire(s)
  \/ Dispatcher \/ RouterThread \/ DestroyEndpoints \/ ServiceToRouter
  \/ \E c \in Conns : \/ Connect(c) \/ Leave(c)
                      \/ ReceiveDisconnect(c) \/ ReceiveFails(c)
                      \/ SendStatus(c) \/ SendFails(c)

Spec == Init /\ [][Next]_vars

(* Threads run; requests and clients come and go as they like, and a client *)
(* need not read what is sent to it.  DestroyEndpoints follows every poll,   *)
(* which lasts at most a second.  Of the failures, only the one that poll     *)
(* reports after the client has left is sure to come.                       *)
FairSpec ==
  /\ Spec
  /\ \A h \in Creators : WF_vars(Create(h))
  /\ \A s \in Creators : WF_vars(Operation(s)) /\ WF_vars(ExpirationStopped(s) \/ Expire(s))
  /\ WF_vars(Dispatcher) /\ WF_vars(RouterThread) /\ SF_vars(DestroyEndpoints)
  /\ WF_vars(ServiceToRouter)
  /\ \A c \in Conns : WF_vars(conn[c] = "left" /\ ReceiveFails(c))
-----------------------------------------------------------------------------
(* A session has one client: an endpoint that is alive is the tracked one,  *)
(* or is in the hands of one of the router's threads.  trackClient would    *)
(* overwrite the entry of another one.                                      *)
OneClient ==
  \A c \in Conns :
    endpoint[c] \in {"full", "temporary"} => c \in {mClients, lconn, kconn}

(* The end of a client's connection does not go unnoticed, whoever brings it   *)
(* about, with the client still there or not: a SessionStatus has been queued  *)
(* for the client (kickClient), or the disconnection has been or will be       *)
(* reported to Coordinator, about this very connection.  It speaks of clients  *)
(* that the session accepted: a connection that the filter refuses, or whose   *)
(* endpoint cannot be built, is closed without a word, and so is a temporary   *)
(* one whose send thread fails before it is kicked.                          *)
EndIsKnown ==
  \A c \in Conns :
    endpoint[c] = "full" /\ flagged[c] =>
      \/ status[c] # "none"
      \/ c \in reported
      \/ \E i \in 1..Len(toService) : toService[i] = [kind |-> "disconnected", of |-> c]

(* initializeSession returns true only when the router can route for the    *)
(* session: an executor or client that registers finds the data.  It holds   *)
(* as long as the session id is created once.                               *)
AckMeansRouted ==
  \A h \in Creators :
    hpc[h] \in {"arm", "thread", "start"} /\ mState[h] = "Free" => routing # NoOne

(* A client that is tracked when a kick is on its way is disconnected in the *)
(* end, whether or not it reads what it is sent.                            *)
KickReaches ==
  \A c \in Conns :
    (mClients = c /\ \E i \in 1..Len(toRouter) : toRouter[i].kind = "kick")
      ~> mClients # c

(* A client that has left is noticed, so that another can take its place.    *)
LeaverForgotten ==
  \A c \in Conns : (endpoint[c] = "full" /\ conn[c] = "left") ~> endpoint[c] = "gone"

(* The dispatcher, which serves every session of the node, is not held up    *)
(* for ever by the thread that stopExpiration joins.                        *)
DispatcherReturns == dpc # "idle" ~> dpc = "idle"

(* The session was created and then deleted, and both went well. *)
Deleted ==
  /\ mSessions # NoOne
  /\ hpc[mSessions] = "done" /\ mState[mSessions] = "Defunct"
  /\ "sessionOperationFailed" \notin events

(* "connection just after deletion looks (to the client) much the same as   *)
(* deletion just after connection" (ArrasController.cc:329): the client of a *)
(* deleted session is disconnected, if it does not leave by itself.         *)
KickedAfterDelete ==
  \A c \in Conns :
    (Deleted /\ mClients = c /\ Connected(c)) ~> (mClients # c \/ ~Connected(c))
=============================================================================
