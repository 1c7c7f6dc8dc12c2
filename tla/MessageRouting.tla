--------------------------- MODULE MessageRouting ----------------------------
(***************************************************************************)
(* Messages of one session in the router of its entry node: routeMessage,   *)
(* the tables of PeerManager with the stash of messages for a client that   *)
(* is not there yet, and the endpoints of clients and computations, from    *)
(* the filter that builds them to the destructor.                           *)
(*                                                                         *)
(* routeMessage runs in the receive thread of every endpoint and in the      *)
(* serviceToRouter thread.  A lookup copies a shared pointer (held), so     *)
(* that an endpoint outlives its table entry; whoever drops the last pointer *)
(* runs the destructor, which joins the endpoint's two threads.  Inside      *)
(* eraseIfFound that is the router thread, with PeerManager's mMutex.       *)
(* Every other use of mMutex is one step here, and needs it free.           *)
(*                                                                         *)
(* A message is named by the thread that routes it and a number.  An         *)
(* executor registers once: the node does not restart computations.  Other   *)
(* nodes are the subject of NodeConnection.                                 *)
(***************************************************************************)
EXTENDS Naturals, Sequences

CONSTANTS
  Conns,     \* connections of clients
  Comps,     \* computations of this node, and their connections
  Service,   \* the serviceToRouter thread
  Router,    \* the router thread
  Client,    \* the client as a destination
  None,      \* no endpoint
  MaxMsgs    \* bound: messages that each thread routes

Endpoints == Conns \cup Comps
Threads == Endpoints \cup {Service}

ASSUME RoutingConstants ==
  /\ Conns \cap Comps = {}
  /\ {Service, Router, None} \cap Endpoints = {}
  /\ Client \notin Comps
  /\ Service # Router
  /\ MaxMsgs \in [Threads -> Nat]

VARIABLES
  routing,            \* the routing table holds the session
  mClients,           \* the tracked endpoint of the client
  mIpc,               \* computations whose endpoint is tracked
  mPendingEnvelopes,  \* messages stashed for the client
  mEndpointsToDelete, \* flagged endpoints (raw pointers)
  flagged,            \* mFlaggedForDestruction
  router, building,   \* where the router thread is, with which endpoint
  socket,             \* the connection of each endpoint
  life,               \* each endpoint: "none", "live", "dying", "gone"
  sending,            \* endpoints whose send thread runs
  out,                \* the messages queued for it so far, sent or not
  pc,                 \* where each routing thread is
  todo, held,         \* its destinations left, the endpoint it points to
  count,              \* number of messages it has routed
  destroying          \* the endpoint whose destructor a thread is in

tableVars == <<routing, mClients, mIpc, mPendingEnvelopes>>
listVars == <<mEndpointsToDelete, flagged>>
routerVars == <<router, building>>
endpointVars == <<socket, life, sending, out>>
threadVars == <<pc, todo, held, count>>
vars == <<tableVars, listVars, routerVars, endpointVars, threadVars, destroying>>

Dests == Comps \cup {Client}
Messages == [from : Threads, n : Nat]

TypeOK ==
  /\ routing \in BOOLEAN
  /\ mClients \in Conns \cup {None}
  /\ mIpc \subseteq Comps
  /\ mPendingEnvelopes \in Seq(Messages)
  /\ mEndpointsToDelete \in Seq(Endpoints)
  /\ flagged \subseteq Endpoints
  /\ router \in {"poll", "build", "track"}
  /\ building \in Endpoints \cup {None}
  /\ socket \in [Endpoints -> {"idle", "up", "down"}]
  /\ life \in [Endpoints -> {"none", "live", "dying", "gone"}]
  /\ sending \subseteq Endpoints
  /\ out \in [Endpoints -> Seq(Messages)]
  /\ pc \in [Threads -> {"off", "poll", "route", "queue", "stash", "drain",
                         "clear", "join"}]
  /\ todo \in [Threads -> SUBSET Dests]
  /\ held \in [Threads -> Endpoints \cup {None}]
  /\ count \in [Threads -> Nat]
  /\ destroying \in [Threads \cup {Router} -> Endpoints \cup {None}]

Init ==
  /\ routing = TRUE
  /\ mClients = None /\ mIpc = {}
  /\ mPendingEnvelopes = <<>>
  /\ mEndpointsToDelete = <<>> /\ flagged = {}
  /\ router = "poll" /\ building = None
  /\ socket = [e \in Endpoints |-> "idle"]
  /\ life = [e \in Endpoints |-> "none"]
  /\ sending = {}
  /\ out = [e \in Endpoints |-> <<>>]
  /\ pc = [t \in Threads |-> IF t = Service THEN "poll" ELSE "off"]
  /\ todo = [t \in Threads |-> {}]
  /\ held = [t \in Threads |-> None]
  /\ count = [t \in Threads |-> 0]
  /\ destroying = [t \in Threads \cup {Router} |-> None]

(* PeerManager's mMutex: only eraseIfFound keeps it for longer than a step. *)
MutexFree == destroying[Router] = None

Tracked(e) == e = mClients \/ e \in mIpc
-----------------------------------------------------------------------------
(* The other ends: a client or an executor may go away at any time.         *)

Leave(e) ==
  /\ socket[e] = "up"
  /\ socket' = [socket EXCEPT ![e] = "down"]
  /\ UNCHANGED <<tableVars, listVars, routerVars, life, sending, out,
                 threadVars, destroying>>
-----------------------------------------------------------------------------
(* The router thread: the filters for clients and executors, which may       *)
(* connect at any time.                                                    *)

Polling == router = "poll" /\ MutexFree

(* The RemoteEndpoint constructor starts the send thread, and the receive    *)
(* thread if there is routing data.                                        *)
Build(e) ==
  /\ life' = [life EXCEPT ![e] = "live"]
  /\ socket' = [socket EXCEPT ![e] = "up"]
  /\ sending' = sending \cup {e}
  /\ pc' = [pc EXCEPT ![e] = IF routing THEN "poll" ELSE "off"]
  /\ router' = "track" /\ building' = e
  /\ UNCHANGED <<tableVars, listVars, out, todo, held, count, destroying>>

Refuse(e) ==
  /\ socket' = [socket EXCEPT ![e] = "down"]
  /\ router' = "poll" /\ building' = None
  /\ UNCHANGED <<tableVars, listVars, life, sending, out, threadVars,
                 destroying>>

RefuseClient(c) ==
  /\ Polling /\ socket[c] = "idle"
  /\ mClients # None
  /\ Refuse(c)

(* The filter has looked up the routing data, for a client once, before the   *)
(* constructor does...                                                     *)
StartBuilding(e) ==
  /\ router' = "build" /\ building' = e
  /\ UNCHANGED <<tableVars, listVars, endpointVars, threadVars, destroying>>

AcceptClient(c) ==
  /\ Polling /\ socket[c] = "idle"
  /\ mClients = None /\ routing
  /\ StartBuilding(c)

(* The node is told that the computation is ready before its endpoint is     *)
(* built.                                                                  *)
RegisterExecutor(p) ==
  /\ Polling /\ socket[p] = "idle"
  /\ StartBuilding(p)

BuildEndpoint == router = "build" /\ routing /\ Build(building)

(* ...which throws if the data is gone; the connection is closed. *)
BuildThrows == router = "build" /\ ~routing /\ Refuse(building)

(* Without routing data a client is accepted all the same, only to be kicked. *)
AcceptTemporarily(c) ==
  /\ Polling /\ socket[c] = "idle"
  /\ mClients = None /\ ~routing
  /\ Build(c)

(* trackClient: the table entry and the stashed messages, under mMutex.  The *)
(* stash is kept.                                                           *)
TrackClient ==
  /\ router = "track" /\ building \in Conns
  /\ mClients' = building
  /\ out' = [out EXCEPT ![building] = @ \o mPendingEnvelopes]
  /\ router' = "poll" /\ building' = None
  /\ UNCHANGED <<routing, mIpc, mPendingEnvelopes, listVars, socket, life,
                 sending, threadVars, destroying>>

TrackIpcAsClient ==
  /\ router = "track" /\ building \in Comps
  /\ mClients' = building
  /\ router' = "poll" /\ building' = None
  /\ UNCHANGED <<routing, mIpc, mPendingEnvelopes, listVars, endpointVars,
                 threadVars, destroying>>

TrackIpc ==
  /\ router = "track" /\ building \in Comps
  /\ mIpc' = mIpc \cup {building}
  /\ router' = "poll" /\ building' = None
  /\ UNCHANGED <<routing, mClients, mPendingEnvelopes, listVars, endpointVars,
                 threadVars, destroying>>
-----------------------------------------------------------------------------
(* ~RemoteEndpoint, in thread t: both threads are told to end, ... *)
BeginDestroy(t, e) ==
  /\ life' = [life EXCEPT ![e] = "dying"]
  /\ sending' = sending \ {e}
  /\ destroying' = [destroying EXCEPT ![t] = e]

(* ...and joined.  The send thread ends at once, its queue being shut down;  *)
(* the receive thread when it is done with its message.                     *)
Joined(t) ==
  /\ destroying[t] # None
  /\ pc[destroying[t]] = "off"
  /\ life' = [life EXCEPT ![destroying[t]] = "gone"]
  /\ destroying' = [destroying EXCEPT ![t] = None]

(* No other thread points to e. *)
LastPointer(t, e) == \A u \in Threads \ {t} : held[u] # e

(* destroyEndpoints, after each poll: eraseIfFound drops the table's pointer *)
(* under mMutex.                                                           *)
DestroyEndpoints ==
  /\ Polling /\ mEndpointsToDelete # <<>>
  /\ mEndpointsToDelete' = Tail(mEndpointsToDelete)
  /\ LET e == Head(mEndpointsToDelete) IN
       /\ mClients' = IF mClients = e THEN None ELSE mClients
       /\ mIpc' = mIpc \ {e}
       /\ IF Tracked(e) /\ LastPointer(Router, e)
          THEN BeginDestroy(Router, e)
          ELSE UNCHANGED <<life, sending, destroying>>
  /\ UNCHANGED <<routing, mPendingEnvelopes, flagged, routerVars, socket, out,
                 threadVars>>

RouterJoined ==
  /\ Joined(Router)
  /\ UNCHANGED <<tableVars, listVars, routerVars, socket, sending, out,
                 threadVars>>
-----------------------------------------------------------------------------
(* The threads of an endpoint.                                             *)

(* flagForDestruction: "this flag prevents it from being queued more than   *)
(* once" (RemoteEndpoint.h).                                               *)
FlagAgain(e) ==
  /\ flagged' = flagged \cup {e}
  /\ mEndpointsToDelete' = Append(mEndpointsToDelete, e)

FlagForDestruction(e) ==
  /\ flagged' = flagged \cup {e}
  /\ mEndpointsToDelete' = IF e \in flagged THEN mEndpointsToDelete
                           ELSE Append(mEndpointsToDelete, e)

(* sendThread finds out, by a message that is still in the queue, that the   *)
(* connection has failed.  What it has sent before is not kept track of.    *)
SendFails(e) ==
  /\ e \in sending /\ out[e] # <<>> /\ socket[e] = "down"
  /\ sending' = sending \ {e}
  /\ FlagForDestruction(e)
  /\ UNCHANGED <<tableVars, routerVars, socket, life, out, threadVars, destroying>>

ReceiveThreadEnds(e) ==
  /\ pc[e] = "poll"
  /\ pc' = [pc EXCEPT ![e] = "off"]
  /\ UNCHANGED <<tableVars, routerVars, endpointVars, todo, held, count,
                 destroying>>

(* receiveThread: the connection has failed, or mShutdown is set. *)
ReceiveFails(e) ==
  /\ socket[e] = "down" /\ life[e] = "live"
  /\ FlagForDestruction(e)
  /\ ReceiveThreadEnds(e)

ReceiveShutDown(e) ==
  /\ life[e] = "dying"
  /\ ReceiveThreadEnds(e)
  /\ UNCHANGED listVars

(* A message arrives, for the destinations ds: of a client, computations; of *)
(* a computation, the client and other computations.  What the endpoint knows *)
(* of the routing does not go away with the table's entry, and what the other *)
(* end sent before it left may still arrive.  That a computation addresses   *)
(* itself is left out.                                                      *)
MayAddress(t) ==
  IF t \in Conns THEN Comps ELSE Dests \ {t}

StartRouting(t, ds) ==
  /\ pc[t] = "poll" /\ count[t] < MaxMsgs[t]
  /\ count' = [count EXCEPT ![t] = @ + 1]
  /\ todo' = [todo EXCEPT ![t] = ds]
  /\ pc' = [pc EXCEPT ![t] = "route"]
  /\ UNCHANGED <<tableVars, listVars, routerVars, endpointVars, held, destroying>>

ReceiveEnvelope(e, ds) == life[e] = "live" /\ StartRouting(e, ds)
-----------------------------------------------------------------------------
(* routeMessage, in thread t.                                              *)

Message(t) == [from |-> t, n |-> count[t]]

Finished(t, ds) == IF ds = {} THEN "poll" ELSE "route"

(* findClientPeer, for the client the first of all, and findIpcPeer. *)
EndpointFor(d) ==
  IF d = Client THEN mClients ELSE IF d \in mIpc THEN d ELSE None

NextDest(t, d) == d \in todo[t] /\ (Client \in todo[t] => d = Client)

FindPeer(t, d) ==
  /\ pc[t] = "route" /\ NextDest(t, d) /\ MutexFree
  /\ EndpointFor(d) # None
  /\ held' = [held EXCEPT ![t] = EndpointFor(d)]
  /\ pc' = [pc EXCEPT ![t] = "queue"]
  /\ todo' = [todo EXCEPT ![t] = @ \ {d}]
  /\ UNCHANGED <<tableVars, listVars, routerVars, endpointVars, count, destroying>>

(* No client: stashEnvelope is next... *)
NoClientPeer(t) ==
  /\ pc[t] = "route" /\ NextDest(t, Client) /\ MutexFree
  /\ EndpointFor(Client) = None
  /\ pc' = [pc EXCEPT ![t] = "stash"]
  /\ todo' = [todo EXCEPT ![t] = @ \ {Client}]
  /\ UNCHANGED <<tableVars, listVars, routerVars, endpointVars, held, count,
                 destroying>>

(* ...but a message for a computation that is not there is dropped. *)
NoIpcPeer(t, p) ==
  /\ pc[t] = "route" /\ NextDest(t, p) /\ MutexFree
  /\ p \in Comps /\ EndpointFor(p) = None
  /\ todo' = [todo EXCEPT ![t] = @ \ {p}]
  /\ pc' = [pc EXCEPT ![t] = Finished(t, todo[t] \ {p})]
  /\ UNCHANGED <<tableVars, listVars, routerVars, endpointVars, held, count,
                 destroying>>

(* queueEnvelope; a queue that is shut down takes nothing. *)
QueueEnvelope(t, e) ==
  out' = IF life[e] = "live" THEN [out EXCEPT ![e] = Append(@, Message(t))] ELSE out

(* The pointer is dropped. *)
Release(t, e, to) ==
  /\ held' = [held EXCEPT ![t] = None]
  /\ IF ~Tracked(e) /\ LastPointer(t, e)
     THEN BeginDestroy(t, e) /\ pc' = [pc EXCEPT ![t] = "join"]
     ELSE pc' = [pc EXCEPT ![t] = to] /\ UNCHANGED <<life, sending, destroying>>

QueueAndRelease(t) ==
  /\ pc[t] = "queue"
  /\ QueueEnvelope(t, held[t])
  /\ Release(t, held[t], Finished(t, todo[t]))
  /\ UNCHANGED <<tableVars, listVars, routerVars, socket, todo, count>>

ThreadJoined(t) ==
  /\ Joined(t)
  /\ pc' = [pc EXCEPT ![t] = Finished(t, todo[t])]
  /\ UNCHANGED <<tableVars, listVars, routerVars, socket, sending, out, todo,
                 held, count>>

(* stashEnvelope looks for the client again, under mMutex. *)
StashUnchecked(t) ==
  /\ pc[t] = "stash" /\ MutexFree
  /\ mPendingEnvelopes' = Append(mPendingEnvelopes, Message(t))
  /\ pc' = [pc EXCEPT ![t] = Finished(t, todo[t])]
  /\ UNCHANGED <<routing, mClients, mIpc, listVars, routerVars, endpointVars,
                 todo, held, count, destroying>>

StashAtFront(t) ==
  /\ pc[t] = "stash" /\ MutexFree
  /\ IF mClients # None
     THEN QueueEnvelope(t, mClients) /\ UNCHANGED mPendingEnvelopes
     ELSE /\ mPendingEnvelopes' = <<Message(t)>> \o mPendingEnvelopes
          /\ UNCHANGED out
  /\ pc' = [pc EXCEPT ![t] = Finished(t, todo[t])]
  /\ UNCHANGED <<routing, mClients, mIpc, listVars, routerVars, socket, life,
                 sending, todo, held, count, destroying>>

StashEnvelope(t) ==
  /\ pc[t] = "stash" /\ MutexFree
  /\ IF mClients # None
     THEN QueueEnvelope(t, mClients) /\ UNCHANGED mPendingEnvelopes
     ELSE /\ mPendingEnvelopes' = Append(mPendingEnvelopes, Message(t))
          /\ UNCHANGED out
  /\ pc' = [pc EXCEPT ![t] = Finished(t, todo[t])]
  /\ UNCHANGED <<routing, mClients, mIpc, listVars, routerVars, socket, life,
                 sending, todo, held, count, destroying>>
-----------------------------------------------------------------------------
(* The serviceToRouter thread: what NodeService sends.                      *)

(* A ControlMessage or EngineReadyMessage, already addressed; dropped if     *)
(* there is no routing data.                                               *)
RouteFromService(d) == routing /\ StartRouting(Service, {d})

(* kickClient: a SessionStatus is queued and the queue drained... *)
KickClient ==
  /\ pc[Service] = "poll" /\ MutexFree /\ count[Service] < MaxMsgs[Service]
  /\ mClients # None
  /\ held' = [held EXCEPT ![Service] = mClients]
  /\ count' = [count EXCEPT ![Service] = @ + 1]
  /\ out' = [out EXCEPT ![mClients] = Append(@, [from |-> Service,
                                                 n |-> count[Service] + 1])]
  /\ pc' = [pc EXCEPT ![Service] = "drain"]
  /\ UNCHANGED <<tableVars, listVars, routerVars, socket, life, sending, todo,
                 destroying>>

(* ...and then, or after 5 seconds, the endpoint is flagged. *)
Drained ==
  /\ pc[Service] = "drain"
  /\ FlagForDestruction(held[Service])
  /\ Release(Service, held[Service], "poll")
  /\ UNCHANGED <<tableVars, routerVars, socket, out, todo, count>>

(* Without a client, its stash is cleared; one may have come meanwhile. *)
KickNoClient ==
  /\ pc[Service] = "poll" /\ MutexFree
  /\ mClients = None
  /\ pc' = [pc EXCEPT ![Service] = "clear"]
  /\ UNCHANGED <<tableVars, listVars, routerVars, endpointVars, todo, held, count,
                 destroying>>

ClearStashedEnvelopes ==
  /\ pc[Service] = "clear" /\ MutexFree
  /\ mPendingEnvelopes' = <<>>
  /\ pc' = [pc EXCEPT ![Service] = "poll"]
  /\ UNCHANGED <<routing, mClients, mIpc, listVars, routerVars, endpointVars, todo,
                 held, count, destroying>>

DeleteRoutingData ==
  /\ pc[Service] = "poll" /\ routing
  /\ routing' = FALSE
  /\ UNCHANGED <<mClients, mIpc, mPendingEnvelopes, listVars, routerVars,
                 endpointVars, threadVars, destroying>>
-----------------------------------------------------------------------------
RouterThread ==
  \/ BuildEndpoint \/ BuildThrows \/ TrackClient \/ TrackIpc \/ RouterJoined
  \/ \E c \in Conns : RefuseClient(c) \/ AcceptClient(c) \/ AcceptTemporarily(c)
  \/ \E p \in Comps : RegisterExecutor(p)

RouteStep(t) ==
  \/ NoClientPeer(t) \/ QueueAndRelease(t) \/ StashEnvelope(t) \/ ThreadJoined(t)
  \/ \E d \in Dests : FindPeer(t, d) \/ NoIpcPeer(t, d)

Next ==
  \/ \E e \in Endpoints :
       \/ Leave(e) \/ SendFails(e)
       \/ ReceiveFails(e) \/ ReceiveShutDown(e)
       \/ \E ds \in SUBSET MayAddress(e) \ {{}} : ReceiveEnvelope(e, ds)
  \/ RouterThread \/ DestroyEndpoints
  \/ \E t \in Threads : RouteStep(t)
  \/ \E d \in Dests : RouteFromService(d)
  \/ KickClient \/ Drained \/ KickNoClient \/ ClearStashedEnvelopes
  \/ DeleteRoutingData

Spec == Init /\ [][Next]_vars

(* Threads run.  Messages, connections and requests come as they like.       *)
(* DestroyEndpoints follows every poll, which lasts at most a second.       *)
FairSpec ==
  /\ Spec
  /\ WF_vars(RouterThread) /\ SF_vars(DestroyEndpoints)
  /\ WF_vars(Drained \/ ClearStashedEnvelopes)
  /\ \A t \in Threads : WF_vars(RouteStep(t))
  /\ \A e \in Endpoints : WF_vars(ReceiveFails(e) \/ ReceiveShutDown(e))
-----------------------------------------------------------------------------
(* What one thread routes reaches an endpoint in order and at most once, a   *)
(* message that was stashed, or looked up before a client was tracked and     *)
(* queued after, included.                                                  *)
InOrder ==
  \A e \in Endpoints : \A i, j \in 1..Len(out[e]) :
    i < j /\ out[e][i].from = out[e][j].from => out[e][i].n < out[e][j].n

(* No message is left in the stash that the client, once it is tracked, has   *)
(* not been given: stashEnvelope and trackClient exclude each other.         *)
StashDelivered ==
  mClients # None =>
    \A i \in 1..Len(mPendingEnvelopes) :
      \E j \in 1..Len(out[mClients]) : out[mClients][j] = mPendingEnvelopes[i]

(* The raw pointers of destroyEndpoints and the pointers that routeMessage    *)
(* and kickClient hold are to endpoints whose destructor has not begun.      *)
NoDangling ==
  /\ \A i \in 1..Len(mEndpointsToDelete) : life[mEndpointsToDelete[i]] = "live"
  /\ \A t \in Threads : held[t] # None => life[held[t]] = "live"

(* "untracking will release the shared pointer held by PeerManager, causing  *)
(* deletion once any in-progress message queueing is complete"              *)
(* (ThreadedNodeRouter.cc:78): an endpoint that is untracked is gone in the   *)
(* end.                                                                    *)
UntrackedDeleted ==
  \A e \in Endpoints : (e \in flagged /\ ~Tracked(e) /\ building # e) ~> life[e] = "gone"
=============================================================================
