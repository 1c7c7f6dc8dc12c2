--------------------------- MODULE NodeConnection ----------------------------
(***************************************************************************)
(* The routers of two nodes connecting to each other: routeMessage, the     *)
(* node filter of NodeRouter::threadProc and RemoteEndpoint.                *)
(*                                                                         *)
(* Either router may start a connection when it has a message for the       *)
(* other's node.  The connection that stays is always the one from the      *)
(* greater node id: the lesser node connects only to make itself known, and *)
(* its endpoint waits on mPeerSetCondition to be given a connection.        *)
(*                                                                         *)
(* An endpoint is <<n, g>>, the g-th that node n makes for the other node.  *)
(* A TCP connection is named by the endpoint that opened it.  An endpoint   *)
(* is alive from its construction until its destructor has returned.        *)
(***************************************************************************)
EXTENDS Naturals

CONSTANTS
  Lo, Hi,        \* the nodes: Lo has the lesser id
  MaxEndpoints,  \* bound: endpoints that each node makes
  None           \* no endpoint, no connection

ASSUME NodesAssumption ==
  /\ Lo # Hi
  /\ MaxEndpoints \in [{Lo, Hi} -> Nat]
  /\ None \notin {Lo, Hi} \X Nat

Nodes == {Lo, Hi}
Endpoints == UNION {{n} \X (1..MaxEndpoints[n]) : n \in Nodes}
Of(n) == {e \in Endpoints : e[1] = n}

VARIABLES
  known,             \* nodes whose routing data holds the other node's address
  made,              \* number of endpoints made by each node
  mNodes,            \* each node's tracked endpoint for the other
  routing,           \* endpoint built by routeMessage and not yet tracked
  mEndpointsToDelete,\* endpoints flagged and not yet seen by destroyEndpoints
  flagged,           \* mFlaggedForDestruction
  mShutdown,         \* the destructor has begun
  mPeer,             \* the connection each endpoint uses
  queued,            \* endpoints with a message to send
  sender, receiver,  \* where the endpoint's threads are
  tcp,               \* state of each connection
  router, dying,     \* where each router thread is, with which endpoint
  corrupted,         \* a peer was deleted under the threads that use it
  failed,            \* history: a connection was refused or lost
  turnedAway         \* history: Lo was turned away for want of its address

epVars == <<mEndpointsToDelete, flagged, mShutdown, mPeer, queued, sender, receiver>>
vars == <<known, made, mNodes, routing, epVars, tcp, router, dying, corrupted,
          failed, turnedAway>>

TypeOK ==
  /\ known \subseteq Nodes
  /\ made \in [Nodes -> Nat]
  /\ mNodes \in [Nodes -> Endpoints \cup {None}]
  /\ routing \in [Nodes -> Endpoints \cup {None}]
  /\ mEndpointsToDelete \subseteq Endpoints
  /\ flagged \subseteq Endpoints
  /\ mShutdown \subseteq Endpoints
  /\ mPeer \in [Endpoints -> Endpoints \cup {None}]
  /\ queued \subseteq Endpoints
  /\ sender \in [Endpoints -> {"none", "connect", "setPeer", "waiting", "woken",
                               "send", "exited"}]
  /\ receiver \in [Endpoints -> {"none", "check", "waiting", "woken", "recv",
                                 "exited"}]
  /\ tcp \in [Endpoints -> {"none", "pending", "open", "closed"}]
  /\ router \in [Nodes -> {"poll", "notify", "join"}]
  /\ dying \in [Nodes -> Endpoints \cup {None}]
  /\ corrupted \in BOOLEAN /\ failed \in BOOLEAN /\ turnedAway \in BOOLEAN

Init ==
  /\ known = {}
  /\ made = [n \in Nodes |-> 0]
  /\ mNodes = [n \in Nodes |-> None]
  /\ routing = [n \in Nodes |-> None]
  /\ mEndpointsToDelete = {} /\ flagged = {} /\ mShutdown = {}
  /\ mPeer = [e \in Endpoints |-> None]
  /\ queued = {}
  /\ sender = [e \in Endpoints |-> "none"]
  /\ receiver = [e \in Endpoints |-> "none"]
  /\ tcp = [e \in Endpoints |-> "none"]
  /\ router = [n \in Nodes |-> "poll"]
  /\ dying = [n \in Nodes |-> None]
  /\ corrupted = FALSE /\ failed = FALSE /\ turnedAway = FALSE
-----------------------------------------------------------------------------
(* The other node's address arrives with a session's routing data.  That a   *)
(* deletion of the last such session takes it away again is left out.        *)
LearnNode(n) ==
  /\ known' = known \cup {n}
  /\ n \notin known
  /\ UNCHANGED <<made, mNodes, routing, epVars, tcp, router, dying, corrupted,
                 failed, turnedAway>>

Fresh(n) == <<n, made[n] + 1>>

(* createNodeRemoteEndpoint starts both threads, without a connection. *)
MakeUnconnected(n) ==
  /\ made[n] < MaxEndpoints[n]
  /\ made' = [made EXCEPT ![n] = @ + 1]
  /\ sender' = [sender EXCEPT ![Fresh(n)] = "connect"]
  /\ receiver' = [receiver EXCEPT ![Fresh(n)] = "check"]

(* routeMessage, on an endpoint's receive thread: mNodeConnectionMutex is    *)
(* held from the second lookup until the new endpoint is tracked.           *)
RouteToNew(n) ==
  /\ n \in known
  /\ mNodes[n] = None /\ routing[n] = None
  /\ MakeUnconnected(n)
  /\ routing' = [routing EXCEPT ![n] = Fresh(n)]
  /\ UNCHANGED <<known, mNodes, mEndpointsToDelete, flagged, mShutdown, mPeer,
                 queued, tcp, router, dying, corrupted, failed, turnedAway>>

TrackNode(n) ==
  /\ routing[n] # None
  /\ mNodes' = [mNodes EXCEPT ![n] = routing[n]]
  /\ queued' = queued \cup {routing[n]}
  /\ routing' = [routing EXCEPT ![n] = None]
  /\ UNCHANGED <<known, made, mEndpointsToDelete, flagged, mShutdown, mPeer,
                 sender, receiver, tcp, router, dying, corrupted, failed,
                 turnedAway>>

RouteToTracked(n) ==
  /\ n \in known
  /\ mNodes[n] # None
  /\ queued' = queued \cup {mNodes[n]}
  /\ UNCHANGED <<known, made, mNodes, routing, mEndpointsToDelete, flagged,
                 mShutdown, mPeer, sender, receiver, tcp, router, dying,
                 corrupted, failed, turnedAway>>
-----------------------------------------------------------------------------
(* flagForDestruction: an endpoint enters the list once. *)
FlagForDestruction(e) ==
  /\ flagged' = flagged \cup {e}
  /\ mEndpointsToDelete' = IF e \in flagged THEN mEndpointsToDelete
                           ELSE mEndpointsToDelete \cup {e}

(* notify_all on mPeerSetCondition. *)
Notified(pcs, e) == [pcs EXCEPT ![e] = IF @ = "waiting" THEN "woken" ELSE @]

(* sendThreadWithConnect: connect and register with the other node. *)
ConnectPeer(e) ==
  /\ sender[e] = "connect"
  /\ sender' = [sender EXCEPT ![e] = "setPeer"]
  /\ tcp' = [tcp EXCEPT ![e] = "pending"]
  /\ UNCHANGED <<known, made, mNodes, routing, mEndpointsToDelete, flagged,
                 mShutdown, mPeer, queued, receiver, router, dying, corrupted,
                 failed, turnedAway>>

(* The error is logged and the endpoint flagged, and the thread goes on. *)
ConnectFails(e) ==
  /\ sender[e] = "connect"
  /\ sender' = [sender EXCEPT ![e] = "setPeer"]
  /\ tcp' = [tcp EXCEPT ![e] = "closed"]
  /\ failed' = TRUE
  /\ FlagForDestruction(e)
  /\ UNCHANGED <<known, made, mNodes, routing, mShutdown, mPeer, queued, receiver,
                 router, dying, corrupted, turnedAway>>

(* The greater node uses its own connection. *)
UseOwnPeer(e) ==
  /\ sender[e] = "setPeer" /\ e[1] = Hi
  /\ mPeer' = [mPeer EXCEPT ![e] = e]
  /\ sender' = [sender EXCEPT ![e] = "send"]
  /\ receiver' = Notified(receiver, e)
  /\ UNCHANGED <<known, made, mNodes, routing, mEndpointsToDelete, flagged,
                 mShutdown, queued, tcp, router, dying, corrupted, failed,
                 turnedAway>>

(* The lesser node waits to be connected to.  mShutdown is read only after a *)
(* wait.                                                                   *)
AwaitNothing(e) ==
  /\ sender[e] = "setPeer" /\ e[1] = Lo
  /\ mPeer' = [mPeer EXCEPT ![e] = e]
  /\ sender' = [sender EXCEPT ![e] = "send"]
  /\ receiver' = Notified(receiver, e)
  /\ UNCHANGED <<known, made, mNodes, routing, mEndpointsToDelete, flagged,
                 mShutdown, queued, tcp, router, dying, corrupted, failed,
                 turnedAway>>

AwaitPeer(e) ==
  /\ sender[e] = "setPeer" /\ e[1] = Lo
  /\ sender' = [sender EXCEPT ![e] = IF mPeer[e] = None THEN "waiting" ELSE "send"]
  /\ UNCHANGED <<known, made, mNodes, routing, mEndpointsToDelete, flagged,
                 mShutdown, mPeer, queued, receiver, tcp, router, dying,
                 corrupted, failed, turnedAway>>

SenderWakes(e) ==
  /\ sender[e] = "woken"
  /\ sender' = [sender EXCEPT ![e] = IF e \in mShutdown THEN "exited"
                                     ELSE IF mPeer[e] = None THEN "waiting"
                                     ELSE "send"]
  /\ UNCHANGED <<known, made, mNodes, routing, mEndpointsToDelete, flagged,
                 mShutdown, mPeer, queued, receiver, tcp, router, dying,
                 corrupted, failed, turnedAway>>

(* sendThread: a message goes out, ... *)
SendMessage(e) ==
  /\ sender[e] = "send" /\ e \in queued /\ e \notin mShutdown
  /\ tcp[mPeer[e]] \in {"pending", "open"}
  /\ queued' = queued \ {e}
  /\ UNCHANGED <<known, made, mNodes, routing, mEndpointsToDelete, flagged,
                 mShutdown, mPeer, sender, receiver, tcp, router, dying,
                 corrupted, failed, turnedAway>>

(* ...or cannot, ... *)
SendFails(e) ==
  /\ sender[e] = "send" /\ e \in queued
  /\ tcp[mPeer[e]] = "closed"
  /\ sender' = [sender EXCEPT ![e] = "exited"]
  /\ FlagForDestruction(e)
  /\ UNCHANGED <<known, made, mNodes, routing, mShutdown, mPeer, queued, receiver,
                 tcp, router, dying, corrupted, failed, turnedAway>>

(* ...or the thread ends: it reads mShutdown when it has taken a message, or  *)
(* the destructor shuts the queue down.                                     *)
SenderShutDown(e) ==
  /\ sender[e] = "send" /\ e \in mShutdown
  /\ e \in queued \/ router[e[1]] = "join"
  /\ sender' = [sender EXCEPT ![e] = "exited"]
  /\ UNCHANGED <<known, made, mNodes, routing, mEndpointsToDelete, flagged,
                 mShutdown, mPeer, queued, receiver, tcp, router, dying,
                 corrupted, failed, turnedAway>>
-----------------------------------------------------------------------------
(* receiveThread. *)
ReceiverChecks(e) ==
  /\ receiver[e] = "check"
  /\ receiver' = [receiver EXCEPT ![e] = IF mPeer[e] = None THEN "waiting" ELSE "recv"]
  /\ UNCHANGED <<known, made, mNodes, routing, mEndpointsToDelete, flagged,
                 mShutdown, mPeer, queued, sender, tcp, router, dying, corrupted,
                 failed, turnedAway>>

ReceiverWakes(e) ==
  /\ receiver[e] = "woken"
  /\ receiver' = [receiver EXCEPT ![e] = IF e \in mShutdown THEN "exited"
                                         ELSE IF mPeer[e] = None THEN "waiting"
                                         ELSE "recv"]
  /\ UNCHANGED <<known, made, mNodes, routing, mEndpointsToDelete, flagged,
                 mShutdown, mPeer, queued, sender, tcp, router, dying, corrupted,
                 failed, turnedAway>>

(* mShutdown is read after each poll, before the socket. *)
ReceiverShutDown(e) ==
  /\ receiver[e] = "recv" /\ e \in mShutdown
  /\ receiver' = [receiver EXCEPT ![e] = "exited"]
  /\ UNCHANGED <<known, made, mNodes, routing, mEndpointsToDelete, flagged,
                 mShutdown, mPeer, queued, sender, tcp, router, dying, corrupted,
                 failed, turnedAway>>

ReceiveFails(e) ==
  /\ receiver[e] = "recv" /\ e \notin mShutdown
  /\ tcp[mPeer[e]] = "closed"
  /\ receiver' = [receiver EXCEPT ![e] = "exited"]
  /\ FlagForDestruction(e)
  /\ UNCHANGED <<known, made, mNodes, routing, mShutdown, mPeer, queued, sender,
                 tcp, router, dying, corrupted, failed, turnedAway>>

(* A connection breaks. *)
ConnectionLost(c) ==
  /\ tcp[c] \in {"pending", "open"}
  /\ tcp' = [tcp EXCEPT ![c] = "closed"]
  /\ failed' = TRUE
  /\ UNCHANGED <<known, made, mNodes, routing, epVars, router, dying, corrupted,
                 turnedAway>>
-----------------------------------------------------------------------------
(* The router thread: the filter for node connections, under                *)
(* mNodeConnectionMutex.                                                   *)

Arrives(c, n) ==
  /\ c[1] # n /\ tcp[c] = "pending"
  /\ router[n] = "poll" /\ routing[n] = None

(* The greater node rejects the connection and makes one of its own, ... *)
Reciprocate(c) ==
  /\ Arrives(c, Hi) /\ mNodes[Hi] = None
  /\ Hi \in known
  /\ MakeUnconnected(Hi)
  /\ mNodes' = [mNodes EXCEPT ![Hi] = Fresh(Hi)]
  /\ tcp' = [tcp EXCEPT ![c] = "closed"]
  /\ UNCHANGED <<known, routing, mEndpointsToDelete, flagged, mShutdown, mPeer,
                 queued, router, dying, corrupted, failed, turnedAway>>

(* ...unless it does not know the address ("Unexpected node connection")... *)
TurnAway(c) ==
  /\ Arrives(c, Hi) /\ mNodes[Hi] = None
  /\ Hi \notin known
  /\ tcp' = [tcp EXCEPT ![c] = "closed"]
  /\ turnedAway' = TRUE
  /\ UNCHANGED <<known, made, mNodes, routing, epVars, router, dying, corrupted,
                 failed>>

(* ...or has one. *)
RejectLesserKept(c) ==
  /\ Arrives(c, Hi) /\ mNodes[Hi] # None
  /\ mPeer' = [mPeer EXCEPT ![mNodes[Hi]] = c]
  /\ tcp' = [tcp EXCEPT ![c] = "open"]
  /\ UNCHANGED <<known, made, mNodes, routing, mEndpointsToDelete, flagged,
                 mShutdown, queued, sender, receiver, router, dying, corrupted,
                 failed, turnedAway>>

RejectLesser(c) ==
  /\ Arrives(c, Hi) /\ mNodes[Hi] # None
  /\ tcp' = [tcp EXCEPT ![c] = "closed"]
  /\ UNCHANGED <<known, made, mNodes, routing, epVars, router, dying, corrupted,
                 failed, turnedAway>>

(* The lesser node accepts the connection in a new endpoint... *)
AcceptGreater(c) ==
  /\ Arrives(c, Lo) /\ mNodes[Lo] = None
  /\ made[Lo] < MaxEndpoints[Lo]
  /\ made' = [made EXCEPT ![Lo] = @ + 1]
  /\ mNodes' = [mNodes EXCEPT ![Lo] = Fresh(Lo)]
  /\ mPeer' = [mPeer EXCEPT ![Fresh(Lo)] = c]
  /\ sender' = [sender EXCEPT ![Fresh(Lo)] = "send"]
  /\ receiver' = [receiver EXCEPT ![Fresh(Lo)] = "check"]
  /\ tcp' = [tcp EXCEPT ![c] = "open"]
  /\ UNCHANGED <<known, routing, mEndpointsToDelete, flagged, mShutdown, queued,
                 router, dying, corrupted, failed, turnedAway>>

(* ...or hands it to the one that is waiting.  A peer that is already there  *)
(* is deleted, though the threads may be using it.                          *)
SetPeerUnnotified(c) ==
  /\ Arrives(c, Lo) /\ mNodes[Lo] # None
  /\ corrupted' = (corrupted \/ mPeer[mNodes[Lo]] # None)
  /\ mPeer' = [mPeer EXCEPT ![mNodes[Lo]] = c]
  /\ tcp' = [tcp EXCEPT ![c] = "open"]
  /\ UNCHANGED <<known, made, mNodes, routing, mEndpointsToDelete, flagged,
                 mShutdown, queued, sender, receiver, router, dying, failed,
                 turnedAway>>

SetPeer(c) ==
  /\ Arrives(c, Lo) /\ mNodes[Lo] # None
  /\ corrupted' = (corrupted \/ mPeer[mNodes[Lo]] # None)
  /\ mPeer' = [mPeer EXCEPT ![mNodes[Lo]] = c]
  /\ sender' = Notified(sender, mNodes[Lo])
  /\ receiver' = Notified(receiver, mNodes[Lo])
  /\ tcp' = [tcp EXCEPT ![c] = "open"]
  /\ UNCHANGED <<known, made, mNodes, routing, mEndpointsToDelete, flagged,
                 mShutdown, queued, router, dying, failed, turnedAway>>
-----------------------------------------------------------------------------
(* The router thread: destroyEndpoints and ~RemoteEndpoint.                 *)

(* A flagged endpoint is untracked and its destructor begins.               *)
DestroyEndpoint(e) ==
  LET n == e[1] IN
  /\ router[n] = "poll"
  /\ e \in mEndpointsToDelete /\ mNodes[n] = e
  /\ mEndpointsToDelete' = mEndpointsToDelete \ {e}
  /\ mNodes' = [mNodes EXCEPT ![n] = None]
  /\ mShutdown' = mShutdown \cup {e}
  /\ router' = [router EXCEPT ![n] = "notify"]
  /\ dying' = [dying EXCEPT ![n] = e]
  /\ UNCHANGED <<known, made, routing, flagged, mPeer, queued, sender, receiver,
                 tcp, corrupted, failed, turnedAway>>

(* An endpoint that is not tracked yet is dropped from the list, and stays. *)
DestroyUntracked(e) ==
  LET n == e[1] IN
  /\ router[n] = "poll"
  /\ e \in mEndpointsToDelete /\ mNodes[n] # e
  /\ mEndpointsToDelete' = mEndpointsToDelete \ {e}
  /\ UNCHANGED <<known, made, mNodes, routing, flagged, mShutdown, mPeer, queued,
                 sender, receiver, tcp, router, dying, corrupted, failed,
                 turnedAway>>

(* The destructor wakes whoever waits for a peer, closes the connection and  *)
(* shuts the queue down, ...                                                *)
NotifyShutdownNullPeer(n) ==
  LET e == dying[n] IN
  /\ router[n] = "notify"
  /\ router' = [router EXCEPT ![n] = "join"]
  /\ sender' = Notified(sender, e)
  /\ receiver' = Notified(receiver, e)
  /\ tcp' = [c \in DOMAIN tcp \cup {mPeer[e]} |->
               IF c = mPeer[e] THEN "closed" ELSE tcp[c]]
  /\ UNCHANGED <<known, made, mNodes, routing, mEndpointsToDelete, flagged,
                 mShutdown, mPeer, queued, dying, corrupted, failed, turnedAway>>

NotifyShutdown(n) ==
  LET e == dying[n] IN
  /\ router[n] = "notify"
  /\ router' = [router EXCEPT ![n] = "join"]
  /\ sender' = Notified(sender, e)
  /\ receiver' = Notified(receiver, e)
  /\ tcp' = IF mPeer[e] = None THEN tcp ELSE [tcp EXCEPT ![mPeer[e]] = "closed"]
  /\ UNCHANGED <<known, made, mNodes, routing, mEndpointsToDelete, flagged,
                 mShutdown, mPeer, queued, dying, corrupted, failed, turnedAway>>

(* ...and joins the threads. *)
JoinThreads(n) ==
  LET e == dying[n] IN
  /\ router[n] = "join"
  /\ sender[e] = "exited" /\ receiver[e] = "exited"
  /\ router' = [router EXCEPT ![n] = "poll"]
  /\ dying' = [dying EXCEPT ![n] = None]
  /\ UNCHANGED <<known, made, mNodes, routing, epVars, tcp, corrupted, failed,
                 turnedAway>>
-----------------------------------------------------------------------------
Sender(e) ==
  \/ ConnectPeer(e) \/ ConnectFails(e) \/ UseOwnPeer(e) \/ AwaitPeer(e)
  \/ SenderWakes(e) \/ SendMessage(e) \/ SendFails(e) \/ SenderShutDown(e)

Receiver(e) ==
  \/ ReceiverChecks(e) \/ ReceiverWakes(e) \/ ReceiverShutDown(e)
  \/ ReceiveFails(e)

Filter(n) ==
  \E c \in Endpoints :
    \/ n = Hi /\ (Reciprocate(c) \/ TurnAway(c) \/ RejectLesser(c))
    \/ n = Lo /\ (AcceptGreater(c) \/ SetPeer(c))

Reaper(n) ==
  \/ NotifyShutdown(n) \/ JoinThreads(n)
  \/ \E e \in Of(n) : DestroyEndpoint(e) \/ DestroyUntracked(e)

Next ==
  \/ \E n \in Nodes : \/ LearnNode(n) \/ RouteToNew(n) \/ TrackNode(n)
                      \/ RouteToTracked(n) \/ Filter(n) \/ Reaper(n)
  \/ \E e \in Endpoints : Sender(e) \/ Receiver(e) \/ ConnectionLost(e)

Spec == Init /\ [][Next]_vars

(* Every thread runs; destroyEndpoints follows each poll.                   *)
FairSpec ==
  /\ Spec
  /\ \A n \in Nodes : WF_vars(TrackNode(n)) /\ WF_vars(Filter(n)) /\ SF_vars(Reaper(n))
  /\ \A e \in Endpoints : WF_vars(Sender(e)) /\ WF_vars(Receiver(e))
-----------------------------------------------------------------------------
(* The nodes agree on the connection that stays: an endpoint of either node *)
(* only ever uses one that the greater node opened ("force the final        *)
(* connection to always be from the greater nodeId", NodeRouter.cc:332).    *)
FromGreater == \A e \in Endpoints : mPeer[e] # None => mPeer[e][1] = Hi

(* However the two nodes race, what their endpoints use are the two ends of  *)
(* one connection, as long as none fails: a node that sends is heard.       *)
Agreed ==
  (~failed /\ mNodes[Lo] # None /\ mNodes[Hi] # None)
    => \/ None \in {mPeer[mNodes[Lo]], mPeer[mNodes[Hi]]}
       \/ mPeer[mNodes[Lo]] = mPeer[mNodes[Hi]]

(* "unexpected non-null mPeer" (RemoteEndpoint.cc:549): while no connection  *)
(* fails, however the two nodes race, a peer is never replaced under the     *)
(* threads that use it.                                                    *)
NoPeerReplaced == corrupted => failed

(* A message routed to the other node is sent, however the two nodes race   *)
(* to connect, unless a connection fails or the greater node had to turn the *)
(* lesser one away.                                                        *)
MessageSent ==
  \A e \in Endpoints : e \in queued ~> (e \notin queued \/ failed \/ turnedAway)

(* "make sure no-one is still waiting for the peer to be set"               *)
(* (RemoteEndpoint.cc:439): the destructor returns, so that the router      *)
(* thread can accept connections again.                                    *)
DestructorReturns == \A n \in Nodes : router[n] = "join" ~> router[n] = "poll"
=============================================================================
