------------------------ MODULE NodeConnectionProofs -------------------------
(***************************************************************************)
(* What holds of two connecting nodes however many endpoints they make.     *)
(***************************************************************************)
EXTENDS NodeConnection, TLAPS

(* An endpoint belongs to one of the two nodes. *)
LEMMA EndpointNode == \A e \in Endpoints : e[1] \in {Lo, Hi}
BY DEF Endpoints, Nodes

(* The next endpoint of a node that may make one. *)
LEMMA FreshEndpoint ==
  ASSUME TypeOK, NEW n \in Nodes, made[n] < MaxEndpoints[n]
  PROVE  Fresh(n) \in Endpoints
<1>1. made[n] \in Nat /\ MaxEndpoints[n] \in Nat
  BY NodesAssumption DEF TypeOK, Nodes
<1>2. made[n] + 1 \in 1..MaxEndpoints[n]
  BY <1>1
<1> QED
  BY <1>2 DEF Fresh, Endpoints

(* The constructor of a router leaves everything within its type. *)
LEMMA TypeInit == Init => TypeOK
<1> SUFFICES ASSUME Init PROVE TypeOK
  OBVIOUS
<1>1. /\ known \subseteq Nodes
      /\ mEndpointsToDelete \subseteq Endpoints
      /\ flagged \subseteq Endpoints
      /\ mShutdown \subseteq Endpoints
      /\ queued \subseteq Endpoints
      /\ corrupted \in BOOLEAN /\ failed \in BOOLEAN /\ turnedAway \in BOOLEAN
  BY DEF Init
<1>2. /\ made \in [Nodes -> Nat]
      /\ mNodes \in [Nodes -> Endpoints \cup {None}]
      /\ routing \in [Nodes -> Endpoints \cup {None}]
      /\ dying \in [Nodes -> Endpoints \cup {None}]
      /\ mPeer \in [Endpoints -> Endpoints \cup {None}]
  BY DEF Init
<1>3. /\ sender \in [Endpoints -> {"none", "connect", "setPeer", "waiting", "woken",
                                   "send", "exited"}]
      /\ receiver \in [Endpoints -> {"none", "check", "waiting", "woken", "recv",
                                     "exited"}]
      /\ tcp \in [Endpoints -> {"none", "pending", "open", "closed"}]
      /\ router \in [Nodes -> {"poll", "notify", "join"}]
  BY DEF Init
<1> QED
  BY <1>1, <1>2, <1>3 DEF TypeOK

(* TypeOK, and with it the range of mNodes and mPeer, is kept by every step. *)
LEMMA TypeKept == TypeOK /\ [Next]_vars => TypeOK'
<1> SUFFICES ASSUME TypeOK, [Next]_vars PROVE TypeOK'
  OBVIOUS
<1>1. ASSUME NEW n \in Nodes, LearnNode(n) PROVE TypeOK'
  BY <1>1 DEF TypeOK, LearnNode, epVars
<1>2. ASSUME NEW n \in Nodes, RouteToNew(n) PROVE TypeOK'
  BY <1>2, FreshEndpoint DEF TypeOK, RouteToNew, MakeUnconnected
<1>3. ASSUME NEW n \in Nodes, TrackNode(n) PROVE TypeOK'
  BY <1>3 DEF TypeOK, TrackNode
<1>4. ASSUME NEW n \in Nodes, RouteToTracked(n) PROVE TypeOK'
  BY <1>4 DEF TypeOK, RouteToTracked
<1>5. ASSUME NEW n \in Nodes, Filter(n) PROVE TypeOK'
  <2> Hi \in Nodes /\ Lo \in Nodes
    BY DEF Nodes
  <2> PICK c \in Endpoints :
        \/ Reciprocate(c) \/ TurnAway(c) \/ RejectLesser(c)
        \/ AcceptGreater(c) \/ SetPeer(c)
    BY <1>5 DEF Filter
  <2>1. CASE Reciprocate(c)
    BY <2>1, FreshEndpoint DEF TypeOK, Reciprocate, MakeUnconnected
  <2>2. CASE TurnAway(c)
    BY <2>2 DEF TypeOK, TurnAway, epVars
  <2>3. CASE RejectLesser(c)
    BY <2>3 DEF TypeOK, RejectLesser, epVars
  <2>4. CASE AcceptGreater(c)
    BY <2>4, FreshEndpoint DEF TypeOK, AcceptGreater
  <2>5. CASE SetPeer(c)
    BY <2>5 DEF TypeOK, SetPeer, Notified
  <2> QED
    BY <2>1, <2>2, <2>3, <2>4, <2>5
<1>6. ASSUME NEW n \in Nodes, Reaper(n) PROVE TypeOK'
  <2>1. CASE NotifyShutdown(n)
    BY <2>1 DEF TypeOK, NotifyShutdown, Notified
  <2>2. CASE JoinThreads(n)
    BY <2>2 DEF TypeOK, JoinThreads, epVars
  <2>3. ASSUME NEW e \in Of(n), DestroyEndpoint(e) PROVE TypeOK'
    BY <2>3 DEF TypeOK, DestroyEndpoint, Of
  <2>4. ASSUME NEW e \in Of(n), DestroyUntracked(e) PROVE TypeOK'
    BY <2>4 DEF TypeOK, DestroyUntracked, Of
  <2> QED
    BY <1>6, <2>1, <2>2, <2>3, <2>4 DEF Reaper
<1>7. ASSUME NEW e \in Endpoints, Sender(e) PROVE TypeOK'
  <2>1. CASE ConnectPeer(e)
    BY <2>1 DEF TypeOK, ConnectPeer
  <2>2. CASE ConnectFails(e)
    BY <2>2 DEF TypeOK, ConnectFails, FlagForDestruction
  <2>3. CASE UseOwnPeer(e)
    BY <2>3 DEF TypeOK, UseOwnPeer, Notified
  <2>4. CASE AwaitPeer(e)
    BY <2>4 DEF TypeOK, AwaitPeer
  <2>5. CASE SenderWakes(e)
    BY <2>5 DEF TypeOK, SenderWakes
  <2>6. CASE SendMessage(e)
    BY <2>6 DEF TypeOK, SendMessage
  <2>7. CASE SendFails(e)
    BY <2>7 DEF TypeOK, SendFails, FlagForDestruction
  <2>8. CASE SenderShutDown(e)
    BY <2>8 DEF TypeOK, SenderShutDown
  <2> QED
    BY <1>7, <2>1, <2>2, <2>3, <2>4, <2>5, <2>6, <2>7, <2>8 DEF Sender
<1>8. ASSUME NEW e \in Endpoints, Receiver(e) PROVE TypeOK'
  <2>1. CASE ReceiverChecks(e)
    BY <2>1 DEF TypeOK, ReceiverChecks
  <2>2. CASE ReceiverWakes(e)
    BY <2>2 DEF TypeOK, ReceiverWakes
  <2>3. CASE ReceiverShutDown(e)
    BY <2>3 DEF TypeOK, ReceiverShutDown
  <2>4. CASE ReceiveFails(e)
    BY <2>4 DEF TypeOK, ReceiveFails, FlagForDestruction
  <2> QED
    BY <1>8, <2>1, <2>2, <2>3, <2>4 DEF Receiver
<1>9. ASSUME NEW e \in Endpoints, ConnectionLost(e) PROVE TypeOK'
  BY <1>9 DEF TypeOK, ConnectionLost, epVars
<1>10. CASE UNCHANGED vars
  BY <1>10 DEF TypeOK, vars, epVars
<1> QED
  BY <1>1, <1>2, <1>3, <1>4, <1>5, <1>6, <1>7, <1>8, <1>9, <1>10 DEF Next

(* FromGreater is inductive relative to TypeOK: only UseOwnPeer,            *)
(* AcceptGreater and SetPeer give an endpoint a connection.                 *)
LEMMA FromGreaterKept ==
  TypeOK /\ FromGreater /\ [Next]_vars => FromGreater'
<1> SUFFICES ASSUME TypeOK, FromGreater, [Next]_vars PROVE FromGreater'
  OBVIOUS
<1> Lo \in Nodes /\ Hi \in Nodes
  BY DEF Nodes
<1>1. CASE mPeer' = mPeer
  BY <1>1 DEF FromGreater
<1>2. ASSUME NEW e \in Endpoints, UseOwnPeer(e) PROVE FromGreater'
  BY <1>2 DEF FromGreater, UseOwnPeer, TypeOK
<1>3. ASSUME NEW c \in Endpoints, AcceptGreater(c) PROVE FromGreater'
  <2>1. c[1] = Hi
    BY <1>3, EndpointNode DEF AcceptGreater, Arrives
  <2> QED
    BY <1>3, <2>1 DEF FromGreater, AcceptGreater, TypeOK
<1>4. ASSUME NEW c \in Endpoints, SetPeer(c) PROVE FromGreater'
  <2>1. c[1] = Hi
    BY <1>4, EndpointNode DEF SetPeer, Arrives
  <2> QED
    BY <1>4, <2>1 DEF FromGreater, SetPeer, TypeOK
<1>5. ASSUME NEW n \in Nodes, LearnNode(n) \/ RouteToNew(n) \/ TrackNode(n)
                              \/ RouteToTracked(n) \/ Reaper(n)
      PROVE  mPeer' = mPeer
  BY <1>5 DEF LearnNode, RouteToNew, TrackNode, RouteToTracked, Reaper,
              NotifyShutdown, JoinThreads, DestroyEndpoint, DestroyUntracked,
              epVars
<1>6. ASSUME NEW c \in Endpoints, Reciprocate(c) \/ TurnAway(c) \/ RejectLesser(c)
      PROVE  mPeer' = mPeer
  BY <1>6 DEF Reciprocate, TurnAway, RejectLesser, epVars
<1>7. ASSUME NEW e \in Endpoints, Receiver(e) \/ ConnectionLost(e)
      PROVE  mPeer' = mPeer
  BY <1>7 DEF Receiver, ReceiverChecks, ReceiverWakes, ReceiverShutDown,
              ReceiveFails, ConnectionLost, epVars
<1>8. ASSUME NEW e \in Endpoints, Sender(e), ~UseOwnPeer(e)
      PROVE  mPeer' = mPeer
  BY <1>8 DEF Sender, ConnectPeer, ConnectFails, AwaitPeer, SenderWakes,
              SendMessage, SendFails, SenderShutDown
<1>9. CASE UNCHANGED vars
  BY <1>9, <1>1 DEF vars, epVars
<1> QED
  BY <1>1, <1>2, <1>3, <1>4, <1>5, <1>6, <1>7, <1>8, <1>9 DEF Next, Filter

(* Two routers that connect to each other stay within their types, for any   *)
(* number of endpoints.                                                    *)
THEOREM TypeCorrect == Spec => []TypeOK
<1> QED
  BY TypeInit, TypeKept, PTL DEF Spec

(* "force the final connection to always be from the greater nodeId"         *)
(* (NodeRouter.cc:332), for any number of endpoints, reconnections and      *)
(* failures.                                                               *)
THEOREM FromGreaterAlways == Spec => []FromGreater
<1>1. Init => TypeOK /\ FromGreater
  BY TypeInit DEF Init, FromGreater
<1>2. TypeOK /\ FromGreater /\ [Next]_vars => (TypeOK /\ FromGreater)'
  BY TypeKept, FromGreaterKept
<1> QED
  BY <1>1, <1>2, PTL DEF Spec
-----------------------------------------------------------------------------
(* What holds of two nodes as long as no connection has failed.              *)

First(n) == <<n, 1>>

Untouched(e) ==
  sender[e] = "none" /\ receiver[e] = "none" /\ tcp[e] = "none" /\ mPeer[e] = None

(* A node has made at most one endpoint, and still has it. *)
HasFirst(n) ==
  \/ made[n] = 0 /\ mNodes[n] = None /\ routing[n] = None
  \/ made[n] = 1 /\ mNodes[n] = First(n) /\ routing[n] = None
  \/ made[n] = 1 /\ mNodes[n] = None /\ routing[n] = First(n)

(* The one connection that an endpoint may use is the first of the greater     *)
(* node; the lesser node uses it once it has accepted it, and it is accepted  *)
(* once.                                                                   *)
Connects(e) ==
  /\ made[e[1]] = 0 \/ e # First(e[1]) => Untouched(e)
  /\ sender[e] = "connect" => tcp[e] = "none"
  /\ e[1] = Hi => tcp[e] # "closed"
  /\ sender[e] = "send" \/ receiver[e] = "recv" => mPeer[e] # None
  /\ mPeer[e] # None =>
       mPeer[e] = First(Hi) /\ (e[1] = Lo => tcp[First(Hi)] = "open")

Calm ==
  /\ corrupted = FALSE
  /\ flagged = {} /\ mEndpointsToDelete = {} /\ mShutdown = {}
  /\ \A n \in Nodes : router[n] = "poll" /\ HasFirst(n)
  /\ \A e \in Endpoints : Connects(e)

CalmInv == ~failed => Calm

LEMMA CalmAside ==
  ASSUME Calm, UNCHANGED <<made, mNodes, routing, mEndpointsToDelete, flagged, mShutdown,
                           mPeer, sender, receiver, tcp, router, corrupted>>
  PROVE  Calm'
BY DEF Calm, HasFirst, Connects, Untouched, First

(* A step of one endpoint's threads, which change nothing but where they are,  *)
(* the connection that the endpoint opens and the one that it uses.           *)
ThreadsOf(e) ==
  /\ sender[e] # "none" \/ receiver[e] # "none"
  /\ UNCHANGED <<made, mNodes, routing, mEndpointsToDelete, flagged, mShutdown, router,
                 corrupted>>
  /\ \A d \in Endpoints \ {e} :
       /\ sender'[d] = sender[d] /\ receiver'[d] = receiver[d]
       /\ mPeer'[d] = mPeer[d] /\ tcp'[d] = tcp[d]
  /\ sender'[e] # "connect" \/ tcp'[e] = "none"
  /\ tcp'[e] = tcp[e] \/ (tcp[e] = "none" /\ tcp'[e] = "pending")
  /\ mPeer'[e] = mPeer[e] \/ (e[1] = Hi /\ mPeer'[e] = e)
  /\ sender'[e] = "send" \/ receiver'[e] = "recv" => mPeer'[e] # None

LEMMA ThreadStep ==
  ASSUME TypeOK, Calm, NEW e \in Endpoints, ThreadsOf(e) PROVE Calm'
<1>1. e[1] \in Nodes /\ made[e[1]] # 0 /\ e = First(e[1]) /\ Lo # Hi
  BY EndpointNode, NodesAssumption DEF ThreadsOf, Calm, Connects, Untouched, Nodes
<1>2. \A n \in Nodes : router'[n] = "poll" /\ HasFirst(n)'
  BY DEF ThreadsOf, Calm, HasFirst, First
<1>3. ASSUME NEW d \in Endpoints PROVE Connects(d)'
  <2>1. Connects(d) /\ Connects(e) /\ First(Hi)' = First(Hi) /\ First(d[1])' = First(d[1])
        /\ made' = made
    BY DEF ThreadsOf, Calm, First
  <2>2. mPeer[d] # None => mPeer[d] \in Endpoints
    BY DEF TypeOK
  <2>3. mPeer[d] # None /\ d[1] = Lo => tcp'[First(Hi)] = "open"
    BY <1>1, <2>1, <2>2 DEF ThreadsOf, Connects
  <2>4. CASE d = e
    BY <1>1, <2>1, <2>2, <2>3, <2>4 DEF ThreadsOf, Connects, Untouched
  <2>5. CASE d # e
    BY <2>1, <2>2, <2>3, <2>5 DEF ThreadsOf, Connects, Untouched
  <2> QED
    BY <2>4, <2>5
<1> QED
  BY <1>2, <1>3 DEF ThreadsOf, Calm

(* The first endpoint of a node is made. *)
LEMMA FirstMade ==
  ASSUME TypeOK, Calm, NEW n \in Nodes, mNodes[n] = None, routing[n] = None,
         made[n] < MaxEndpoints[n]
  PROVE  /\ made[n] = 0 /\ Fresh(n) = First(n) /\ First(n) \in Endpoints
         /\ First(n)[1] = n /\ First(n) # None
<1>1. HasFirst(n) /\ First(n) # None
  BY NodesAssumption DEF Calm, First, Nodes
<1>2. made[n] = 0
  BY <1>1 DEF HasFirst
<1>3. Fresh(n) = First(n) /\ First(n)[1] = n
  BY <1>2 DEF Fresh, First
<1> QED
  BY <1>1, <1>2, <1>3, FreshEndpoint

(* Nothing undoes a failure. *)
LEMMA FailureStays == [Next]_vars => (failed => failed')
<1>1. ASSUME NEW n \in Nodes, \/ LearnNode(n) \/ RouteToNew(n) \/ TrackNode(n)
                              \/ RouteToTracked(n) \/ Filter(n) \/ Reaper(n)
      PROVE  failed' = failed
  BY <1>1 DEF LearnNode, RouteToNew, TrackNode, RouteToTracked, Filter, Reciprocate,
              TurnAway, RejectLesser, AcceptGreater, SetPeer, Reaper, NotifyShutdown,
              JoinThreads, DestroyEndpoint, DestroyUntracked
<1>2. ASSUME NEW e \in Endpoints, Sender(e) \/ Receiver(e) \/ ConnectionLost(e), failed
      PROVE  failed'
  BY <1>2 DEF Sender, ConnectPeer, ConnectFails, UseOwnPeer, AwaitPeer, SenderWakes,
              SendMessage, SendFails, SenderShutDown, Receiver, ReceiverChecks,
              ReceiverWakes, ReceiverShutDown, ReceiveFails, ConnectionLost
<1>3. CASE UNCHANGED vars
  BY <1>3 DEF vars
<1> QED
  BY <1>1, <1>2, <1>3 DEF Next

(* Without a failure no thread meets a closed connection. *)
LEMMA NoneClosed ==
  ASSUME TypeOK, Calm, NEW e \in Endpoints, sender[e] = "send" \/ receiver[e] = "recv"
  PROVE  tcp[mPeer[e]] # "closed"
<1>1. mPeer[e] \in Endpoints /\ mPeer[e] = First(Hi)
  BY DEF TypeOK, Calm, Connects
<1> QED
  BY <1>1 DEF Calm, Connects, First

LEMMA CalmKept == TypeOK /\ CalmInv /\ [Next]_vars => CalmInv'
<1> SUFFICES ASSUME TypeOK, Calm, ~failed', [Next]_vars PROVE Calm'
  BY FailureStays DEF CalmInv
<1>n. Lo \in Nodes /\ Hi \in Nodes /\ Lo # Hi
  BY NodesAssumption DEF Nodes
<1>t. /\ made \in [Nodes -> Nat] /\ mNodes \in [Nodes -> Endpoints \cup {None}]
      /\ routing \in [Nodes -> Endpoints \cup {None}]
      /\ mPeer \in [Endpoints -> Endpoints \cup {None}] /\ None \notin Endpoints
      /\ sender \in [Endpoints -> {"none", "connect", "setPeer", "waiting", "woken",
                                   "send", "exited"}]
      /\ receiver \in [Endpoints -> {"none", "check", "waiting", "woken", "recv",
                                     "exited"}]
      /\ tcp \in [Endpoints -> {"none", "pending", "open", "closed"}]
  <2>1. None \notin Endpoints
    BY NodesAssumption DEF Endpoints, Nodes
  <2> QED
    BY <2>1 DEF TypeOK
<1>e. \A e \in Endpoints : e[1] \in Nodes
  BY EndpointNode DEF Nodes
<1>1. ASSUME NEW n \in Nodes, LearnNode(n) \/ RouteToTracked(n) PROVE Calm'
  BY <1>1, CalmAside DEF LearnNode, RouteToTracked, epVars
<1>2. ASSUME NEW n \in Nodes, RouteToNew(n) PROVE Calm'
  <2>1. /\ made[n] = 0 /\ Fresh(n) = First(n) /\ First(n) \in Endpoints
        /\ First(n)[1] = n /\ First(n) # None
    BY <1>2, FirstMade DEF RouteToNew, MakeUnconnected
  <2>2. /\ \A m \in Nodes : /\ made'[m] = IF m = n THEN 1 ELSE made[m]
                            /\ routing'[m] = IF m = n THEN First(n) ELSE routing[m]
        /\ \A e \in Endpoints :
             /\ sender'[e] = IF e = First(n) THEN "connect" ELSE sender[e]
             /\ receiver'[e] = IF e = First(n) THEN "check" ELSE receiver[e]
        /\ UNCHANGED <<mNodes, mEndpointsToDelete, flagged, mShutdown, mPeer, tcp, router,
                       corrupted>>
    BY <1>2, <1>t, <2>1 DEF RouteToNew, MakeUnconnected
  <2>3. Untouched(First(n)) /\ mNodes[n] = None
    BY <1>2, <2>1 DEF Calm, Connects, RouteToNew
  <2>4. \A m \in Nodes : HasFirst(m)'
    BY <2>2, <2>3 DEF Calm, HasFirst, First
  <2>5. ASSUME NEW e \in Endpoints PROVE Connects(e)'
    <3>1. Connects(e) /\ First(Hi)' = First(Hi) /\ First(e[1])' = First(e[1])
      BY DEF Calm, First
    <3>2. CASE e = First(n)
      BY <2>1, <2>2, <2>3, <3>1, <3>2 DEF Connects, Untouched
    <3>3. CASE e # First(n)
      <4>1. made'[e[1]] = 0 \/ e # First(e[1]) => made[e[1]] = 0 \/ e # First(e[1])
        BY <1>e, <2>1, <2>2
      <4> QED
        BY <2>2, <3>1, <3>3, <4>1 DEF Connects, Untouched
    <3> QED
      BY <3>2, <3>3
  <2> QED
    BY <2>2, <2>4, <2>5 DEF Calm
<1>3. ASSUME NEW n \in Nodes, TrackNode(n) PROVE Calm'
  <2>1. /\ \A m \in Nodes : /\ mNodes'[m] = IF m = n THEN routing[n] ELSE mNodes[m]
                            /\ routing'[m] = IF m = n THEN None ELSE routing[m]
        /\ routing[n] # None
        /\ UNCHANGED <<made, mEndpointsToDelete, flagged, mShutdown, mPeer, sender,
                       receiver, tcp, router, corrupted>>
    BY <1>3, <1>t DEF TrackNode
  <2>2. \A m \in Nodes : HasFirst(m)'
    BY <2>1 DEF Calm, HasFirst, First
  <2> QED
    BY <2>1, <2>2 DEF Calm, Connects, Untouched, First
<1>4. ASSUME NEW c \in Endpoints, Reciprocate(c) PROVE Calm'
  <2>1. /\ made[Hi] = 0 /\ Fresh(Hi) = First(Hi) /\ First(Hi) \in Endpoints
        /\ First(Hi)[1] = Hi /\ First(Hi) # None
    BY <1>4, <1>n, FirstMade DEF Reciprocate, MakeUnconnected, Arrives
  <2>2. /\ \A m \in Nodes : /\ made'[m] = IF m = Hi THEN 1 ELSE made[m]
                            /\ mNodes'[m] = IF m = Hi THEN First(Hi) ELSE mNodes[m]
        /\ \A e \in Endpoints :
             /\ sender'[e] = IF e = First(Hi) THEN "connect" ELSE sender[e]
             /\ receiver'[e] = IF e = First(Hi) THEN "check" ELSE receiver[e]
             /\ tcp'[e] = IF e = c THEN "closed" ELSE tcp[e]
        /\ UNCHANGED <<routing, mEndpointsToDelete, flagged, mShutdown, mPeer, router,
                       corrupted>>
    BY <1>4, <1>t, <2>1 DEF Reciprocate, MakeUnconnected
  <2>3. Untouched(First(Hi)) /\ routing[Hi] = None /\ c[1] # Hi /\ tcp[c] = "pending"
    BY <1>4, <2>1 DEF Calm, Connects, Reciprocate, Arrives
  <2>4. \A m \in Nodes : HasFirst(m)'
    BY <2>2, <2>3 DEF Calm, HasFirst, First
  <2>5. ASSUME NEW e \in Endpoints PROVE Connects(e)'
    <3>1. Connects(e) /\ First(Hi)' = First(Hi) /\ First(e[1])' = First(e[1])
      BY DEF Calm, First
    <3>2. CASE e = First(Hi)
      <4>1. c # e /\ e[1] = Hi
        BY <2>1, <2>3, <3>2
      <4>2. /\ made'[e[1]] = 1 /\ e = First(e[1]) /\ sender'[e] = "connect"
            /\ receiver'[e] = "check" /\ tcp'[e] = "none" /\ mPeer'[e] = None
        BY <1>n, <2>1, <2>2, <2>3, <3>2, <4>1 DEF Untouched
      <4> QED
        BY <3>1, <4>1, <4>2 DEF Connects
    <3>3. CASE e # First(Hi)
      <4>1. made'[e[1]] = 0 \/ e # First(e[1]) => made[e[1]] = 0 \/ e # First(e[1])
        BY <1>e, <2>1, <2>2
      <4>2. tcp'[First(Hi)] = tcp[First(Hi)]
        BY <2>1, <2>2, <2>3
      <4> QED
        BY <2>2, <2>3, <3>1, <3>3, <4>1, <4>2 DEF Connects, Untouched
    <3> QED
      BY <3>2, <3>3
  <2> QED
    BY <2>2, <2>4, <2>5 DEF Calm
<1>5. ASSUME NEW c \in Endpoints, TurnAway(c) \/ RejectLesser(c) PROVE Calm'
  <2>1. /\ \A e \in Endpoints : tcp'[e] = IF e = c THEN "closed" ELSE tcp[e]
        /\ c[1] # Hi /\ tcp[c] = "pending"
        /\ UNCHANGED <<made, mNodes, routing, mEndpointsToDelete, flagged, mShutdown,
                       mPeer, sender, receiver, router, corrupted>>
    BY <1>5, <1>t DEF TurnAway, RejectLesser, Arrives, epVars
  <2>2. ASSUME NEW e \in Endpoints PROVE Connects(e)'
    <3>1. Connects(e) /\ First(Hi)' = First(Hi) /\ First(e[1])' = First(e[1])
      BY DEF Calm, First
    <3>2. mPeer[e] # None => First(Hi) \in Endpoints /\ First(Hi)[1] = Hi
      BY <1>t, <3>1 DEF Connects, First
    <3> QED
      BY <2>1, <3>1, <3>2 DEF Connects, Untouched
  <2> QED
    BY <2>1, <2>2 DEF Calm, HasFirst, First
<1>6. ASSUME NEW c \in Endpoints, AcceptGreater(c) \/ SetPeer(c)
      PROVE  /\ c = First(Hi) /\ c[1] = Hi /\ tcp[c] = "pending"
             /\ \A e \in Endpoints : e[1] = Lo => mPeer[e] = None
             /\ sender[c] # "connect"
  <2>1. c[1] = Hi /\ tcp[c] = "pending"
    BY <1>6, EndpointNode DEF AcceptGreater, SetPeer, Arrives
  <2>2. Connects(c)
    BY DEF Calm
  <2>3. c = First(Hi)
    BY <2>1, <2>2 DEF Connects, Untouched
  <2> QED
    BY <2>1, <2>2, <2>3 DEF Calm, Connects
<1>7. ASSUME NEW c \in Endpoints, AcceptGreater(c) PROVE Calm'
  <2>1. /\ made[Lo] = 0 /\ Fresh(Lo) = First(Lo) /\ First(Lo) \in Endpoints
        /\ First(Lo)[1] = Lo /\ First(Lo) # None
    BY <1>7, <1>n, FirstMade DEF AcceptGreater, Arrives
  <2>2. /\ \A m \in Nodes : /\ made'[m] = IF m = Lo THEN 1 ELSE made[m]
                            /\ mNodes'[m] = IF m = Lo THEN First(Lo) ELSE mNodes[m]
        /\ \A e \in Endpoints :
             /\ sender'[e] = IF e = First(Lo) THEN "send" ELSE sender[e]
             /\ receiver'[e] = IF e = First(Lo) THEN "check" ELSE receiver[e]
             /\ mPeer'[e] = IF e = First(Lo) THEN c ELSE mPeer[e]
             /\ tcp'[e] = IF e = c THEN "open" ELSE tcp[e]
        /\ UNCHANGED <<routing, mEndpointsToDelete, flagged, mShutdown, router, corrupted>>
    BY <1>7, <1>t, <2>1 DEF AcceptGreater
  <2>3. /\ c = First(Hi) /\ c[1] = Hi /\ routing[Lo] = None /\ sender[c] # "connect"
        /\ tcp[c] = "pending"
    BY <1>6, <1>7 DEF AcceptGreater, Arrives
  <2>4. \A m \in Nodes : HasFirst(m)'
    BY <2>2, <2>3 DEF Calm, HasFirst, First
  <2>5. ASSUME NEW e \in Endpoints PROVE Connects(e)'
    <3>1. /\ Connects(e) /\ First(Hi)' = First(Hi) /\ First(e[1])' = First(e[1])
          /\ Untouched(First(Lo))
      BY <2>1 DEF Calm, Connects, First
    <3>2. CASE e = First(Lo)
      BY <1>n, <1>t, <2>1, <2>2, <2>3, <3>1, <3>2 DEF Connects, Untouched
    <3>3. CASE e # First(Lo)
      <4>1. made'[e[1]] = 0 \/ e # First(e[1]) => made[e[1]] = 0 \/ e # First(e[1])
        BY <1>e, <2>1, <2>2
      <4>2. e = c => ~Untouched(e)
        BY <2>3 DEF Untouched
      <4> QED
        BY <2>2, <2>3, <3>1, <3>3, <4>1, <4>2 DEF Connects, Untouched
    <3> QED
      BY <3>2, <3>3
  <2> QED
    BY <2>2, <2>4, <2>5 DEF Calm
<1>8. ASSUME NEW c \in Endpoints, SetPeer(c) PROVE Calm'
  <2>1. /\ mNodes[Lo] = First(Lo) /\ First(Lo) \in Endpoints /\ First(Lo)[1] = Lo
        /\ made[Lo] = 1
    BY <1>8, <1>n, <1>t DEF SetPeer, Calm, HasFirst, First
  <2>2. /\ c = First(Hi) /\ c[1] = Hi /\ mPeer[First(Lo)] = None /\ sender[c] # "connect"
        /\ tcp[c] = "pending"
    BY <1>6, <1>8, <2>1
  <2>3. /\ \A e \in Endpoints :
             /\ sender'[e] = IF e = First(Lo) /\ sender[e] = "waiting" THEN "woken"
                             ELSE sender[e]
             /\ receiver'[e] = IF e = First(Lo) /\ receiver[e] = "waiting" THEN "woken"
                               ELSE receiver[e]
             /\ mPeer'[e] = IF e = First(Lo) THEN c ELSE mPeer[e]
             /\ tcp'[e] = IF e = c THEN "open" ELSE tcp[e]
        /\ UNCHANGED <<made, mNodes, routing, mEndpointsToDelete, flagged, mShutdown,
                       router>>
    BY <1>8, <1>t, <2>1 DEF SetPeer, Notified
  <2>4. corrupted' = FALSE
    BY <1>8, <2>1, <2>2 DEF SetPeer, Calm
  <2>5. ASSUME NEW e \in Endpoints PROVE Connects(e)'
    <3>1. Connects(e) /\ First(Hi)' = First(Hi) /\ First(e[1])' = First(e[1])
      BY DEF Calm, First
    <3>2. CASE e = First(Lo)
      BY <1>n, <1>t, <2>1, <2>2, <2>3, <3>1, <3>2 DEF Connects, Untouched
    <3>3. CASE e # First(Lo)
      <4>1. e = c => ~Untouched(e)
        BY <2>2 DEF Untouched
      <4> QED
        BY <2>2, <2>3, <3>1, <3>3, <4>1 DEF Connects, Untouched
    <3> QED
      BY <3>2, <3>3
  <2> QED
    BY <2>3, <2>4, <2>5 DEF Calm, HasFirst, First
<1>9. ASSUME NEW n \in Nodes, Reaper(n) PROVE FALSE
  BY <1>9 DEF Reaper, NotifyShutdown, JoinThreads, DestroyEndpoint, DestroyUntracked,
              Calm, Of
<1>10. ASSUME NEW e \in Endpoints, ConnectPeer(e) PROVE Calm'
  <2>1. /\ sender[e] = "connect" /\ sender'[e] = "setPeer" /\ tcp'[e] = "pending"
        /\ UNCHANGED <<receiver, mPeer>>
        /\ \A d \in Endpoints : d # e => sender'[d] = sender[d] /\ tcp'[d] = tcp[d]
        /\ UNCHANGED <<made, mNodes, routing, mEndpointsToDelete, flagged, mShutdown,
                       router, corrupted>>
    BY <1>10, <1>t DEF ConnectPeer
  <2>2. tcp[e] = "none" /\ (receiver[e] = "recv" => mPeer[e] # None)
    BY <2>1 DEF Calm, Connects
  <2>3. ThreadsOf(e)
    BY <2>1, <2>2 DEF ThreadsOf
  <2> QED
    BY <2>3, ThreadStep
<1>11. ASSUME NEW e \in Endpoints, UseOwnPeer(e) PROVE Calm'
  <2>1. /\ sender[e] = "setPeer" /\ sender'[e] = "send" /\ e[1] = Hi /\ mPeer'[e] = e
        /\ UNCHANGED tcp
        /\ \A d \in Endpoints : d # e => /\ sender'[d] = sender[d] /\ mPeer'[d] = mPeer[d]
                                         /\ receiver'[d] = receiver[d]
        /\ UNCHANGED <<made, mNodes, routing, mEndpointsToDelete, flagged, mShutdown,
                       router, corrupted>>
    BY <1>11, <1>t DEF UseOwnPeer, Notified
  <2>2. e # None
    BY <1>t
  <2>3. ThreadsOf(e)
    BY <2>1, <2>2 DEF ThreadsOf
  <2> QED
    BY <2>3, ThreadStep
<1>12. ASSUME NEW e \in Endpoints, AwaitPeer(e) \/ SenderWakes(e) PROVE Calm'
  <2>1. /\ sender[e] \in {"setPeer", "woken"} /\ sender'[e] \in {"waiting", "send"}
        /\ sender'[e] = "send" => mPeer[e] # None
        /\ UNCHANGED <<receiver, mPeer, tcp>>
        /\ \A d \in Endpoints : d # e => sender'[d] = sender[d]
        /\ UNCHANGED <<made, mNodes, routing, mEndpointsToDelete, flagged, mShutdown,
                       router, corrupted>>
    BY <1>12, <1>t DEF AwaitPeer, SenderWakes, Calm
  <2>2. receiver[e] = "recv" => mPeer[e] # None
    BY DEF Calm, Connects
  <2>3. ThreadsOf(e)
    BY <2>1, <2>2 DEF ThreadsOf
  <2> QED
    BY <2>3, ThreadStep
<1>13. ASSUME NEW e \in Endpoints, ReceiverChecks(e) \/ ReceiverWakes(e) PROVE Calm'
  <2>1. /\ receiver[e] \in {"check", "woken"} /\ receiver'[e] \in {"waiting", "recv"}
        /\ receiver'[e] = "recv" => mPeer[e] # None
        /\ UNCHANGED <<sender, mPeer, tcp>>
        /\ \A d \in Endpoints : d # e => receiver'[d] = receiver[d]
        /\ UNCHANGED <<made, mNodes, routing, mEndpointsToDelete, flagged, mShutdown,
                       router, corrupted>>
    BY <1>13, <1>t DEF ReceiverChecks, ReceiverWakes, Calm
  <2>2. /\ sender[e] = "send" => mPeer[e] # None
        /\ sender[e] = "connect" => tcp[e] = "none"
    BY DEF Calm, Connects
  <2>3. ThreadsOf(e)
    BY <2>1, <2>2 DEF ThreadsOf
  <2> QED
    BY <2>3, ThreadStep
<1>14. ASSUME NEW e \in Endpoints, SendMessage(e) PROVE Calm'
  BY <1>14, CalmAside DEF SendMessage
<1>15. ASSUME NEW e \in Endpoints,
              \/ ConnectFails(e) \/ SendFails(e) \/ SenderShutDown(e)
              \/ ReceiverShutDown(e) \/ ReceiveFails(e) \/ ConnectionLost(e)
       PROVE  FALSE
  <2>1. e \notin mShutdown
    BY DEF Calm
  <2> QED
    BY <1>15, <2>1, NoneClosed DEF ConnectFails, SendFails, SenderShutDown,
              ReceiverShutDown, ReceiveFails, ConnectionLost
<1>16. CASE UNCHANGED vars
  BY <1>16, CalmAside DEF vars, epVars
<1> QED
  BY <1>1, <1>2, <1>3, <1>4, <1>5, <1>7, <1>8, <1>9, <1>10, <1>11, <1>12, <1>13,
     <1>14, <1>15, <1>16 DEF Next, Filter, Sender, Receiver

LEMMA CalmAlways == Spec => [](TypeOK /\ CalmInv)
<1>1. Init => TypeOK /\ CalmInv
  <2>1. ASSUME Init PROVE Calm
    <3>1. \A e \in Endpoints : Connects(e)
      BY <2>1 DEF Init, Connects, Untouched
    <3> QED
      BY <2>1, <3>1 DEF Init, Calm, HasFirst
  <2> QED
    BY <2>1, TypeInit DEF CalmInv
<1> QED
  BY <1>1, TypeKept, CalmKept, PTL DEF Spec

(* However the two nodes race to connect, and however many endpoints they may  *)
(* make, what they use are the two ends of one connection until one fails      *)
(* (routeMessage, the node filter of NodeRouter and sendThreadWithConnect).     *)
THEOREM AlwaysAgreed == Spec => []Agreed
<1>1. TypeOK /\ CalmInv => Agreed
  <2> SUFFICES ASSUME TypeOK, Calm, ~failed, mNodes[Lo] # None, mNodes[Hi] # None,
                      mPeer[mNodes[Lo]] # None, mPeer[mNodes[Hi]] # None
               PROVE  mPeer[mNodes[Lo]] = mPeer[mNodes[Hi]]
    BY DEF Agreed, CalmInv
  <2>1. mNodes[Lo] \in Endpoints /\ mNodes[Hi] \in Endpoints
    BY DEF TypeOK, Nodes
  <2> QED
    BY <2>1 DEF Calm, Connects
<1> QED
  BY <1>1, CalmAlways, PTL

(* setPeer finds a peer that is already there only after a failure, for any     *)
(* number of endpoints: until then no thread loses the peer that it uses.       *)
THEOREM NoPeerReplacedAlways == Spec => []NoPeerReplaced
<1>1. CalmInv => NoPeerReplaced
  BY DEF CalmInv, Calm, NoPeerReplaced
<1> QED
  BY <1>1, CalmAlways, PTL
=============================================================================
