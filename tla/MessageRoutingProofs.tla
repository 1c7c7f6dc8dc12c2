------------------------- MODULE MessageRoutingProofs -------------------------
(***************************************************************************)
(* Proofs about MessageRouting, for any number of connections, computations *)
(* and messages.                                                           *)
(***************************************************************************)
EXTENDS MessageRouting, TLAPS

(* The endpoints are two disjoint sets, threads of their own, and None is     *)
(* none of them.                                                           *)
LEMMA Places ==
  /\ Conns \subseteq Endpoints /\ Comps \subseteq Endpoints
  /\ \A e \in Endpoints : e \in Threads /\ e # None /\ e # Service /\ e # Router
  /\ \A e \in Endpoints : e \in Conns <=> e \notin Comps
  /\ Service \in Threads /\ Service # Router /\ Router \notin Threads
  /\ Client \in Dests /\ Comps \subseteq Dests
  /\ \A d \in Dests : d # Client => d \in Comps
BY RoutingConstants DEF Endpoints, Threads, Dests

LEMMA SeqTypes ==
  ASSUME NEW S, NEW s \in Seq(S), NEW u \in Seq(S), NEW x \in S
  PROVE  /\ Append(s, x) \in Seq(S) /\ s \o u \in Seq(S) /\ <<>> \in Seq(S)
         /\ s # <<>> => Tail(s) \in Seq(S) /\ Head(s) \in S
OBVIOUS

(* The filters know the endpoint they build; a thread that is about to queue *)
(* a message, or to flag a kicked client, points to an endpoint, and one that *)
(* joins the threads of an endpoint does nothing else.                      *)
AtWork ==
  /\ router = "poll" <=> building = None
  /\ router = "build" => socket[building] = "idle"
  /\ \A e \in Endpoints : socket[e] = "idle" => pc[e] = "off"
  /\ \A t \in Threads : /\ pc[t] \in {"queue", "drain"} <=> held[t] # None
                        /\ pc[t] = "join" <=> destroying[t] # None

LEMMA FlagType ==
  ASSUME TypeOK, NEW e \in Endpoints, FlagForDestruction(e)
  PROVE  flagged' \subseteq Endpoints /\ mEndpointsToDelete' \in Seq(Endpoints)
BY SeqTypes DEF TypeOK, FlagForDestruction

LEMMA QueueType ==
  ASSUME TypeOK, NEW t \in Threads, NEW e \in Endpoints, QueueEnvelope(t, e)
  PROVE  out' \in [Endpoints -> Seq(Messages)]
<1>1. Message(t) \in Messages
  BY DEF TypeOK, Message, Messages
<1>2. Append(out[e], Message(t)) \in Seq(Messages)
  BY <1>1, SeqTypes DEF TypeOK
<1> QED
  BY <1>2 DEF TypeOK, QueueEnvelope
-----------------------------------------------------------------------------
(* Every operation of the router and of its endpoints keeps each variable in  *)
(* its set.                                                                *)
LEMMA TypeStep == TypeOK /\ AtWork /\ [Next]_vars => TypeOK'
<1> SUFFICES ASSUME TypeOK, AtWork, [Next]_vars PROVE TypeOK'
  OBVIOUS
<1> USE Places DEF TypeOK
<1>1. CASE UNCHANGED vars
  BY <1>1 DEF vars, tableVars, listVars, routerVars, endpointVars, threadVars
<1>2. ASSUME NEW e \in Endpoints, Leave(e) PROVE TypeOK'
  BY <1>2 DEF Leave, tableVars, listVars, routerVars, threadVars
<1>3. ASSUME NEW e \in Endpoints, SendFails(e) PROVE TypeOK'
  BY <1>3, FlagType DEF SendFails, tableVars, routerVars, threadVars
<1>4. ASSUME NEW e \in Endpoints, ReceiveFails(e) PROVE TypeOK'
  BY <1>4, FlagType DEF ReceiveFails, ReceiveThreadEnds, tableVars, routerVars,
     endpointVars
<1>5. ASSUME NEW e \in Endpoints, ReceiveShutDown(e) PROVE TypeOK'
  BY <1>5 DEF ReceiveShutDown, ReceiveThreadEnds, tableVars, routerVars,
     endpointVars, listVars
<1>6. ASSUME NEW t \in Threads, NEW ds \in SUBSET Dests, StartRouting(t, ds)
      PROVE TypeOK'
  BY <1>6 DEF StartRouting, tableVars, listVars, routerVars, endpointVars
<1>7. ASSUME NEW e \in Endpoints, NEW ds \in SUBSET MayAddress(e) \ {{}},
             ReceiveEnvelope(e, ds)
      PROVE TypeOK'
  <2>1. ds \in SUBSET Dests
    BY DEF MayAddress
  <2> QED
    BY <1>6, <1>7, <2>1 DEF ReceiveEnvelope
<1>8. ASSUME NEW e \in Endpoints, Build(e) PROVE TypeOK'
  BY <1>8 DEF Build, tableVars, listVars
<1>9. ASSUME NEW e \in Endpoints, Refuse(e) PROVE TypeOK'
  BY <1>9 DEF Refuse, tableVars, listVars, threadVars
<1>10. CASE RouterThread
  <2>1. CASE BuildEndpoint \/ BuildThrows
    BY <1>8, <1>9, <2>1 DEF BuildEndpoint, BuildThrows, AtWork
  <2>2. CASE TrackClient
    <3>1. out[building] \o mPendingEnvelopes \in Seq(Messages)
      BY <2>2, SeqTypes DEF TrackClient
    <3> QED
      BY <2>2, <3>1 DEF TrackClient, listVars, threadVars
  <2>3. CASE TrackIpc
    BY <2>3 DEF TrackIpc, listVars, endpointVars, threadVars
  <2>4. CASE RouterJoined
    BY <2>4 DEF RouterJoined, Joined, tableVars, listVars, routerVars, threadVars
  <2>5. ASSUME NEW c \in Conns, RefuseClient(c) \/ AcceptTemporarily(c) PROVE TypeOK'
    BY <1>8, <1>9, <2>5 DEF RefuseClient, AcceptTemporarily
  <2>6. ASSUME NEW e \in Endpoints, StartBuilding(e) PROVE TypeOK'
    BY <2>6 DEF StartBuilding, tableVars, listVars, endpointVars, threadVars
  <2> QED
    BY <1>10, <2>1, <2>2, <2>3, <2>4, <2>5, <2>6
    DEF RouterThread, AcceptClient, RegisterExecutor
<1>11. CASE DestroyEndpoints
  <2>1. /\ Tail(mEndpointsToDelete) \in Seq(Endpoints)
        /\ Head(mEndpointsToDelete) \in Endpoints
    BY <1>11, SeqTypes DEF DestroyEndpoints
  <2>2. /\ life' \in [Endpoints -> {"none", "live", "dying", "gone"}]
        /\ sending' \subseteq Endpoints
        /\ destroying' \in [Threads \cup {Router} -> Endpoints \cup {None}]
    <3>1. PICK h \in Endpoints : h = Head(mEndpointsToDelete)
      BY <2>1
    <3>2. CASE BeginDestroy(Router, h)
      BY <3>1, <3>2 DEF BeginDestroy
    <3>3. CASE UNCHANGED <<life, sending, destroying>>
      BY <3>3
    <3> QED
      BY <1>11, <3>1, <3>2, <3>3 DEF DestroyEndpoints, BeginDestroy
  <2> QED
    BY <1>11, <2>1, <2>2 DEF DestroyEndpoints, routerVars, threadVars
<1>12. ASSUME NEW t \in Threads, RouteStep(t) PROVE TypeOK'
  <2>1. CASE NoClientPeer(t)
    BY <2>1 DEF NoClientPeer, tableVars, listVars, routerVars, endpointVars
  <2>2. CASE QueueAndRelease(t)
    <3>1. held[t] \in Endpoints
      BY <2>2 DEF QueueAndRelease, AtWork
    <3>2. out' \in [Endpoints -> Seq(Messages)]
      BY <2>2, <3>1, QueueType DEF QueueAndRelease
    <3> QED
      BY <2>2, <3>1, <3>2 DEF QueueAndRelease, Release, BeginDestroy, Finished,
         tableVars, listVars, routerVars
  <2>3. CASE StashEnvelope(t)
    <3>1. Append(mPendingEnvelopes, Message(t)) \in Seq(Messages)
      <4>1. Message(t) \in Messages
        BY DEF Message, Messages
      <4> QED
        BY <4>1, SeqTypes
    <3>2. out' \in [Endpoints -> Seq(Messages)]
      BY <2>3, QueueType DEF StashEnvelope
    <3> QED
      BY <2>3, <3>1, <3>2 DEF StashEnvelope, Finished, listVars, routerVars
  <2>4. CASE ThreadJoined(t)
    BY <2>4 DEF ThreadJoined, Joined, Finished, tableVars, listVars, routerVars
  <2>5. ASSUME NEW d \in Dests, FindPeer(t, d) PROVE TypeOK'
    BY <2>5 DEF FindPeer, EndpointFor, tableVars, listVars, routerVars, endpointVars
  <2>6. ASSUME NEW d \in Dests, NoIpcPeer(t, d) PROVE TypeOK'
    BY <2>6 DEF NoIpcPeer, Finished, tableVars, listVars, routerVars, endpointVars
  <2> QED
    BY <1>12, <2>1, <2>2, <2>3, <2>4, <2>5, <2>6 DEF RouteStep
<1>13. ASSUME NEW d \in Dests, RouteFromService(d) PROVE TypeOK'
  BY <1>6, <1>13 DEF RouteFromService
<1>14. CASE KickClient
  <2>1. [from |-> Service, n |-> count[Service] + 1] \in Messages
    BY DEF Messages
  <2>2. mClients \in Endpoints
    BY <1>14 DEF KickClient
  <2>3. Append(out[mClients], [from |-> Service, n |-> count[Service] + 1])
          \in Seq(Messages)
    BY <2>1, <2>2, SeqTypes
  <2> QED
    BY <1>14, <2>2, <2>3 DEF KickClient, tableVars, listVars, routerVars
<1>15. CASE Drained
  <2>1. held[Service] \in Endpoints
    BY <1>15 DEF Drained, AtWork
  <2>2. flagged' \subseteq Endpoints /\ mEndpointsToDelete' \in Seq(Endpoints)
    BY <1>15, <2>1, FlagType DEF Drained
  <2> QED
    <3>1. CASE UNCHANGED <<life, sending, destroying>>
      BY <1>15, <2>1, <2>2, <3>1 DEF Drained, Release, tableVars, routerVars
    <3>2. CASE BeginDestroy(Service, held[Service])
      BY <1>15, <2>1, <2>2, <3>2 DEF Drained, Release, BeginDestroy, tableVars, routerVars
    <3> QED
      BY <1>15, <3>1, <3>2 DEF Drained, Release
<1>16. CASE KickNoClient
  BY <1>16 DEF KickNoClient, tableVars, listVars, routerVars, endpointVars
<1>17. CASE ClearStashedEnvelopes
  <2>1. <<>> \in Seq(Messages)
    OBVIOUS
  <2> QED
    BY <1>17, <2>1 DEF ClearStashedEnvelopes, listVars, routerVars, endpointVars
<1>18. CASE DeleteRoutingData
  BY <1>18 DEF DeleteRoutingData, listVars, routerVars, endpointVars, threadVars
<1> QED
  BY <1>1, <1>2, <1>3, <1>4, <1>5, <1>7, <1>10, <1>11, <1>12, <1>13, <1>14, <1>15,
     <1>16, <1>17, <1>18 DEF Next


(* AtWork: a filter leaves "poll" with an endpoint that is new, and a thread   *)
(* has a pointer exactly between a lookup and the end of its use.           *)
LEMMA AtWorkStep == TypeOK /\ AtWork /\ [Next]_vars => AtWork'
<1> SUFFICES ASSUME TypeOK, AtWork, [Next]_vars PROVE AtWork'
  OBVIOUS
<1> USE Places DEF TypeOK, AtWork
<1>1. CASE UNCHANGED vars
  BY <1>1 DEF vars, routerVars, endpointVars, threadVars
<1>2. ASSUME NEW e \in Endpoints, Leave(e) \/ SendFails(e) PROVE AtWork'
  BY <1>2 DEF Leave, SendFails, routerVars, threadVars
<1>3. ASSUME NEW e \in Endpoints, ReceiveFails(e) \/ ReceiveShutDown(e) PROVE AtWork'
  BY <1>3 DEF ReceiveFails, ReceiveShutDown, ReceiveThreadEnds, routerVars, endpointVars
<1>4. ASSUME NEW t \in Threads, NEW ds, StartRouting(t, ds) PROVE AtWork'
  BY <1>4 DEF StartRouting, routerVars, endpointVars
<1>5. ASSUME NEW e \in Endpoints, Build(e), socket[e] = "idle" PROVE AtWork'
  BY <1>5 DEF Build
<1>6. ASSUME NEW e \in Endpoints, Refuse(e) PROVE AtWork'
  BY <1>6 DEF Refuse, threadVars
<1>7. CASE RouterThread
  <2>1. CASE BuildEndpoint \/ BuildThrows
    BY <1>5, <1>6, <2>1 DEF BuildEndpoint, BuildThrows
  <2>2. CASE TrackClient \/ TrackIpc
    BY <2>2 DEF TrackClient, TrackIpc, endpointVars, threadVars
  <2>3. CASE RouterJoined
    BY <2>3 DEF RouterJoined, Joined, routerVars, threadVars
  <2>4. ASSUME NEW c \in Conns, RefuseClient(c) \/ AcceptTemporarily(c) PROVE AtWork'
    BY <1>5, <1>6, <2>4 DEF RefuseClient, AcceptTemporarily
  <2>5. ASSUME NEW e \in Endpoints, socket[e] = "idle", StartBuilding(e) PROVE AtWork'
    BY <2>5 DEF StartBuilding, endpointVars, threadVars
  <2> QED
    BY <1>7, <2>1, <2>2, <2>3, <2>4, <2>5
    DEF RouterThread, AcceptClient, RegisterExecutor
<1>8. CASE DestroyEndpoints
  <2>1. \A t \in Threads : destroying'[t] = destroying[t]
    BY <1>8 DEF DestroyEndpoints, BeginDestroy
  <2> QED
    BY <1>8, <2>1 DEF DestroyEndpoints, routerVars, threadVars
<1>9. ASSUME NEW t \in Threads, NEW to \in {"poll", "route"}, held[t] # None,
             Release(t, held[t], to), UNCHANGED <<routerVars, socket>>
      PROVE AtWork'
  <2>1. held' = [held EXCEPT ![t] = None] /\ UNCHANGED <<router, building, socket>>
    BY <1>9 DEF Release, routerVars
  <2>2. CASE pc' = [pc EXCEPT ![t] = to] /\ UNCHANGED destroying
    BY <1>9, <2>1, <2>2
  <2>3. CASE /\ pc' = [pc EXCEPT ![t] = "join"]
             /\ destroying' = [destroying EXCEPT ![t] = held[t]]
    BY <1>9, <2>1, <2>3
  <2> QED
    BY <1>9, <2>2, <2>3 DEF Release, BeginDestroy
<1>10. ASSUME NEW t \in Threads, RouteStep(t) PROVE AtWork'
  <2>1. CASE NoClientPeer(t)
    BY <2>1 DEF NoClientPeer, routerVars, endpointVars
  <2>2. CASE QueueAndRelease(t)
    BY <1>9, <2>2 DEF QueueAndRelease, Finished
  <2>3. CASE StashEnvelope(t)
    BY <2>3 DEF StashEnvelope, Finished, routerVars
  <2>4. CASE ThreadJoined(t)
    <3>1. PICK to \in {"poll", "route"} : pc' = [pc EXCEPT ![t] = to]
      BY <2>4 DEF ThreadJoined, Finished
    <3>2. /\ destroying[t] # None /\ destroying' = [destroying EXCEPT ![t] = None]
          /\ UNCHANGED <<router, building, socket, held>>
      BY <2>4 DEF ThreadJoined, Joined, routerVars
    <3>3. pc[t] = "join" /\ held[t] = None
      BY <3>2
    <3> QED
      BY <3>1, <3>2, <3>3
  <2>5. ASSUME NEW d \in Dests, FindPeer(t, d) PROVE AtWork'
    BY <2>5 DEF FindPeer, routerVars, endpointVars
  <2>6. ASSUME NEW d \in Dests, NoIpcPeer(t, d) PROVE AtWork'
    BY <2>6 DEF NoIpcPeer, Finished, routerVars, endpointVars
  <2> QED
    BY <1>10, <2>1, <2>2, <2>3, <2>4, <2>5, <2>6 DEF RouteStep
<1>11. CASE KickClient
  BY <1>11 DEF KickClient, routerVars
<1>12. CASE Drained
  BY <1>9, <1>12 DEF Drained
<1>13. CASE KickNoClient \/ ClearStashedEnvelopes
  BY <1>13 DEF KickNoClient, ClearStashedEnvelopes, routerVars, endpointVars
<1>14. CASE DeleteRoutingData
  BY <1>14 DEF DeleteRoutingData, routerVars, endpointVars, threadVars
<1> QED
  BY <1>1, <1>2, <1>3, <1>4, <1>7, <1>8, <1>10, <1>11, <1>12, <1>13, <1>14
  DEF Next, ReceiveEnvelope, RouteFromService
-----------------------------------------------------------------------------
(* Why no pointer dangles.  An endpoint is pinned by its table entry, or by   *)
(* the filter that is about to track it; only destroyEndpoints unpins one, and *)
(* by then it is no longer listed.                                          *)
Pinned(e) == Tracked(e) \/ (router = "track" /\ building = e)

Owned ==
  /\ \A e \in Endpoints :
       /\ Pinned(e) => life[e] = "live"
       /\ life[e] = "live" /\ e \notin flagged => Pinned(e)
       /\ e \in sending => life[e] = "live"
       /\ socket[e] = "idle" => life[e] = "none"
       /\ building = e => ~Tracked(e)
  /\ \A t \in Threads :
       held[t] # None => life[held[t]] = "live" /\ building # held[t]
  /\ \A t \in Threads \cup {Router} :
       destroying[t] # None => life[destroying[t]] \in {"dying", "gone"}
  /\ building \in Conns => mClients = None

Listed ==
  \A i \in 1..Len(mEndpointsToDelete) :
    /\ mEndpointsToDelete[i] \in flagged
    /\ Pinned(mEndpointsToDelete[i])
    /\ \A j \in 1..Len(mEndpointsToDelete) :
         i # j => mEndpointsToDelete[i] # mEndpointsToDelete[j]

LEMMA FlagListed ==
  ASSUME TypeOK, Owned, Listed, NEW e \in Endpoints, life[e] = "live",
         FlagForDestruction(e), UNCHANGED <<mClients, mIpc, router, building>>
  PROVE  Listed'
<1>1. CASE e \in flagged
  BY <1>1 DEF FlagForDestruction, Listed, Pinned, Tracked
<1>2. CASE e \notin flagged
  <2>1. Pinned(e)
    BY <1>2 DEF Owned
  <2>2. mEndpointsToDelete' = Append(mEndpointsToDelete, e) /\ flagged' = flagged \cup {e}
    BY <1>2 DEF FlagForDestruction
  <2>3. \A i \in 1..Len(mEndpointsToDelete) : mEndpointsToDelete[i] # e
    BY <1>2 DEF Listed
  <2> QED
    BY <2>1, <2>2, <2>3 DEF TypeOK, Listed, Pinned, Tracked
<1> QED
  BY <1>1, <1>2

(* A step that keeps the list and unpins nothing. *)
LEMMA StillListed ==
  ASSUME TypeOK, Listed, UNCHANGED listVars,
         \A e \in Endpoints : Pinned(e) => Pinned(e)'
  PROVE  Listed'
<1>1. \A i \in 1..Len(mEndpointsToDelete) : mEndpointsToDelete[i] \in Endpoints
  BY DEF TypeOK
<1> QED
  BY <1>1 DEF Listed, listVars

LEMMA ListedStep == TypeOK /\ AtWork /\ Owned /\ Listed /\ [Next]_vars => Listed'
<1> SUFFICES ASSUME TypeOK, AtWork, Owned, Listed, [Next]_vars PROVE Listed'
  OBVIOUS
<1> USE Places
<1>1. ASSUME UNCHANGED <<mClients, mIpc, mEndpointsToDelete, flagged, router, building>>
      PROVE Listed'
  BY <1>1 DEF Listed, Pinned, Tracked
<1>2. ASSUME NEW e \in Endpoints, SendFails(e) \/ ReceiveFails(e) PROVE Listed'
  BY <1>2, FlagListed DEF SendFails, ReceiveFails, ReceiveThreadEnds, Owned, tableVars,
     routerVars
<1>3. ASSUME NEW e \in Endpoints,
             \/ Leave(e) \/ ReceiveShutDown(e)
             \/ \E ds \in SUBSET MayAddress(e) \ {{}} : ReceiveEnvelope(e, ds)
      PROVE Listed'
  BY <1>1, <1>3 DEF Leave, ReceiveShutDown, ReceiveThreadEnds, ReceiveEnvelope,
     StartRouting, tableVars, listVars, routerVars
<1>4. CASE RouterThread
  <2>1. UNCHANGED listVars
    BY <1>4 DEF RouterThread, BuildEndpoint, BuildThrows, TrackClient, TrackIpc,
       RouterJoined, RefuseClient, AcceptClient, AcceptTemporarily, RegisterExecutor,
       StartBuilding, Build, Refuse
  <2>2. ASSUME NEW e \in Endpoints, Pinned(e) PROVE Pinned(e)'
    <3>1. CASE BuildEndpoint \/ BuildThrows
      BY <2>2, <3>1 DEF BuildEndpoint, BuildThrows, Build, Refuse, Pinned, Tracked, tableVars
    <3>2. CASE TrackClient
      BY <2>2, <3>2 DEF TrackClient, Owned, Pinned, Tracked, TypeOK
    <3>3. CASE TrackIpc
      BY <2>2, <3>3 DEF TrackIpc, Pinned, Tracked
    <3>4. CASE RouterJoined
      BY <2>2, <3>4 DEF RouterJoined, Pinned, Tracked, tableVars, routerVars
    <3>5. ASSUME NEW c \in Conns, RefuseClient(c) \/ AcceptTemporarily(c) PROVE Pinned(e)'
      BY <2>2, <3>5 DEF RefuseClient, AcceptTemporarily, Polling, Build, Refuse, Pinned,
         Tracked, tableVars
    <3>6. ASSUME NEW f \in Endpoints, Polling, StartBuilding(f) PROVE Pinned(e)'
      BY <2>2, <3>6 DEF StartBuilding, Polling, Pinned, Tracked, tableVars
    <3> QED
      BY <1>4, <3>1, <3>2, <3>3, <3>4, <3>5, <3>6
      DEF RouterThread, AcceptClient, RegisterExecutor
  <2> QED
    BY <2>1, <2>2, StillListed
<1>5. CASE DestroyEndpoints
  <2>1. PICK h \in Endpoints : h = Head(mEndpointsToDelete)
    BY <1>5 DEF DestroyEndpoints, TypeOK
  <2>2. /\ mEndpointsToDelete # <<>> /\ mEndpointsToDelete' = Tail(mEndpointsToDelete)
        /\ flagged' = flagged /\ router = "poll" /\ UNCHANGED <<router, building>>
        /\ mClients' = (IF mClients = h THEN None ELSE mClients)
        /\ mIpc' = mIpc \ {h}
    BY <1>5, <2>1 DEF DestroyEndpoints, Polling, routerVars
  <2>3. \A e \in Endpoints : Pinned(e) /\ e # h => Pinned(e)'
    BY <2>2 DEF Pinned, Tracked
  <2>4. Len(mEndpointsToDelete) \in Nat /\ Len(mEndpointsToDelete) # 0
    BY <2>2 DEF TypeOK
  <2>5. Len(Tail(mEndpointsToDelete)) = Len(mEndpointsToDelete) - 1
    BY <2>2 DEF TypeOK
  <2>6. ASSUME NEW i \in 1..Len(Tail(mEndpointsToDelete))
        PROVE  /\ i + 1 \in 1..Len(mEndpointsToDelete) /\ 1 \in 1..Len(mEndpointsToDelete)
               /\ Tail(mEndpointsToDelete)[i] = mEndpointsToDelete[i + 1]
               /\ mEndpointsToDelete[i + 1] \in Endpoints /\ mEndpointsToDelete[1] = h
    BY <2>1, <2>2, <2>4, <2>5 DEF TypeOK
  <2>7. ASSUME NEW i \in 1..Len(Tail(mEndpointsToDelete))
        PROVE  /\ Tail(mEndpointsToDelete)[i] \in flagged
               /\ Tail(mEndpointsToDelete)[i] \in Endpoints \ {h}
               /\ Pinned(Tail(mEndpointsToDelete)[i])
    BY <2>4, <2>6 DEF Listed
  <2>8. ASSUME NEW i \in 1..Len(Tail(mEndpointsToDelete)),
               NEW j \in 1..Len(Tail(mEndpointsToDelete)), i # j
        PROVE  Tail(mEndpointsToDelete)[i] # Tail(mEndpointsToDelete)[j]
    BY <2>4, <2>6, <2>8 DEF Listed
  <2> QED
    BY <2>2, <2>3, <2>7, <2>8 DEF Listed
<1>6. CASE Drained
  BY <1>6, FlagListed DEF Drained, AtWork, Owned, TypeOK, tableVars, routerVars
<1>7. ASSUME NEW t \in Threads, RouteStep(t) PROVE Listed'
  BY <1>1, <1>7 DEF RouteStep, NoClientPeer, QueueAndRelease, StashEnvelope, ThreadJoined,
     FindPeer, NoIpcPeer, tableVars, listVars, routerVars
<1>8. CASE \/ \E d \in Dests : RouteFromService(d)
           \/ KickClient \/ KickNoClient \/ ClearStashedEnvelopes \/ DeleteRoutingData
  BY <1>1, <1>8 DEF RouteFromService, StartRouting, KickClient, KickNoClient,
     ClearStashedEnvelopes, DeleteRoutingData, tableVars, listVars, routerVars
<1>9. CASE UNCHANGED vars
  BY <1>1, <1>9 DEF vars, tableVars, listVars, routerVars
<1> QED
  BY <1>2, <1>3, <1>4, <1>5, <1>6, <1>7, <1>8, <1>9 DEF Next

(* The variables that Owned is about. *)
ownVars == <<mClients, mIpc, flagged, router, building, socket, life, sending, held,
             destroying>>

LEMMA OwnedStep ==
  TypeOK /\ AtWork /\ Owned /\ Listed /\ [Next]_vars => Owned'
<1> SUFFICES ASSUME TypeOK, AtWork, Owned, Listed, [Next]_vars PROVE Owned'
  OBVIOUS
<1> USE Places DEF TypeOK
<1>1. ASSUME UNCHANGED ownVars PROVE Owned'
  BY <1>1 DEF ownVars, Owned, Pinned, Tracked
<1>2. ASSUME NEW e \in Endpoints, Leave(e) PROVE Owned'
  BY <1>2 DEF Leave, Owned, Pinned, Tracked, tableVars, listVars, routerVars, threadVars
<1>3. ASSUME NEW e \in Endpoints, SendFails(e) \/ ReceiveFails(e) PROVE Owned'
  <2>1. flagged \subseteq flagged' /\ sending' \subseteq sending
    BY <1>3 DEF SendFails, ReceiveFails, ReceiveThreadEnds, FlagForDestruction, endpointVars
  <2>2. UNCHANGED <<mClients, mIpc, router, building, socket, life, held, destroying>>
    BY <1>3 DEF SendFails, ReceiveFails, ReceiveThreadEnds, tableVars, routerVars,
       endpointVars, threadVars
  <2> QED
    BY <2>1, <2>2 DEF Owned, Pinned, Tracked
<1>4. ASSUME NEW e \in Endpoints,
             \/ ReceiveShutDown(e)
             \/ \E ds \in SUBSET MayAddress(e) \ {{}} : ReceiveEnvelope(e, ds)
      PROVE Owned'
  BY <1>1, <1>4 DEF ReceiveShutDown, ReceiveThreadEnds, ReceiveEnvelope, StartRouting,
     ownVars, tableVars, listVars, routerVars, endpointVars
<1>5. ASSUME NEW e \in Endpoints, socket[e] = "idle", router # "track", Build(e),
             e \in Conns => mClients = None
      PROVE Owned'
  <2>1. life[e] = "none" /\ ~Tracked(e) /\ \A t \in Threads : held[t] # e
    BY <1>5 DEF Owned, Pinned
  <2>2. \A t \in Threads \cup {Router} : destroying[t] # e
    <3>1. SUFFICES ASSUME NEW t \in Threads \cup {Router}, destroying[t] = e PROVE FALSE
      OBVIOUS
    <3>2. life[destroying[t]] \in {"dying", "gone"}
      BY <3>1 DEF Owned
    <3> QED
      BY <2>1, <3>1, <3>2
  <2>3. \A f \in Endpoints : Tracked(f)' <=> Tracked(f)
    BY <1>5 DEF Build, Tracked, tableVars
  <2>4. \A f \in Endpoints : Pinned(f) => Tracked(f)
    BY <1>5 DEF Pinned
  <2> QED
    BY <1>5, <2>1, <2>2, <2>3, <2>4 DEF Build, Owned, Pinned, tableVars, listVars
<1>6. ASSUME NEW t \in Threads \cup {Router}, Joined(t),
              UNCHANGED <<mClients, mIpc, flagged, router, building, socket, sending, held>>
       PROVE Owned'
  <2>1. PICK e \in Endpoints : e = destroying[t]
    BY <1>6 DEF Joined
  <2>2. life[e] # "live" /\ life[e] # "none"
    <3>1. life[destroying[t]] \in {"dying", "gone"}
      BY <1>6 DEF Joined, Owned
    <3> QED
      BY <2>1, <3>1
  <2>3. /\ life' = [life EXCEPT ![e] = "gone"]
        /\ destroying' = [destroying EXCEPT ![t] = None]
    BY <1>6, <2>1 DEF Joined
  <2>4. \A f \in Endpoints : Pinned(f)' <=> Pinned(f)
    BY <1>6 DEF Pinned, Tracked
  <2>5. \A f \in Endpoints : life'[f] = (IF f = e THEN "gone" ELSE life[f])
    BY <2>3
  <2>6. \A u \in Threads \cup {Router} :
          destroying'[u] # None => life'[destroying'[u]] \in {"dying", "gone"}
    BY <2>3, <2>5 DEF Owned
  <2>7. \A u \in Threads : held'[u] # None => life'[held'[u]] = "live"
                                              /\ building' # held'[u]
    BY <1>6, <2>2, <2>5 DEF Owned
  <2> QED
    BY <1>6, <2>2, <2>4, <2>5, <2>6, <2>7 DEF Owned, Tracked
<1>7. CASE RouterThread
  <2>1. CASE BuildEndpoint
    <3>1. PICK e \in Endpoints : e = building
      BY <2>1 DEF BuildEndpoint, AtWork
    <3>2. Build(e) /\ socket[e] = "idle" /\ router # "track"
      BY <2>1, <3>1 DEF BuildEndpoint, Build, AtWork
    <3>3. e \in Conns => mClients = None
      BY <3>1 DEF Owned
    <3> QED
      BY <1>5, <3>2, <3>3
  <2>2. CASE BuildThrows
    BY <2>2 DEF BuildThrows, Refuse, Owned, Pinned, Tracked, tableVars, listVars, threadVars
  <2>3. CASE TrackClient
    BY <2>3 DEF TrackClient, Owned, Pinned, Tracked, listVars, threadVars
  <2>4. CASE TrackIpc
    BY <2>4 DEF TrackIpc, Owned, Pinned, Tracked, listVars, endpointVars, threadVars
  <2>5. CASE RouterJoined
    BY <1>6, <2>5 DEF RouterJoined, tableVars, listVars, routerVars, threadVars
  <2>6. ASSUME NEW c \in Conns, AcceptTemporarily(c) PROVE Owned'
    BY <1>5, <2>6 DEF AcceptTemporarily, Polling
  <2>7. ASSUME NEW c \in Conns, RefuseClient(c) PROVE Owned'
    BY <2>7 DEF RefuseClient, Polling, Refuse, AtWork, Owned, Pinned, Tracked, tableVars,
       listVars, threadVars
  <2>8. ASSUME NEW e \in Endpoints, Polling, socket[e] = "idle", StartBuilding(e),
               e \in Conns => mClients = None
        PROVE Owned'
    <3>1. life[e] = "none"
      BY <2>8 DEF Owned
    <3> QED
      BY <2>8, <3>1 DEF StartBuilding, Polling, Owned, Pinned, Tracked, tableVars,
         listVars, endpointVars, threadVars
  <2> QED
    BY <1>7, <2>1, <2>2, <2>3, <2>4, <2>5, <2>6, <2>7, <2>8
    DEF RouterThread, AcceptClient, RegisterExecutor
<1>8. ASSUME NEW e \in Endpoints, NEW t \in Threads \cup {Router},
             life[e] = "live", building # e, \A u \in Threads : held'[u] # e,
             ~(Tracked(e)'), BeginDestroy(t, e),
             \A f \in Endpoints : (Tracked(f)' => Tracked(f))
                                    /\ (f # e => (Tracked(f)' <=> Tracked(f))),
             \A u \in Threads : held'[u] \in {held[u], None},
             flagged \subseteq flagged', UNCHANGED <<router, building, socket>>,
             mClients' \in {mClients, None}
      PROVE Owned'
  <2>1. \A f \in Endpoints : Pinned(f)' => f # e /\ Pinned(f)
    BY <1>8 DEF Pinned
  <2>2. \A f \in Endpoints : f # e => (Pinned(f)' <=> Pinned(f))
    BY <1>8 DEF Pinned
  <2>3. \A f \in Endpoints : life'[f] = IF f = e THEN "dying" ELSE life[f]
    BY <1>8 DEF BeginDestroy
  <2>4. \A f \in Endpoints :
          /\ Pinned(f)' => life'[f] = "live"
          /\ life'[f] = "live" /\ f \notin flagged' => Pinned(f)'
    BY <1>8, <2>1, <2>2, <2>3 DEF Owned
  <2>5. \A f \in Endpoints :
          /\ f \in sending' => life'[f] = "live"
          /\ socket'[f] = "idle" => life'[f] = "none"
          /\ building' = f => ~(Tracked(f)')
    BY <1>8, <2>3 DEF Owned, BeginDestroy
  <2>6. \A u \in Threads : held'[u] # None => life'[held'[u]] = "live"
                                              /\ building' # held'[u]
    BY <1>8, <2>3 DEF Owned
  <2>7. \A u \in Threads \cup {Router} :
          destroying'[u] # None => life'[destroying'[u]] \in {"dying", "gone"}
    BY <1>8, <2>3 DEF Owned, BeginDestroy
  <2>8. building' \in Conns => mClients' = None
    BY <1>8 DEF Owned
  <2> QED
    BY <2>4, <2>5, <2>6, <2>7, <2>8 DEF Owned
<1>9. CASE DestroyEndpoints
  <2>1. PICK h \in Endpoints : h = Head(mEndpointsToDelete)
    BY <1>9 DEF DestroyEndpoints
  <2>2. h \in flagged /\ Pinned(h)
    <3>1. mEndpointsToDelete # <<>>
      BY <1>9 DEF DestroyEndpoints
    <3>2. 1 \in 1..Len(mEndpointsToDelete) /\ mEndpointsToDelete[1] = h
      BY <2>1, <3>1
    <3> QED
      BY <3>2 DEF Listed
  <2>3. /\ router = "poll" /\ building = None
        /\ UNCHANGED <<flagged, router, building, socket, held>>
        /\ mClients' = (IF mClients = h THEN None ELSE mClients)
        /\ mIpc' = mIpc \ {h}
    BY <1>9, <2>1 DEF DestroyEndpoints, Polling, AtWork, routerVars, threadVars
  <2>4. /\ Tracked(h) /\ ~(Tracked(h)')
        /\ \A f \in Endpoints : f # h => (Tracked(f)' <=> Tracked(f))
    BY <2>2, <2>3 DEF Pinned, Tracked
  <2>5. CASE LastPointer(Router, h) /\ BeginDestroy(Router, h)
    <3>1. \A u \in Threads : held'[u] # h
      BY <2>3, <2>5 DEF LastPointer
    <3>2. life[h] = "live"
      BY <2>2 DEF Owned
    <3> QED
      BY <1>8, <2>3, <2>4, <2>5, <3>1, <3>2
  <2>6. CASE UNCHANGED <<life, sending, destroying>>
    BY <2>2, <2>3, <2>4, <2>6 DEF Owned, Pinned
  <2> QED
    BY <1>9, <2>1, <2>4, <2>5, <2>6 DEF DestroyEndpoints
<1>10. ASSUME NEW t \in Threads, NEW to, held[t] # None, Release(t, held[t], to),
             flagged \subseteq flagged', UNCHANGED <<mClients, mIpc, routerVars, socket>>
      PROVE Owned'
  <2>1. PICK e \in Endpoints : e = held[t]
    BY <1>10
  <2>2. life[e] = "live" /\ building # e
    BY <1>10, <2>1 DEF Owned
  <2>3. /\ held' = [held EXCEPT ![t] = None] /\ UNCHANGED <<router, building>>
        /\ \A f \in Endpoints : Tracked(f)' <=> Tracked(f)
    BY <1>10 DEF Release, Tracked, routerVars
  <2>4. CASE ~Tracked(e) /\ LastPointer(t, e) /\ BeginDestroy(t, e)
    <3>1. \A u \in Threads : held'[u] # e /\ held'[u] \in {held[u], None}
      BY <2>3, <2>4 DEF LastPointer
    <3> QED
      BY <1>8, <1>10, <2>2, <2>3, <2>4, <3>1
  <2>5. CASE UNCHANGED <<life, sending, destroying>>
    BY <1>10, <2>3, <2>5 DEF Owned, Pinned
  <2> QED
    BY <1>10, <2>1, <2>4, <2>5 DEF Release
<1>11. ASSUME NEW t \in Threads, RouteStep(t) PROVE Owned'
  <2>1. CASE QueueAndRelease(t)
    BY <1>10, <2>1 DEF QueueAndRelease, AtWork, tableVars, listVars
  <2>2. CASE ThreadJoined(t)
    BY <1>6, <2>2 DEF ThreadJoined, tableVars, listVars, routerVars
  <2>3. ASSUME NEW d \in Dests, FindPeer(t, d) PROVE Owned'
    <3>1. PICK e \in Endpoints : e = EndpointFor(d)
      BY <2>3 DEF FindPeer, EndpointFor
    <3>2. Tracked(e) /\ life[e] = "live" /\ building # e
      BY <2>3, <3>1 DEF FindPeer, EndpointFor, Tracked, Owned, Pinned
    <3>3. held' = [held EXCEPT ![t] = e]
      BY <2>3, <3>1 DEF FindPeer
    <3> QED
      BY <2>3, <3>2, <3>3 DEF FindPeer, Owned, Pinned, Tracked, tableVars, listVars,
         routerVars, endpointVars
  <2>4. CASE NoClientPeer(t) \/ StashEnvelope(t) \/ \E d \in Dests : NoIpcPeer(t, d)
    BY <1>1, <2>4 DEF NoClientPeer, StashEnvelope, NoIpcPeer, ownVars, tableVars, listVars,
       routerVars, endpointVars
  <2> QED
    BY <1>11, <2>1, <2>2, <2>3, <2>4 DEF RouteStep
<1>12. CASE KickClient
  <2>1. PICK e \in Endpoints : e = mClients
    BY <1>12 DEF KickClient
  <2>2. life[e] = "live" /\ building # e
    BY <2>1 DEF Tracked, Owned, Pinned
  <2>3. held' = [held EXCEPT ![Service] = e]
    BY <1>12, <2>1 DEF KickClient
  <2> QED
    BY <1>12, <2>2, <2>3 DEF KickClient, Owned, Pinned, Tracked, tableVars, listVars,
       routerVars
<1>13. CASE Drained
  <2>1. flagged \subseteq flagged'
    BY <1>13 DEF Drained, FlagForDestruction
  <2> QED
    BY <1>10, <1>13, <2>1 DEF Drained, AtWork, tableVars
<1>14. CASE \/ \E d \in Dests : RouteFromService(d)
            \/ KickNoClient \/ ClearStashedEnvelopes \/ DeleteRoutingData
  BY <1>1, <1>14 DEF RouteFromService, StartRouting, KickNoClient, ClearStashedEnvelopes,
     DeleteRoutingData, ownVars, tableVars, listVars, routerVars, endpointVars, threadVars
<1>15. CASE UNCHANGED vars
  BY <1>1, <1>15 DEF vars, ownVars, tableVars, listVars, routerVars, endpointVars,
     threadVars
<1> QED
  BY <1>2, <1>3, <1>4, <1>7, <1>9, <1>11, <1>12, <1>13, <1>14, <1>15 DEF Next
-----------------------------------------------------------------------------
(* Queueing a message keeps what has been queued. *)
LEMMA AppendKeeps ==
  ASSUME NEW S, NEW s \in Seq(S), NEW x \in S, NEW i \in 1..Len(s)
  PROVE  i \in 1..Len(Append(s, x)) /\ Append(s, x)[i] = s[i]
OBVIOUS

LEMMA ConcatEnds ==
  ASSUME NEW S, NEW s \in Seq(S), NEW u \in Seq(S), NEW i \in 1..Len(u)
  PROVE  Len(s) + i \in 1..Len(s \o u) /\ (s \o u)[Len(s) + i] = u[i]
OBVIOUS

LEMMA StashStep ==
  TypeOK /\ AtWork /\ StashDelivered /\ [Next]_vars => StashDelivered'
<1> SUFFICES ASSUME TypeOK, AtWork, StashDelivered, [Next]_vars PROVE StashDelivered'
  OBVIOUS
<1> USE Places
<1>1. ASSUME UNCHANGED <<mClients, mPendingEnvelopes, out>> PROVE StashDelivered'
  BY <1>1 DEF StashDelivered
<1>2. ASSUME NEW e \in Endpoints, NEW x \in Messages,
             UNCHANGED <<mClients, mPendingEnvelopes>>,
             out' = [out EXCEPT ![e] = Append(out[e], x)]
      PROVE StashDelivered'
  <2>1. ASSUME NEW f \in Endpoints, NEW i \in 1..Len(out[f])
        PROVE  i \in 1..Len(out'[f]) /\ out'[f][i] = out[f][i]
    <3>1. out[f] \in Seq(Messages)
      BY DEF TypeOK
    <3>2. CASE f = e
      BY <1>2, <3>1, <3>2, AppendKeeps DEF TypeOK
    <3>3. CASE f # e
      BY <1>2, <3>3 DEF TypeOK
    <3> QED
      BY <3>2, <3>3
  <2>2. mClients # None => mClients \in Endpoints
    BY DEF TypeOK
  <2> QED
    BY <1>2, <2>1, <2>2 DEF StashDelivered
<1>3. ASSUME NEW t \in Threads, NEW e \in Endpoints, QueueEnvelope(t, e),
             UNCHANGED <<mClients, mPendingEnvelopes>>
      PROVE StashDelivered'
  <2>1. Message(t) \in Messages
    BY DEF TypeOK, Message, Messages
  <2> QED
    BY <1>1, <1>2, <1>3, <2>1 DEF QueueEnvelope
<1>4. ASSUME NEW e \in Endpoints,
             \/ Leave(e) \/ SendFails(e) \/ ReceiveFails(e) \/ ReceiveShutDown(e)
             \/ \E ds \in SUBSET MayAddress(e) \ {{}} : ReceiveEnvelope(e, ds)
      PROVE StashDelivered'
  BY <1>1, <1>4 DEF Leave, SendFails, ReceiveFails, ReceiveShutDown, ReceiveThreadEnds,
     ReceiveEnvelope, StartRouting, tableVars, endpointVars
<1>5. CASE RouterThread
  <2>1. CASE TrackClient
    <3>1. PICK e \in Endpoints : e = building
      BY <2>1 DEF TrackClient
    <3>2. out[e] \in Seq(Messages) /\ mPendingEnvelopes \in Seq(Messages)
      BY DEF TypeOK
    <3>3. /\ mClients' = e /\ out'[e] = out[e] \o mPendingEnvelopes
          /\ UNCHANGED mPendingEnvelopes
      BY <2>1, <3>1 DEF TrackClient, TypeOK
    <3>4. \A i \in 1..Len(mPendingEnvelopes) :
            /\ Len(out[e]) + i \in 1..Len(out'[e])
            /\ out'[e][Len(out[e]) + i] = mPendingEnvelopes[i]
      BY <3>2, <3>3, ConcatEnds
    <3> QED
      BY <3>3, <3>4 DEF StashDelivered
  <2>2. CASE ~TrackClient
    BY <1>1, <1>5, <2>2 DEF RouterThread, BuildEndpoint, BuildThrows, TrackIpc,
       RouterJoined, RefuseClient, AcceptClient, AcceptTemporarily, RegisterExecutor,
       StartBuilding, Build, Refuse, tableVars, endpointVars
  <2> QED
    BY <2>1, <2>2
<1>6. CASE DestroyEndpoints
  BY <1>6 DEF DestroyEndpoints, StashDelivered
<1>7. ASSUME NEW t \in Threads, RouteStep(t) PROVE StashDelivered'
  <2>1. CASE QueueAndRelease(t)
    <3>1. PICK e \in Endpoints : e = held[t]
      BY <2>1 DEF QueueAndRelease, AtWork, TypeOK
    <3>2. QueueEnvelope(t, e)
      BY <2>1, <3>1 DEF QueueAndRelease, QueueEnvelope
    <3> QED
      BY <1>3, <2>1, <3>2 DEF QueueAndRelease, tableVars
  <2>2. CASE StashEnvelope(t)
    <3>1. CASE mClients = None
      BY <2>2, <3>1 DEF StashEnvelope, StashDelivered
    <3>2. CASE mClients # None
      <4>1. PICK e \in Endpoints : e = mClients
        BY <3>2 DEF TypeOK
      <4>2. QueueEnvelope(t, e) /\ UNCHANGED <<mClients, mPendingEnvelopes>>
        BY <2>2, <3>2, <4>1 DEF StashEnvelope, QueueEnvelope
      <4> QED
        BY <1>3, <4>2
    <3> QED
      BY <3>1, <3>2
  <2>3. CASE \/ NoClientPeer(t) \/ ThreadJoined(t)
             \/ \E d \in Dests : FindPeer(t, d) \/ NoIpcPeer(t, d)
    BY <1>1, <2>3 DEF NoClientPeer, ThreadJoined, FindPeer, NoIpcPeer, tableVars,
       endpointVars
  <2> QED
    BY <1>7, <2>1, <2>2, <2>3 DEF RouteStep
<1>8. CASE KickClient
  <2>1. PICK e \in Endpoints : e = mClients
    BY <1>8 DEF KickClient, TypeOK
  <2>2. PICK x : x = [from |-> Service, n |-> count[Service] + 1]
    OBVIOUS
  <2>3. x \in Messages
    BY <2>2 DEF TypeOK, Messages
  <2> QED
    BY <1>2, <1>8, <2>1, <2>2, <2>3 DEF KickClient, tableVars
<1>9. CASE ClearStashedEnvelopes
  BY <1>9 DEF ClearStashedEnvelopes, StashDelivered
<1>10. CASE \/ \E d \in Dests : RouteFromService(d)
            \/ Drained \/ KickNoClient \/ DeleteRoutingData
  BY <1>1, <1>10 DEF RouteFromService, StartRouting, Drained, KickNoClient,
     DeleteRoutingData, tableVars, endpointVars
<1>11. CASE UNCHANGED vars
  BY <1>1, <1>11 DEF vars, tableVars, endpointVars
<1> QED
  BY <1>4, <1>5, <1>6, <1>7, <1>8, <1>9, <1>10, <1>11 DEF Next
-----------------------------------------------------------------------------
(* Why order is kept: a thread has not given its last message to an endpoint, *)
(* or to the stash, as long as it owes it to that destination.              *)
DestOf(e) == IF e \in Conns THEN Client ELSE e

owed ==
  [t \in Threads |->
     todo[t] \cup (IF pc[t] = "stash" THEN {Client} ELSE {})
             \cup (IF pc[t] = "queue" THEN {DestOf(held[t])} ELSE {})]

AllBelow(s, d) ==
  \A i \in 1..Len(s) : /\ s[i].n <= count[s[i].from]
                       /\ d \in owed[s[i].from] => s[i].n < count[s[i].from]

Ordered(s) ==
  \A i, j \in 1..Len(s) : i < j /\ s[i].from = s[j].from => s[i].n < s[j].n

(* A destination leaves todo when its turn comes. *)
Turns ==
  \A t \in Threads :
    /\ pc[t] \in {"off", "poll", "drain", "clear"} => todo[t] = {}
    /\ pc[t] = "stash" => Client \notin todo[t]
    /\ pc[t] = "queue" => DestOf(held[t]) \notin todo[t]

Sorted ==
  /\ Ordered(mPendingEnvelopes) /\ AllBelow(mPendingEnvelopes, Client)
  /\ \A e \in Endpoints :
       /\ Ordered(out[e]) /\ AllBelow(out[e], DestOf(e))
       /\ socket[e] = "idle" \/ building = e => out[e] = <<>>

LEMMA DestOfEndpoint ==
  ASSUME TypeOK, NEW t \in Threads, NEW d \in Dests, FindPeer(t, d)
  PROVE  DestOf(held'[t]) = d /\ held' = [held EXCEPT ![t] = held'[t]]
BY Places DEF TypeOK, FindPeer, EndpointFor, DestOf

LEMMA TurnsStep == TypeOK /\ AtWork /\ Turns /\ [Next]_vars => Turns'
<1> SUFFICES ASSUME TypeOK, AtWork, Turns, [Next]_vars PROVE Turns'
  OBVIOUS
<1> USE Places DEF TypeOK
<1>1. ASSUME UNCHANGED <<pc, todo, held>> PROVE Turns'
  BY <1>1 DEF Turns
<1>2. ASSUME NEW e \in Endpoints, ReceiveFails(e) \/ ReceiveShutDown(e) PROVE Turns'
  BY <1>2 DEF ReceiveFails, ReceiveShutDown, ReceiveThreadEnds, Turns
<1>3. ASSUME NEW t \in Threads, NEW ds \in SUBSET Dests, StartRouting(t, ds) PROVE Turns'
  BY <1>3 DEF StartRouting, Turns
<1>4. ASSUME NEW e \in Endpoints, NEW ds \in SUBSET MayAddress(e) \ {{}},
             ReceiveEnvelope(e, ds)
      PROVE Turns'
  <2>1. ds \in SUBSET Dests
    BY DEF MayAddress
  <2> QED
    BY <1>3, <1>4, <2>1 DEF ReceiveEnvelope
<1>5. ASSUME NEW e \in Endpoints, Build(e), socket[e] = "idle" PROVE Turns'
  BY <1>5 DEF Build, Turns, AtWork
<1>6. CASE RouterThread
  <2>1. CASE BuildEndpoint
    <3>1. PICK e \in Endpoints : e = building
      BY <2>1 DEF BuildEndpoint, AtWork
    <3>2. Build(e) /\ socket[e] = "idle"
      BY <2>1, <3>1 DEF BuildEndpoint, Build, AtWork
    <3> QED
      BY <1>5, <3>2
  <2>2. ASSUME NEW c \in Conns, AcceptTemporarily(c) PROVE Turns'
    BY <1>5, <2>2 DEF AcceptTemporarily
  <2>3. CASE BuildThrows \/ TrackClient \/ TrackIpc \/ RouterJoined
    BY <1>1, <2>3 DEF BuildThrows, TrackClient, TrackIpc, RouterJoined, Refuse, threadVars
  <2>4. CASE \/ \E c \in Conns : RefuseClient(c) \/ AcceptClient(c)
             \/ \E p \in Comps : RegisterExecutor(p)
    BY <1>1, <2>4 DEF RefuseClient, AcceptClient, RegisterExecutor, StartBuilding, Refuse,
       threadVars
  <2> QED
    BY <1>6, <2>1, <2>2, <2>3, <2>4 DEF RouterThread
<1>7. ASSUME NEW t \in Threads, RouteStep(t) PROVE Turns'
  <2>1. CASE NoClientPeer(t)
    BY <2>1 DEF NoClientPeer, Turns
  <2>2. CASE QueueAndRelease(t)
    <3>1. /\ UNCHANGED todo /\ held' = [held EXCEPT ![t] = None]
          /\ \/ pc' = [pc EXCEPT ![t] = "join"]
             \/ pc' = [pc EXCEPT ![t] = Finished(t, todo[t])]
      BY <2>2 DEF QueueAndRelease, Release
    <3> QED
      BY <3>1 DEF Finished, Turns
  <2>3. CASE StashEnvelope(t)
    BY <2>3 DEF StashEnvelope, Finished, Turns
  <2>4. CASE ThreadJoined(t)
    BY <2>4 DEF ThreadJoined, Finished, Turns
  <2>5. ASSUME NEW d \in Dests, FindPeer(t, d) PROVE Turns'
    <3>1. DestOf(held'[t]) = d /\ \A u \in Threads : u # t => held'[u] = held[u]
      BY <2>5, DestOfEndpoint
    <3>2. /\ pc' = [pc EXCEPT ![t] = "queue"]
          /\ todo' = [todo EXCEPT ![t] = todo[t] \ {d}]
      BY <2>5 DEF FindPeer
    <3> QED
      BY <3>1, <3>2 DEF Turns, DestOf
  <2>6. ASSUME NEW d \in Dests, NoIpcPeer(t, d) PROVE Turns'
    BY <2>6 DEF NoIpcPeer, Finished, Turns
  <2> QED
    BY <1>7, <2>1, <2>2, <2>3, <2>4, <2>5, <2>6 DEF RouteStep
<1>8. CASE KickClient
  BY <1>8 DEF KickClient, Turns
<1>9. CASE Drained
  <2>1. /\ pc[Service] = "drain" /\ UNCHANGED todo /\ held' = [held EXCEPT ![Service] = None]
        /\ \/ pc' = [pc EXCEPT ![Service] = "join"]
           \/ pc' = [pc EXCEPT ![Service] = "poll"]
    BY <1>9 DEF Drained, Release
  <2> QED
    BY <2>1 DEF Turns
<1>10. CASE KickNoClient \/ ClearStashedEnvelopes
  BY <1>10 DEF KickNoClient, ClearStashedEnvelopes, Turns
<1>11. CASE \/ \E e \in Endpoints : Leave(e) \/ SendFails(e)
            \/ DestroyEndpoints \/ DeleteRoutingData \/ UNCHANGED vars
  BY <1>1, <1>11 DEF Leave, SendFails, DestroyEndpoints, DeleteRoutingData, vars, threadVars
<1>12. ASSUME NEW d \in Dests, RouteFromService(d) PROVE Turns'
  BY <1>3, <1>12 DEF RouteFromService
<1> QED
  BY <1>2, <1>4, <1>6, <1>7, <1>8, <1>9, <1>10, <1>11, <1>12 DEF Next

LEMMA MessageFields ==
  ASSUME TypeOK
  PROVE  \A e \in Endpoints : \A i \in 1..Len(out[e]) :
           out[e][i] \in Messages /\ out[e][i].from \in Threads /\ out[e][i].n \in Nat
<1>1. \A e \in Endpoints : \A i \in 1..Len(out[e]) : out[e][i] \in Messages
  BY DEF TypeOK
<1>2. \A m \in Messages : m.from \in Threads /\ m.n \in Nat
  BY DEF Messages
<1> QED
  BY <1>1, <1>2

(* What is owed after a step of thread t. *)
LEMMA OwedAfter ==
  ASSUME TypeOK, NEW t \in Threads, NEW to, pc' = [pc EXCEPT ![t] = to],
         \A u \in Threads : u # t => todo'[u] = todo[u] /\ held'[u] = held[u]
  PROVE  /\ \A u \in Threads : u # t => owed'[u] = owed[u]
         /\ todo[t] \subseteq owed[t]
         /\ to = "stash" => owed'[t] = todo'[t] \cup {Client}
         /\ to = "queue" => owed'[t] = todo'[t] \cup {DestOf(held'[t])}
         /\ to \notin {"stash", "queue"} => owed'[t] = todo'[t]
<1>1. pc'[t] = to /\ \A u \in Threads : u # t => pc'[u] = pc[u]
  BY DEF TypeOK
<1>2. /\ to = "stash" => owed'[t] = todo'[t] \cup {Client}
      /\ to = "queue" => owed'[t] = todo'[t] \cup {DestOf(held'[t])}
      /\ to \notin {"stash", "queue"} => owed'[t] = todo'[t]
  BY <1>1 DEF owed, DestOf
<1>3. \A u \in Threads : u # t => owed'[u] = owed[u]
  BY <1>1 DEF owed, DestOf
<1> QED
  BY <1>2, <1>3 DEF owed

(* A step that queues and stashes nothing keeps Sorted if no thread owes more  *)
(* than before, unless its message is a new one.                            *)
LEMMA StillSorted ==
  ASSUME TypeOK, TypeOK', Sorted, UNCHANGED <<mPendingEnvelopes, out>>,
         \A u \in Threads : /\ count[u] <= count'[u]
                            /\ owed'[u] \subseteq owed[u] \/ count[u] < count'[u],
         \A e \in Endpoints : socket'[e] = "idle" \/ building' = e
                                => socket[e] = "idle" \/ building = e
  PROVE  Sorted'
<1>1. ASSUME NEW m \in Messages, NEW d, m.n <= count[m.from],
             d \in owed[m.from] => m.n < count[m.from]
      PROVE  m.n <= count'[m.from] /\ (d \in owed'[m.from] => m.n < count'[m.from])
  <2>1. m.from \in Threads /\ m.n \in Nat
    BY DEF Messages
  <2>2. count[m.from] \in Nat /\ count'[m.from] \in Nat
    BY <2>1 DEF TypeOK
  <2> QED
    BY <1>1, <2>1, <2>2
<1>2. \A i \in 1..Len(mPendingEnvelopes) : mPendingEnvelopes[i] \in Messages
  BY DEF TypeOK
<1>3. \A e \in Endpoints : \A i \in 1..Len(out[e]) : out[e][i] \in Messages
  BY DEF TypeOK
<1>4. AllBelow(mPendingEnvelopes, Client)'
  BY <1>1, <1>2 DEF Sorted, AllBelow
<1>5. ASSUME NEW e \in Endpoints PROVE AllBelow(out[e], DestOf(e))'
  BY <1>1, <1>3 DEF Sorted, AllBelow, DestOf
<1> QED
  BY <1>4, <1>5 DEF Sorted, Ordered

(* A new message at the end of a sequence. *)
LEMMA AppendOrdered ==
  ASSUME NEW s \in Seq(Messages), NEW m \in Messages, Ordered(s),
         \A i \in 1..Len(s) : s[i].from = m.from => s[i].n < m.n
  PROVE  Ordered(Append(s, m))
<1>1. /\ Len(Append(s, m)) = Len(s) + 1 /\ Len(s) \in Nat
      /\ Append(s, m)[Len(s) + 1] = m
      /\ \A i \in 1..Len(s) : Append(s, m)[i] = s[i]
  OBVIOUS
<1> SUFFICES ASSUME NEW i \in 1..Len(s) + 1, NEW j \in 1..Len(s) + 1, i < j,
                    Append(s, m)[i].from = Append(s, m)[j].from
             PROVE  Append(s, m)[i].n < Append(s, m)[j].n
  BY <1>1 DEF Ordered
<1>2. i \in 1..Len(s)
  BY <1>1
<1>3. CASE j = Len(s) + 1
  BY <1>1, <1>2, <1>3
<1>4. CASE j # Len(s) + 1
  <2>1. j \in 1..Len(s)
    BY <1>1, <1>4
  <2> QED
    BY <1>1, <1>2, <2>1 DEF Ordered
<1> QED
  BY <1>3, <1>4

(* A thread queues its last message, for a destination it no longer owes. *)
LEMMA AppendSorted ==
  ASSUME TypeOK, TypeOK', Sorted, NEW e \in Endpoints, NEW m \in Messages,
         m.n = count'[m.from], DestOf(e) \notin owed'[m.from],
         \A i \in 1..Len(out[e]) : out[e][i].from = m.from => out[e][i].n < m.n,
         \A u \in Threads : /\ count[u] <= count'[u]
                            /\ owed'[u] \subseteq owed[u] \/ count[u] < count'[u],
         socket[e] # "idle", building # e,
         UNCHANGED <<mPendingEnvelopes, socket, building>>,
         out' = [out EXCEPT ![e] = Append(out[e], m)]
  PROVE  Sorted'
<1>1. ASSUME NEW x \in Messages, NEW d, x.n <= count[x.from],
             d \in owed[x.from] => x.n < count[x.from]
      PROVE  x.n <= count'[x.from] /\ (d \in owed'[x.from] => x.n < count'[x.from])
  <2>1. x.from \in Threads /\ x.n \in Nat
    BY DEF Messages
  <2>2. count[x.from] \in Nat /\ count'[x.from] \in Nat
    BY <2>1 DEF TypeOK
  <2> QED
    BY <1>1, <2>1, <2>2
<1>2. \A i \in 1..Len(mPendingEnvelopes) : mPendingEnvelopes[i] \in Messages
  BY DEF TypeOK
<1>3. \A f \in Endpoints : \A i \in 1..Len(out[f]) : out[f][i] \in Messages
  BY DEF TypeOK
<1>4. AllBelow(mPendingEnvelopes, Client)'
  BY <1>1, <1>2 DEF Sorted, AllBelow
<1>5. out[e] \in Seq(Messages) /\ out'[e] = Append(out[e], m)
  BY DEF TypeOK
<1>6. Ordered(out'[e])
  BY <1>5, AppendOrdered DEF Sorted
<1>7. ASSUME NEW i \in 1..Len(out'[e])
      PROVE  /\ out'[e][i].n <= count'[out'[e][i].from]
             /\ DestOf(e) \in owed'[out'[e][i].from]
                  => out'[e][i].n < count'[out'[e][i].from]
  <2>1. CASE i \in 1..Len(out[e])
    <3>1. out'[e][i] = out[e][i] /\ out[e][i] \in Messages
      BY <1>3, <1>5, <2>1
    <3> QED
      BY <1>1, <2>1, <3>1 DEF Sorted, AllBelow
  <2>2. CASE i \notin 1..Len(out[e])
    <3>1. out'[e][i] = m
      BY <1>5, <2>2
    <3>2. m.n \in Nat
      BY DEF Messages
    <3> QED
      BY <3>1, <3>2
  <2> QED
    BY <2>1, <2>2
<1>8. ASSUME NEW f \in Endpoints, f # e
      PROVE  /\ out'[f] = out[f]
             /\ Ordered(out'[f]) /\ AllBelow(out[f], DestOf(f))'
  <2>1. out'[f] = out[f]
    BY <1>8 DEF TypeOK
  <2>2. Ordered(out'[f])
    BY <2>1 DEF Sorted
  <2>3. AllBelow(out[f], DestOf(f))'
    BY <1>1, <1>3, <2>1 DEF Sorted, AllBelow, DestOf
  <2> QED
    BY <2>1, <2>2, <2>3
<1>9. ASSUME NEW f \in Endpoints
      PROVE  /\ Ordered(out'[f]) /\ AllBelow(out[f], DestOf(f))'
             /\ socket'[f] = "idle" \/ building' = f => out'[f] = <<>>
  BY <1>6, <1>7, <1>8 DEF Sorted, AllBelow, DestOf
<1> QED
  BY <1>4, <1>9 DEF Sorted, Ordered

LEMMA SortedStep ==
  TypeOK /\ TypeOK' /\ AtWork /\ Owned /\ Turns /\ Sorted /\ [Next]_vars => Sorted'
<1> SUFFICES ASSUME TypeOK, TypeOK', AtWork, Owned, Turns, Sorted, [Next]_vars
             PROVE  Sorted'
  OBVIOUS
<1> USE Places
<1>1. ASSUME UNCHANGED <<mPendingEnvelopes, out, count>>,
             \A u \in Threads : owed'[u] \subseteq owed[u],
             \A e \in Endpoints : socket'[e] = "idle" \/ building' = e
                                    => socket[e] = "idle" \/ building = e
      PROVE  Sorted'
  <2>1. \A u \in Threads : count[u] <= count'[u]
    BY <1>1 DEF TypeOK
  <2> QED
    BY <1>1, <2>1, StillSorted
<1>2. ASSUME UNCHANGED <<pc, todo, held>> PROVE \A u \in Threads : owed'[u] \subseteq owed[u]
  BY <1>2 DEF owed
<1>3. ASSUME NEW t \in Threads, NEW e \in Endpoints, QueueEnvelope(t, e),
             DestOf(e) \in owed[t], DestOf(e) \notin owed'[t],
             \A u \in Threads : owed'[u] \subseteq owed[u],
             life[e] = "live", building # e,
             UNCHANGED <<mPendingEnvelopes, count, socket, building>>
      PROVE Sorted'
  <2>1. PICK m : m = Message(t)
    OBVIOUS
  <2>2. m \in Messages /\ m.from = t /\ m.n = count[t]
    BY <2>1 DEF Message, Messages, TypeOK
  <2>3. \A i \in 1..Len(out[e]) : out[e][i].from = m.from => out[e][i].n < m.n
    BY <1>3, <2>2 DEF Sorted, AllBelow
  <2>4. socket[e] # "idle" /\ \A u \in Threads : count[u] <= count'[u]
    BY <1>3 DEF Owned, TypeOK
  <2>5. out' = [out EXCEPT ![e] = Append(out[e], m)]
    BY <1>3, <2>1 DEF QueueEnvelope
  <2>6. m.n = count'[m.from] /\ DestOf(e) \notin owed'[m.from]
    BY <1>3, <2>2
  <2> QED
    BY <1>3, <2>2, <2>3, <2>4, <2>5, <2>6, AppendSorted
<1>4. ASSUME NEW e \in Endpoints,
             Leave(e) \/ SendFails(e) \/ ReceiveFails(e) \/ ReceiveShutDown(e)
      PROVE Sorted'
  <2>1. \A u \in Threads : owed'[u] \subseteq owed[u]
    BY <1>4 DEF Leave, SendFails, ReceiveFails, ReceiveShutDown, ReceiveThreadEnds,
       threadVars, owed, TypeOK
  <2>2. \A f \in Endpoints : socket'[f] = "idle" => socket[f] = "idle"
    BY <1>4 DEF Leave, SendFails, ReceiveFails, ReceiveShutDown, ReceiveThreadEnds,
       endpointVars, TypeOK
  <2> QED
    BY <1>1, <1>4, <2>1, <2>2 DEF Leave, SendFails, ReceiveFails, ReceiveShutDown,
       ReceiveThreadEnds, tableVars, routerVars, endpointVars, threadVars
<1>5. ASSUME NEW t \in Threads, NEW ds, StartRouting(t, ds) PROVE Sorted'
  <2>1. \A u \in Threads : /\ count[u] <= count'[u]
                           /\ owed'[u] \subseteq owed[u] \/ count[u] < count'[u]
    <3>1. /\ count' = [count EXCEPT ![t] = count[t] + 1]
          /\ pc' = [pc EXCEPT ![t] = "route"] /\ todo' = [todo EXCEPT ![t] = ds]
          /\ held' = held
      BY <1>5 DEF StartRouting
    <3>2. count'[t] = count[t] + 1 /\ \A u \in Threads : count[u] \in Nat
      BY <3>1 DEF TypeOK
    <3>3. ASSUME NEW u \in Threads, u # t
          PROVE  count'[u] = count[u] /\ owed'[u] = owed[u]
      <4>1. count'[u] = count[u] /\ pc'[u] = pc[u] /\ todo'[u] = todo[u]
        BY <3>1, <3>3 DEF TypeOK
      <4> QED
        BY <3>1, <4>1 DEF owed, DestOf
    <3> QED
      BY <3>2, <3>3
  <2> QED
    BY <1>5, <2>1, StillSorted DEF StartRouting, tableVars, routerVars, endpointVars
<1>6. ASSUME NEW e \in Endpoints, Build(e), socket[e] = "idle" PROVE Sorted'
  <2>1. \A u \in Threads : owed'[u] \subseteq owed[u]
    BY <1>6 DEF Build, owed, TypeOK
  <2> QED
    BY <1>1, <1>6, <2>1 DEF Build, tableVars, TypeOK
<1>7. CASE RouterThread
  <2>1. CASE BuildEndpoint
    <3>1. PICK e \in Endpoints : e = building
      BY <2>1 DEF BuildEndpoint, AtWork, TypeOK
    <3>2. Build(e) /\ socket[e] = "idle"
      BY <2>1, <3>1 DEF BuildEndpoint, Build, AtWork
    <3> QED
      BY <1>6, <3>2
  <2>2. ASSUME NEW c \in Conns, AcceptTemporarily(c) PROVE Sorted'
    BY <1>6, <2>2 DEF AcceptTemporarily
  <2>3. CASE TrackClient
    <3>1. PICK e \in Endpoints : e = building /\ e \in Conns
      BY <2>3 DEF TrackClient
    <3>2. out[e] = <<>> /\ mPendingEnvelopes \in Seq(Messages)
      BY <3>1 DEF Sorted, TypeOK
    <3>3. out' = [out EXCEPT ![e] = mPendingEnvelopes]
      <4>1. <<>> \o mPendingEnvelopes = mPendingEnvelopes
        BY <3>2
      <4> QED
        BY <2>3, <3>1, <3>2, <4>1 DEF TrackClient
    <3>4. UNCHANGED <<mPendingEnvelopes, count, pc, todo, held, socket>> /\ building' = None
      BY <2>3 DEF TrackClient, threadVars
    <3>5. owed' = owed
      BY <3>4 DEF owed
    <3>6. DestOf(e) = Client
      BY <3>1 DEF DestOf
    <3>7. Ordered(mPendingEnvelopes)' /\ AllBelow(mPendingEnvelopes, Client)'
      BY <3>4, <3>5 DEF Sorted, Ordered, AllBelow
    <3>8. ASSUME NEW f \in Endpoints
          PROVE  /\ Ordered(out[f])' /\ AllBelow(out[f], DestOf(f))'
                 /\ socket'[f] = "idle" \/ building' = f => out'[f] = <<>>
      <4>1. CASE f = e
        <5>1. out'[e] = mPendingEnvelopes' /\ socket[e] # "idle"
          BY <2>3, <3>1, <3>3, <3>4 DEF TypeOK, Owned, Pinned, TrackClient
        <5> QED
          BY <3>4, <3>6, <3>7, <4>1, <5>1 DEF Ordered, AllBelow, DestOf
      <4>2. CASE f # e
        <5>1. out'[f] = out[f]
          BY <3>3, <4>2 DEF TypeOK
        <5> QED
          BY <3>4, <3>5, <5>1 DEF Sorted, Ordered, AllBelow, DestOf
      <4> QED
        BY <4>1, <4>2
    <3> QED
      BY <3>7, <3>8 DEF Sorted
  <2>4. CASE BuildThrows \/ TrackIpc \/ RouterJoined
    BY <1>1, <1>2, <2>4 DEF BuildThrows, TrackIpc, RouterJoined, Refuse, tableVars,
       routerVars, endpointVars, threadVars, TypeOK
  <2>5. ASSUME NEW c \in Conns, RefuseClient(c) PROVE Sorted'
    BY <1>1, <1>2, <2>5 DEF RefuseClient, Refuse, tableVars, threadVars, TypeOK
  <2>6. ASSUME NEW e \in Endpoints, socket[e] = "idle", StartBuilding(e) PROVE Sorted'
    BY <1>1, <1>2, <2>6 DEF StartBuilding, tableVars, endpointVars, threadVars
  <2> QED
    BY <1>7, <2>1, <2>2, <2>3, <2>4, <2>5, <2>6
    DEF RouterThread, AcceptClient, RegisterExecutor
<1>8. ASSUME NEW t \in Threads, RouteStep(t) PROVE Sorted'
  <2>1. CASE NoClientPeer(t)
    <3>1. /\ Client \in todo[t] /\ pc' = [pc EXCEPT ![t] = "stash"] /\ held' = held
          /\ todo' = [todo EXCEPT ![t] = todo[t] \ {Client}]
      BY <2>1 DEF NoClientPeer, NextDest
    <3>2. /\ todo'[t] = todo[t] \ {Client}
          /\ \A u \in Threads : u # t => todo'[u] = todo[u] /\ held'[u] = held[u]
      BY <3>1 DEF TypeOK
    <3>3. \A u \in Threads : owed'[u] \subseteq owed[u]
      <4>1. /\ \A u \in Threads : u # t => owed'[u] = owed[u]
            /\ todo[t] \subseteq owed[t] /\ owed'[t] = todo'[t] \cup {Client}
        BY <3>1, <3>2, OwedAfter
      <4> QED
        BY <3>1, <3>2, <4>1
    <3> QED
      BY <1>1, <2>1, <3>3 DEF NoClientPeer, tableVars, routerVars, endpointVars
  <2>2. CASE QueueAndRelease(t)
    <3>1. PICK e \in Endpoints : e = held[t]
      BY <2>2 DEF QueueAndRelease, AtWork, TypeOK
    <3>2. /\ QueueEnvelope(t, e) /\ life[e] = "live" /\ building # e
          /\ UNCHANGED <<mPendingEnvelopes, todo, count, socket, building>>
      BY <2>2, <3>1 DEF QueueAndRelease, QueueEnvelope, Owned, tableVars, routerVars
    <3>3. /\ held' = [held EXCEPT ![t] = None]
          /\ \/ pc' = [pc EXCEPT ![t] = "join"]
             \/ pc' = [pc EXCEPT ![t] = Finished(t, todo[t])]
      BY <2>2 DEF QueueAndRelease, Release
    <3>4. DestOf(e) \in owed[t] /\ DestOf(e) \notin todo[t]
      BY <2>2, <3>1 DEF QueueAndRelease, Turns, owed, TypeOK
    <3>5. owed'[t] = todo[t] /\ \A u \in Threads : u # t => owed'[u] = owed[u]
      <4>1. \A u \in Threads : u # t => todo'[u] = todo[u] /\ held'[u] = held[u]
        BY <3>2, <3>3 DEF TypeOK
      <4>2. PICK to : pc' = [pc EXCEPT ![t] = to] /\ to \notin {"stash", "queue"}
        BY <3>3 DEF Finished
      <4>3. owed'[t] = todo'[t] /\ \A u \in Threads : u # t => owed'[u] = owed[u]
        BY <4>1, <4>2, OwedAfter
      <4> QED
        BY <3>2, <4>3
    <3>6. todo[t] \subseteq owed[t]
      BY DEF owed
    <3> QED
      BY <1>3, <3>2, <3>4, <3>5, <3>6
  <2>3. CASE StashEnvelope(t)
    <3>1. /\ pc[t] = "stash" /\ pc' = [pc EXCEPT ![t] = Finished(t, todo[t])]
          /\ UNCHANGED <<mClients, todo, held, count, socket, building>>
      BY <2>3 DEF StashEnvelope, routerVars
    <3>2. Client \in owed[t] /\ Client \notin todo[t] /\ todo[t] \subseteq owed[t]
      BY <3>1 DEF Turns, owed
    <3>3. owed'[t] = todo[t] /\ \A u \in Threads : u # t => owed'[u] = owed[u]
      BY <3>1 DEF Finished, owed, DestOf, TypeOK
    <3>4. \A u \in Threads : owed'[u] \subseteq owed[u]
      BY <3>2, <3>3
    <3>5. CASE mClients # None
      <4>1. PICK e \in Endpoints : e = mClients /\ e \in Conns
        BY <3>5 DEF TypeOK
      <4>2. QueueEnvelope(t, e) /\ UNCHANGED mPendingEnvelopes
        BY <2>3, <3>5, <4>1 DEF StashEnvelope, QueueEnvelope
      <4>3. life[e] = "live" /\ building # e
        BY <4>1 DEF Owned, Pinned, Tracked
      <4>4. DestOf(e) = Client
        BY <4>1 DEF DestOf
      <4> QED
        BY <1>3, <3>1, <3>2, <3>3, <3>4, <4>2, <4>3, <4>4
    <3>6. CASE mClients = None
      <4>1. PICK m : m = Message(t)
        OBVIOUS
      <4>2. m \in Messages /\ m.from = t /\ m.n = count[t] /\ count[t] \in Nat
        BY <4>1 DEF Message, Messages, TypeOK
      <4>3. mPendingEnvelopes' = Append(mPendingEnvelopes, m) /\ out' = out
        BY <2>3, <3>6, <4>1 DEF StashEnvelope
      <4>4. mPendingEnvelopes \in Seq(Messages)
        BY DEF TypeOK
      <4>5. \A i \in 1..Len(mPendingEnvelopes) :
              /\ mPendingEnvelopes[i] \in Messages
              /\ mPendingEnvelopes[i].n <= count[mPendingEnvelopes[i].from]
              /\ Client \in owed[mPendingEnvelopes[i].from]
                   => mPendingEnvelopes[i].n < count[mPendingEnvelopes[i].from]
        BY <4>4 DEF Sorted, AllBelow
      <4>6. Ordered(Append(mPendingEnvelopes, m))
        BY <3>2, <4>2, <4>4, <4>5, AppendOrdered DEF Sorted
      <4>7. AllBelow(mPendingEnvelopes, Client)'
        <5>1. SUFFICES ASSUME NEW i \in 1..Len(Append(mPendingEnvelopes, m)),
                              NEW x, x = Append(mPendingEnvelopes, m)[i]
                       PROVE  /\ x.n <= count[x.from]
                              /\ Client \in owed'[x.from] => x.n < count[x.from]
          BY <3>1, <4>3 DEF AllBelow
        <5>2. CASE i \in 1..Len(mPendingEnvelopes)
          <6>1. x = mPendingEnvelopes[i] /\ x \in Messages
            BY <4>2, <4>4, <4>5, <5>1, <5>2
          <6>2. x.from \in Threads
            BY <6>1 DEF Messages
          <6> QED
            BY <3>4, <4>5, <5>2, <6>1, <6>2
        <5>3. CASE i \notin 1..Len(mPendingEnvelopes)
          <6>1. x = m
            BY <4>2, <4>4, <5>1, <5>3
          <6> QED
            BY <3>2, <3>3, <4>2, <6>1
        <5> QED
          BY <5>2, <5>3
      <4>8. ASSUME NEW e \in Endpoints PROVE AllBelow(out[e], DestOf(e))'
        <5>1. \A i \in 1..Len(out[e]) : out[e][i] \in Messages /\ out[e][i].from \in Threads
          BY MessageFields
        <5> QED
          BY <3>1, <3>4, <4>3, <5>1 DEF Sorted, AllBelow, DestOf
      <4> QED
        BY <3>1, <4>3, <4>6, <4>7, <4>8 DEF Sorted, Ordered
    <3> QED
      BY <3>5, <3>6
  <2>4. CASE ThreadJoined(t)
    <3>1. \A u \in Threads : owed'[u] \subseteq owed[u]
      BY <2>4 DEF ThreadJoined, Finished, owed, TypeOK
    <3> QED
      BY <1>1, <2>4, <3>1 DEF ThreadJoined, tableVars, routerVars
  <2>5. ASSUME NEW d \in Dests, FindPeer(t, d) PROVE Sorted'
    <3>1. /\ DestOf(held'[t]) = d /\ d \in todo[t]
          /\ \A u \in Threads : u # t => held'[u] = held[u]
      BY <2>5, DestOfEndpoint DEF FindPeer, NextDest, TypeOK
    <3>2. /\ pc' = [pc EXCEPT ![t] = "queue"]
          /\ todo' = [todo EXCEPT ![t] = todo[t] \ {d}]
      BY <2>5 DEF FindPeer
    <3>3. \A u \in Threads : owed'[u] \subseteq owed[u]
      <4>1. /\ todo'[t] = todo[t] \ {d}
            /\ \A u \in Threads : u # t => todo'[u] = todo[u] /\ held'[u] = held[u]
        BY <3>1, <3>2 DEF TypeOK
      <4>2. /\ \A u \in Threads : u # t => owed'[u] = owed[u]
            /\ todo[t] \subseteq owed[t] /\ owed'[t] = todo'[t] \cup {d}
        BY <3>1, <3>2, <4>1, OwedAfter
      <4> QED
        BY <3>1, <4>1, <4>2
    <3> QED
      BY <1>1, <2>5, <3>3 DEF FindPeer, tableVars, routerVars, endpointVars
  <2>6. ASSUME NEW d \in Dests, NoIpcPeer(t, d) PROVE Sorted'
    <3>1. \A u \in Threads : owed'[u] \subseteq owed[u]
      BY <2>6 DEF NoIpcPeer, Finished, owed, TypeOK
    <3> QED
      BY <1>1, <2>6, <3>1 DEF NoIpcPeer, tableVars, routerVars, endpointVars
  <2> QED
    BY <1>8, <2>1, <2>2, <2>3, <2>4, <2>5, <2>6 DEF RouteStep
<1>9. CASE KickClient
  <2>1. PICK e \in Endpoints : e = mClients /\ e \in Conns
    BY <1>9 DEF KickClient, TypeOK
  <2>2. PICK m : m = [from |-> Service, n |-> count[Service] + 1]
    OBVIOUS
  <2>3. /\ m \in Messages /\ m.from = Service /\ m.n = count[Service] + 1
        /\ count[Service] \in Nat
    <3>1. count[Service] \in Nat
      BY DEF TypeOK
    <3> QED
      BY <2>2, <3>1 DEF Messages
  <2>4. /\ count' = [count EXCEPT ![Service] = m.n]
        /\ out' = [out EXCEPT ![e] = Append(out[e], m)]
        /\ UNCHANGED <<mPendingEnvelopes, todo, socket, building>>
    BY <1>9, <2>1, <2>2 DEF KickClient, tableVars, routerVars
  <2>5. owed'[Service] = {} /\ \A u \in Threads : owed'[u] \subseteq owed[u]
    <3>1. /\ pc[Service] = "poll" /\ pc' = [pc EXCEPT ![Service] = "drain"]
          /\ \A u \in Threads : u # Service => held'[u] = held[u]
      BY <1>9 DEF KickClient, TypeOK
    <3>2. todo'[Service] = {}
      BY <2>4, <3>1 DEF Turns
    <3>3. \A u \in Threads : u # Service => todo'[u] = todo[u] /\ held'[u] = held[u]
      BY <2>4, <3>1
    <3>4. "drain" \notin {"stash", "queue"}
      OBVIOUS
    <3>5. /\ owed'[Service] = todo'[Service]
          /\ \A u \in Threads : u # Service => owed'[u] = owed[u]
      <4>1. pc' = [pc EXCEPT ![Service] = "drain"]
        BY <3>1
      <4>2. Service \in Threads
        OBVIOUS
      <4> HIDE Places
      <4> QED
        BY <3>3, <3>4, <4>1, <4>2, OwedAfter
    <3> QED
      BY <3>2, <3>5
  <2>6. \A u \in Threads : count[u] <= count'[u]
    BY <2>3, <2>4 DEF TypeOK
  <2>7. \A i \in 1..Len(out[e]) : out[e][i].from = m.from => out[e][i].n < m.n
    <3>1. \A i \in 1..Len(out[e]) : out[e][i].n \in Nat
      BY MessageFields
    <3> QED
      BY <2>3, <3>1 DEF Sorted, AllBelow
  <2>8. socket[e] # "idle" /\ building # e
    BY <2>1 DEF Owned, Pinned, Tracked
  <2>9. m.n = count'[m.from] /\ DestOf(e) \notin owed'[m.from]
    BY <2>3, <2>4, <2>5 DEF TypeOK
  <2> QED
    BY <2>3, <2>4, <2>5, <2>6, <2>7, <2>8, <2>9, AppendSorted
<1>10. CASE Drained
  <2>1. /\ UNCHANGED todo /\ held' = [held EXCEPT ![Service] = None]
        /\ \/ pc' = [pc EXCEPT ![Service] = "join"]
           \/ pc' = [pc EXCEPT ![Service] = "poll"]
    BY <1>10 DEF Drained, Release
  <2>2. \A u \in Threads : owed'[u] \subseteq owed[u]
    <3>1. \A u \in Threads : u # Service => held'[u] = held[u]
      BY <2>1 DEF TypeOK
    <3>2. PICK to : pc' = [pc EXCEPT ![Service] = to] /\ to \notin {"stash", "queue"}
      BY <2>1
    <3>3. \A u \in Threads : u # Service => todo'[u] = todo[u] /\ held'[u] = held[u]
      BY <2>1, <3>1
    <3>4. /\ owed'[Service] = todo'[Service] /\ todo[Service] \subseteq owed[Service]
          /\ \A u \in Threads : u # Service => owed'[u] = owed[u]
      BY <3>2, <3>3, OwedAfter
    <3> QED
      BY <2>1, <3>4
  <2> QED
    BY <1>1, <1>10, <2>2 DEF Drained, tableVars, routerVars
<1>11. CASE KickNoClient
  <2>1. \A u \in Threads : owed'[u] \subseteq owed[u]
    BY <1>11 DEF KickNoClient, owed, TypeOK
  <2> QED
    BY <1>1, <1>11, <2>1 DEF KickNoClient, tableVars, routerVars, endpointVars
<1>12. CASE ClearStashedEnvelopes
  <2>1. \A u \in Threads : owed'[u] = owed[u]
    BY <1>12 DEF ClearStashedEnvelopes, owed, TypeOK
  <2>2. mPendingEnvelopes' = <<>> /\ UNCHANGED <<out, count, socket, building>>
    BY <1>12 DEF ClearStashedEnvelopes, routerVars, endpointVars
  <2>3. \A e \in Endpoints : \A i \in 1..Len(out[e]) : out[e][i].from \in Threads
    BY MessageFields
  <2> QED
    BY <2>1, <2>2, <2>3 DEF Sorted, Ordered, AllBelow, DestOf
<1>13. CASE DestroyEndpoints \/ DeleteRoutingData \/ UNCHANGED vars
  BY <1>1, <1>2, <1>13 DEF DestroyEndpoints, DeleteRoutingData, vars, tableVars, routerVars,
     endpointVars, threadVars
<1>14. ASSUME NEW d \in Dests, RouteFromService(d) PROVE Sorted'
  BY <1>5, <1>14 DEF RouteFromService
<1> QED
  BY <1>4, <1>5, <1>7, <1>8, <1>9, <1>10, <1>11, <1>12, <1>13, <1>14
  DEF Next, ReceiveEnvelope
-----------------------------------------------------------------------------
(* The inductive invariant. *)
IInv == TypeOK /\ AtWork /\ Owned /\ Listed /\ StashDelivered /\ Turns /\ Sorted

THEOREM Invariance == Spec => []IInv
<1>1. Init => IInv
  <2> SUFFICES ASSUME Init PROVE IInv
    OBVIOUS
  <2>1. TypeOK
    BY Places DEF Init, TypeOK
  <2>2. AtWork /\ Owned
    BY Places DEF Init, AtWork, Owned, Pinned, Tracked
  <2>3. Listed /\ StashDelivered
    BY DEF Init, Listed, StashDelivered
  <2>4. Turns /\ Sorted
    BY DEF Init, Turns, Sorted, Ordered, AllBelow
  <2> QED
    BY <2>1, <2>2, <2>3, <2>4 DEF IInv
<1>2. IInv /\ [Next]_vars => IInv'
  BY TypeStep, AtWorkStep, OwnedStep, ListedStep, StashStep, TurnsStep, SortedStep
  DEF IInv
<1> QED
  BY <1>1, <1>2, PTL DEF Spec

(* Every operation keeps each variable of the router in its set. *)
THEOREM TypeCorrect == Spec => []TypeOK
BY Invariance, PTL DEF IInv

(* stashEnvelope looks for the client again under the mutex that trackClient   *)
(* holds: no message stays behind in the stash of a client that is there.    *)
THEOREM StashDeliveredAlways == Spec => []StashDelivered
BY Invariance, PTL DEF IInv

(* The raw pointers of mEndpointsToDelete and the pointers of the routing      *)
(* threads are never to an endpoint whose destructor has begun.              *)
THEOREM NoDanglingAlways == Spec => []NoDangling
<1>1. IInv => NoDangling
  <2> SUFFICES ASSUME IInv PROVE NoDangling
    OBVIOUS
  <2>1. ASSUME NEW i \in 1..Len(mEndpointsToDelete)
        PROVE  life[mEndpointsToDelete[i]] = "live"
    <3>1. mEndpointsToDelete[i] \in Endpoints /\ Pinned(mEndpointsToDelete[i])
      BY DEF IInv, TypeOK, Listed
    <3> QED
      BY <3>1 DEF IInv, Owned
  <2> QED
    BY <2>1 DEF NoDangling, IInv, Owned
<1> QED
  BY <1>1, Invariance, PTL

(* What one thread routes reaches an endpoint in order and at most once.      *)
THEOREM InOrderAlways == Spec => []InOrder
<1>1. IInv => InOrder
  BY DEF IInv, Sorted, Ordered, InOrder
<1> QED
  BY <1>1, Invariance, PTL
=============================================================================
