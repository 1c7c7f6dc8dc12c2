------------------------- MODULE ClientSessionProofs -------------------------
(***************************************************************************)
(* The client of a session, for any number of connections and requests:     *)
(* one client at a time, none whose end goes unnoticed, and the meaning of   *)
(* the router's acknowledgement.                                           *)
(***************************************************************************)
EXTENDS ClientSession, TLAPS

(* The router's threads hold a connection exactly while they work on it.     *)
(* Between the filter and trackClient there is no tracked client.  The        *)
(* connection gets its endpoint in between, so that it is not one that         *)
(* kickClient still holds.                                                  *)
ClientInv ==
  /\ lpc = "poll" <=> lconn = NoOne
  /\ lpc \in {"full", "temporary", "track"} => mClients = NoOne
  /\ lpc \in {"full", "temporary"} => endpoint[lconn] = "none"
  /\ lpc = "notify" => mClients = lconn
  /\ kpc = "drain" <=> kconn # NoOne
  /\ \A c \in Conns : conn[c] \in {"idle", "pending"} => endpoint[c] = "none"
  /\ lpc # "poll" => conn[lconn] \notin {"idle", "pending"}
  /\ lpc = "track" => endpoint[lconn] # "none"
  /\ \A c \in Conns \cap {mClients, kconn} : endpoint[c] # "none"
  /\ OneClient

(* The notice of c's disconnection is on its way. *)
NoticeOf(c) ==
  \E i \in 1..Len(toService) : toService[i] = [kind |-> "disconnected", of |-> c]

(* Only an endpoint that exists is flagged, and the pointer that kickClient    *)
(* holds is to one for which the status has been queued.                     *)
KickInv ==
  /\ kpc = "drain" => status[kconn] # "none"
  /\ \A c \in Conns : recv[c] \/ send[c] \/ flagged[c] => endpoint[c] # "none"
  /\ EndIsKnown

(* The session that h created is past deleteProc's last message. *)
Gone(h) ==
  \/ op[h] = "defunct" \/ mState[h] = "Defunct"
  \/ mState[h] = "none" /\ hpc[h] = "done"

InFlight(k) == \E i \in 1..Len(toService) : toService[i].kind = k
DeleteInFlight == \E i \in 1..Len(toRouter) : toRouter[i].kind = "delete"

(* The id is created once, by h: an acknowledgement means routing data until  *)
(* deleteProc takes it back, and then the session is not Free any more.       *)
AckInv(h) ==
  /\ mSessions \in {h, NoOne}
  /\ hpc[h] \in {"idle", "destroy", "destroyJoin"} => mSessions = NoOne
  /\ hpc[h] = "idle" => mState[h] = "none"
  /\ hpc[h] = "destroyJoin" => op[h] = "none"
  /\ op[h] # "none" <=> mState[h] = "Busy"
  /\ DeleteInFlight => Gone(h)
  /\ mRouterHasRoutingData \/ InFlight("ack") => routing # NoOne \/ Gone(h)
  /\ hpc[h] \in {"arm", "thread", "start"} => mRouterHasRoutingData
-----------------------------------------------------------------------------
(* Every step keeps the types. *)
LEMMA TypeKept == TypeOK /\ [Next]_vars => TypeOK'
<1> SUFFICES ASSUME TypeOK, [Next]_vars PROVE TypeOK'
  OBVIOUS
<1> USE DEF TypeOK, Threads, serviceVars, routerVars, endpointVars
<1>m. /\ toRouter \in Seq(RouterMessages)
      /\ Append(toRouter, [kind |-> "kick"]) \in Seq(RouterMessages)
  BY DEF RouterMessages
<1>1. ASSUME NEW h \in Creators, CreateSession(h) PROVE TypeOK'
  BY <1>1 DEF CreateSession, Step
<1>2. ASSUME NEW h \in Creators, InitializeSession(h) PROVE TypeOK'
  BY <1>2 DEF InitializeSession, Step, ToRouter, RouterMessages
<1>3. ASSUME NEW h \in Creators, RoutingAcknowledged(h) PROVE TypeOK'
  BY <1>3 DEF RoutingAcknowledged, Step
<1>4. ASSUME NEW h \in Creators, RoutingTimeout(h) PROVE TypeOK'
  BY <1>4 DEF RoutingTimeout, Step
<1>5. ASSUME NEW h \in Creators, SetExpirationTime(h) PROVE TypeOK'
  BY <1>5 DEF SetExpirationTime, Step
<1>6. ASSUME NEW h \in Creators, StartExpirationThread(h) PROVE TypeOK'
  BY <1>6 DEF StartExpirationThread, Step
<1>7. ASSUME NEW h \in Creators, StartUpdate(h) PROVE TypeOK'
  BY <1>7 DEF StartUpdate, Step
<1>8. ASSUME NEW h \in Creators, StartRefused(h) PROVE TypeOK'
  BY <1>8 DEF StartRefused, Step
<1>9. ASSUME NEW h \in Creators, DestroySession(h) PROVE TypeOK'
  BY <1>9 DEF DestroySession, Step
<1>10. ASSUME NEW h \in Creators, SessionDestroyed(h) PROVE TypeOK'
  BY <1>10 DEF SessionDestroyed, Step
<1>11. ASSUME NEW h \in Changers, ModifySession(h) PROVE TypeOK'
  BY <1>11 DEF ModifySession, StartOperation, Step
<1>12. ASSUME NEW h \in Changers, DeleteSession(h) PROVE TypeOK'
  BY <1>12 DEF DeleteSession, StartOperation, Step
<1>13. ASSUME NEW s \in Creators, UpdateEnds(s) PROVE TypeOK'
  BY <1>13 DEF UpdateEnds
<1>14. ASSUME NEW s \in Creators, ShutdownSession(s) PROVE TypeOK'
  BY <1>14 DEF ShutdownSession, ToRouter, RouterMessages
<1>15. ASSUME NEW s \in Creators, ForgetRouting(s) PROVE TypeOK'
  BY <1>15 DEF ForgetRouting, ToRouter, RouterMessages
<1>16. ASSUME NEW s \in Creators, DeleteFails(s) PROVE TypeOK'
  BY <1>16 DEF DeleteFails
<1>17. ASSUME NEW s \in Creators, BecomeDefunct(s) PROVE TypeOK'
  BY <1>17 DEF BecomeDefunct
<1>18. ASSUME NEW s \in Creators, ExpirationStopped(s) PROVE TypeOK'
  BY <1>18 DEF ExpirationStopped, ExpirationEnds
<1>19. ASSUME NEW s \in Creators, Expire(s) PROVE TypeOK'
  BY <1>19 DEF Expire, ExpirationEnds
<1>20. CASE HandleAck
  BY <1>20 DEF HandleAck, Receive
<1>21. CASE HandleConnected
  <2>1. toService' \in Seq(ServiceMessages)
    BY <1>21 DEF HandleConnected, Receive
  <2>2. toRouter' = toRouter \/ toRouter' = Append(toRouter, [kind |-> "kick"])
    BY <1>21 DEF HandleConnected, ToRouter
  <2>3. toRouter' \in Seq(RouterMessages)
    BY <1>m, <2>2
  <2>4. /\ dpc' \in {"idle", "isActive", "clear", "join"}
        /\ dsession' \in Creators \cup {NoOne}
    BY <1>21 DEF HandleConnected
  <2> QED
    BY <1>21, <2>1, <2>3, <2>4 DEF HandleConnected
<1>22. CASE HandleDisconnected
  <2>1. Head(toService) \in ServiceMessages /\ Head(toService).kind = "disconnected"
    BY <1>22 DEF HandleDisconnected, Receive
  <2>2. Head(toService).of \in Conns
    BY <2>1 DEF ServiceMessages
  <2>3. reported' \in SUBSET Conns
    BY <1>22, <2>2 DEF HandleDisconnected
  <2>4. toService' \in Seq(ServiceMessages)
    BY <1>22 DEF HandleDisconnected, Receive
  <2> QED
    BY <1>22, <2>3, <2>4 DEF HandleDisconnected
<1>23. CASE CheckActive
  <2>1. toRouter' = toRouter \/ toRouter' = Append(toRouter, [kind |-> "kick"])
    BY <1>23 DEF CheckActive, ToRouter
  <2>2. toRouter' \in Seq(RouterMessages)
    BY <1>m, <2>1
  <2>3. /\ dpc' \in {"idle", "isActive", "clear", "join"}
        /\ dsession' \in Creators \cup {NoOne}
    BY <1>23 DEF CheckActive
  <2> QED
    BY <1>23, <2>2, <2>3 DEF CheckActive
<1>24. CASE StopExpiration
  BY <1>24 DEF StopExpiration
<1>25. CASE JoinExpiration
  BY <1>25 DEF JoinExpiration
<1>26. CASE BuildEndpoint
  <2>1. endpoint' \in [Conns -> {"none", "full", "temporary", "gone"}]
    BY <1>26 DEF BuildEndpoint
  <2>2. recv' \in [Conns -> BOOLEAN]
    BY <1>26 DEF BuildEndpoint
  <2>3. send' \in [Conns -> BOOLEAN]
    BY <1>26 DEF BuildEndpoint
  <2>4. lpc' = "track" /\ UNCHANGED <<serviceVars, toRouter, toService,
     routing, mClients,
                                     lconn, kpc, kconn, conn, status, flagged>>
    BY <1>26 DEF BuildEndpoint
  <2> QED
    BY <2>1, <2>2, <2>3, <2>4
<1>27. CASE BuildThrows
  BY <1>27 DEF BuildThrows, Close
<1>28. CASE TrackClient
  BY <1>28 DEF TrackClient
<1>29. CASE NotifyClientConnected
  BY <1>29 DEF NotifyClientConnected, ServiceMessages
<1>30. CASE DestroyEndpoints
  <2>1. CASE kconn # mClients
    <3>0. Destroy(mClients)
      BY <1>30, <2>1 DEF DestroyEndpoints
    <3>1. endpoint' \in [Conns -> {"none", "full", "temporary", "gone"}]
      BY <3>0 DEF Destroy
    <3>2. recv' \in [Conns -> BOOLEAN]
      BY <3>0 DEF Destroy
    <3>3. send' \in [Conns -> BOOLEAN]
      BY <3>0 DEF Destroy
    <3>4. conn' \in [Conns -> {"idle", "pending", "open", "leaving", "left",
       "closed"}]
      BY <3>0 DEF Destroy, Close
    <3>5. status' \in [Conns -> {"none", "queued", "popped"}]
      BY <3>0 DEF Destroy
    <3>6. flagged' \in [Conns -> BOOLEAN]
      BY <3>0 DEF Destroy
    <3> QED
      BY <1>30, <3>1, <3>2, <3>3, <3>4, <3>5, <3>6 DEF DestroyEndpoints
  <2>2. CASE kconn = mClients
    BY <1>30, <2>2 DEF DestroyEndpoints
  <2> QED
    BY <2>1, <2>2
<1>31. CASE PutRoutingData
  <2>1. Head(toRouter) \in RouterMessages /\ Head(toRouter).kind = "init"
    BY <1>31 DEF PutRoutingData, Pop
  <2>2. Head(toRouter).from \in Creators
    BY <2>1 DEF RouterMessages
  <2>3. routing' \in Creators \cup {NoOne}
    BY <1>31, <2>2 DEF PutRoutingData
  <2>4. toRouter' \in Seq(RouterMessages)
    BY <1>31 DEF PutRoutingData, Pop
  <2>5. toService' \in Seq(ServiceMessages)
    BY <1>31 DEF PutRoutingData, ServiceMessages
  <2> QED
    BY <1>31, <2>3, <2>4, <2>5 DEF PutRoutingData
<1>32. CASE DeleteRoutingData
  BY <1>32 DEF DeleteRoutingData, Pop
<1>33. CASE KickNoClient
  BY <1>33 DEF KickNoClient, Pop
<1>34. CASE KickClient
  BY <1>34 DEF KickClient, Pop
<1>35. CASE Drained \/ DrainTimeout
  <2>1. /\ kpc' = "pop" /\ kconn' = NoOne
        /\ UNCHANGED <<serviceVars, toRouter, toService, routing, mClients, lpc,
                       lconn>>
    BY <1>35 DEF Drained, DrainTimeout, FlagKicked
  <2>2. CASE mClients # kconn
    <3>0. Destroy(kconn)
      BY <1>35, <2>2 DEF Drained, DrainTimeout, FlagKicked
    <3>1. endpoint' \in [Conns -> {"none", "full", "temporary", "gone"}]
      BY <3>0 DEF Destroy
    <3>2. recv' \in [Conns -> BOOLEAN]
      BY <3>0 DEF Destroy
    <3>3. send' \in [Conns -> BOOLEAN]
      BY <3>0 DEF Destroy
    <3>4. conn' \in [Conns -> {"idle", "pending", "open", "leaving", "left",
       "closed"}]
      BY <3>0 DEF Destroy, Close
    <3>5. status' \in [Conns -> {"none", "queued", "popped"}]
      BY <3>0 DEF Destroy
    <3>6. flagged' \in [Conns -> BOOLEAN]
      BY <3>0 DEF Destroy
    <3> QED
      BY <2>1, <3>1, <3>2, <3>3, <3>4, <3>5, <3>6
  <2>3. CASE mClients = kconn
    <3>1. UNCHANGED <<conn, endpoint, recv, send, status>>
      BY <1>35, <2>3 DEF Drained, DrainTimeout, FlagKicked
    <3>2. flagged' \in [Conns -> BOOLEAN]
      BY <1>35, <2>3 DEF Drained, DrainTimeout, FlagKicked
    <3> QED
      BY <2>1, <3>1, <3>2
  <2> QED
    BY <2>2, <2>3
<1>36. ASSUME NEW c \in Conns, RefuseClient(c) PROVE TypeOK'
  BY <1>36 DEF RefuseClient, Close
<1>37. ASSUME NEW c \in Conns, AcceptClient(c) PROVE TypeOK'
  BY <1>37 DEF AcceptClient
<1>38. ASSUME NEW c \in Conns, Connect(c) PROVE TypeOK'
  BY <1>38 DEF Connect
<1>39. ASSUME NEW c \in Conns, Leave(c) PROVE TypeOK'
  BY <1>39 DEF Leave
<1>n. ASSUME NEW c \in Conns, NotifyClientDisconnected(c)
      PROVE  toService' \in Seq(ServiceMessages)
  BY <1>n DEF NotifyClientDisconnected, ServiceMessages
<1>40. ASSUME NEW c \in Conns, ReceiveDisconnect(c) PROVE TypeOK'
  BY <1>40, <1>n DEF ReceiveDisconnect
<1>41. ASSUME NEW c \in Conns, ReceiveFails(c) PROVE TypeOK'
  <2>1. toService' \in Seq(ServiceMessages)
    BY <1>41, <1>n DEF ReceiveFails, Disconnect
  <2> QED
    BY <1>41, <2>1 DEF ReceiveFails, Disconnect
<1>42. ASSUME NEW c \in Conns, SendStatus(c) PROVE TypeOK'
  BY <1>42 DEF SendStatus
<1>43. ASSUME NEW c \in Conns, SendFails(c) PROVE TypeOK'
  <2>1. toService' \in Seq(ServiceMessages)
    BY <1>43, <1>n DEF SendFails, Disconnect
  <2>2. status' \in [Conns -> {"none", "queued", "popped"}]
    BY <1>43 DEF SendFails
  <2>3. flagged' \in [Conns -> BOOLEAN] /\ send' \in [Conns -> BOOLEAN]
    BY <1>43 DEF SendFails, Disconnect
  <2> QED
    BY <1>43, <2>1, <2>2, <2>3 DEF SendFails
<1>44. CASE UNCHANGED vars
  BY <1>44 DEF vars
<1> QED
  BY <1>1, <1>2, <1>3, <1>4, <1>5, <1>6, <1>7, <1>8, <1>9, <1>10, <1>11, <1>12,
     <1>13, <1>14, <1>15, <1>16, <1>17, <1>18, <1>19, <1>20, <1>21, <1>22, <1>23,
     <1>24, <1>25, <1>26, <1>27, <1>28, <1>29, <1>30, <1>31, <1>32, <1>33, <1>34,
     <1>35, <1>36, <1>37, <1>38, <1>39, <1>40, <1>41, <1>42, <1>43, <1>44
     DEF Next, Create, Operation, Dispatcher, RouterThread, ServiceToRouter

LEMMA TypeInit == ASSUME Init PROVE TypeOK
<1>1. /\ mRouterHasRoutingData \in BOOLEAN
      /\ mExpirationSet \in [Creators -> BOOLEAN] /\ recv \in [Conns -> BOOLEAN]
      /\ send \in [Conns -> BOOLEAN] /\ flagged \in [Conns -> BOOLEAN]
  BY DEF Init
<1> QED
  BY <1>1 DEF Init, TypeOK, Threads

(* Every variable keeps its type: what comes out of the two queues is what    *)
(* the reader expects, and only an "init" is asked for its sender.            *)
THEOREM TypeCorrect == Spec => []TypeOK
<1>1. Init => TypeOK
  BY TypeInit
<1> QED
  BY <1>1, TypeKept, PTL DEF Spec
-----------------------------------------------------------------------------
(* Steps of the node process leave what the router keeps of clients alone.    *)
LEMMA NodeAside ==
  ASSUME \/ \E h \in Creators : CreateSession(h) \/ Create(h)
         \/ \E h \in Changers : ModifySession(h) \/ DeleteSession(h)
         \/ \E s \in Creators : Operation(s) \/ ExpirationStopped(s) \/ Expire(s)
         \/ Dispatcher
  PROVE  UNCHANGED <<routerVars, endpointVars>>
<1>1. ASSUME NEW h \in Creators, CreateSession(h) \/ Create(h)
      PROVE  UNCHANGED <<routerVars, endpointVars>>
  BY <1>1 DEF CreateSession, Create, InitializeSession, RoutingAcknowledged,
              RoutingTimeout, SetExpirationTime, StartExpirationThread, StartUpdate,
              StartRefused, DestroySession, SessionDestroyed
<1>2. ASSUME NEW h \in Changers, ModifySession(h) \/ DeleteSession(h)
      PROVE  UNCHANGED <<routerVars, endpointVars>>
  BY <1>2 DEF ModifySession, DeleteSession, StartOperation
<1>3. ASSUME NEW s \in Creators, Operation(s) \/ ExpirationStopped(s) \/ Expire(s)
      PROVE  UNCHANGED <<routerVars, endpointVars>>
  BY <1>3 DEF Operation, UpdateEnds, ShutdownSession, ForgetRouting, DeleteFails,
              BecomeDefunct, ExpirationStopped, Expire, ExpirationEnds
<1>4. CASE Dispatcher
  BY <1>4 DEF Dispatcher, HandleAck, HandleConnected, HandleDisconnected, CheckActive,
              StopExpiration, JoinExpiration
<1> QED
  BY <1>1, <1>2, <1>3, <1>4

LEMMA ClientInit == ASSUME Init PROVE ClientInv
<1>1. NoOne \notin Conns
  BY ClientConstants
<1> QED
  BY <1>1 DEF Init, ClientInv, OneClient

LEMMA ClientAside ==
  ASSUME ClientInv, UNCHANGED <<lpc, lconn, kpc, kconn, mClients, conn, endpoint>>
  PROVE  ClientInv'
BY DEF ClientInv, OneClient

LEMMA ClientKept == TypeOK /\ ClientInv /\ [Next]_vars => ClientInv'
<1> SUFFICES ASSUME TypeOK, ClientInv, [Next]_vars PROVE ClientInv'
  OBVIOUS
<1>t. /\ lconn \in Conns \cup {NoOne} /\ kconn \in Conns \cup {NoOne}
      /\ mClients \in Conns \cup {NoOne} /\ NoOne \notin Conns
      /\ lpc \in {"poll", "full", "temporary", "track", "notify"}
      /\ kpc \in {"pop", "drain"}
      /\ conn \in [Conns -> {"idle", "pending", "open", "leaving", "left", "closed"}]
      /\ endpoint \in [Conns -> {"none", "full", "temporary", "gone"}]
  BY ClientConstants DEF TypeOK
<1>1. ASSUME NEW c \in Conns, RefuseClient(c) PROVE ClientInv'
  <2>1. /\ UNCHANGED <<lpc, lconn, kpc, kconn, mClients, endpoint>>
        /\ \A d \in Conns : conn'[d] = conn[d] \/ conn'[d] = "closed"
    BY <1>1, <1>t DEF RefuseClient, Close, routerVars
  <2> QED
    BY <1>t, <2>1 DEF ClientInv, OneClient
<1>2. ASSUME NEW c \in Conns, AcceptClient(c) PROVE ClientInv'
  <2>1. /\ lpc = "poll" /\ lpc' \in {"full", "temporary"} /\ lconn' = c
        /\ mClients = NoOne /\ conn[c] = "pending"
        /\ UNCHANGED <<kpc, kconn, mClients, endpoint>>
        /\ \A d \in Conns : conn'[d] = IF d = c THEN "open" ELSE conn[d]
    BY <1>2, <1>t DEF AcceptClient
  <2> QED
    BY <1>t, <2>1 DEF ClientInv, OneClient
<1>3. CASE BuildEndpoint
  <2>1. /\ lpc \in {"full", "temporary"} /\ lpc' = "track"
        /\ UNCHANGED <<lconn, kpc, kconn, mClients, conn>>
        /\ \A d \in Conns : endpoint'[d] = IF d = lconn THEN lpc ELSE endpoint[d]
    BY <1>3, <1>t DEF BuildEndpoint
  <2> QED
    BY <1>t, <2>1 DEF ClientInv, OneClient
<1>4. CASE BuildThrows
  <2>1. /\ lpc = "full" /\ lpc' = "poll" /\ lconn' = NoOne
        /\ UNCHANGED <<kpc, kconn, mClients, endpoint>>
        /\ \A d \in Conns :
             conn'[d] = conn[d] \/ (d = lconn /\ conn'[d] = "closed")
    BY <1>4, <1>t DEF BuildThrows, Close
  <2> QED
    BY <1>t, <2>1 DEF ClientInv, OneClient
<1>5. CASE TrackClient
  BY <1>5, <1>t DEF TrackClient, endpointVars, ClientInv, OneClient
<1>6. CASE NotifyClientConnected
  BY <1>6, <1>t DEF NotifyClientConnected, endpointVars, ClientInv, OneClient
<1>7. CASE DestroyEndpoints
  <2>1. /\ lpc = "poll" /\ mClients' = NoOne /\ UNCHANGED <<lpc, lconn, kpc, kconn>>
        /\ mClients # NoOne
    BY <1>7 DEF DestroyEndpoints
  <2>2. CASE kconn = mClients
    BY <1>7, <1>t, <2>1, <2>2 DEF DestroyEndpoints, endpointVars, ClientInv, OneClient
  <2>3. CASE kconn # mClients
    <3>0. Destroy(mClients)
      BY <1>7, <2>3 DEF DestroyEndpoints
    <3>1. \A d \in Conns : endpoint'[d] = IF d = mClients THEN "gone" ELSE endpoint[d]
      BY <1>t, <3>0 DEF Destroy
    <3>2. \A d \in Conns : conn'[d] =
            IF d = mClients THEN "closed"
            ELSE conn[d]
      BY <1>t, <3>0 DEF Destroy, Close
    <3> QED
      BY <1>t, <2>1, <3>1, <3>2 DEF ClientInv, OneClient
  <2> QED
    BY <2>2, <2>3
<1>8. CASE PutRoutingData \/ DeleteRoutingData \/ KickNoClient
  BY <1>8, ClientAside
     DEF PutRoutingData, DeleteRoutingData, KickNoClient, routerVars, endpointVars
<1>9. CASE KickClient
  BY <1>9, <1>t DEF KickClient, Pop, ClientInv, OneClient
<1>10. CASE Drained \/ DrainTimeout
  <2>1. /\ kpc = "drain" /\ kpc' = "pop" /\ kconn' = NoOne
        /\ UNCHANGED <<mClients, lpc, lconn>>
    BY <1>10 DEF Drained, DrainTimeout, FlagKicked
  <2>2. CASE mClients = kconn
    <3>1. UNCHANGED <<endpoint, conn>>
      BY <1>10, <2>2 DEF Drained, DrainTimeout, FlagKicked
    <3> QED
      BY <1>t, <2>1, <2>2, <3>1 DEF ClientInv, OneClient
  <2>3. CASE mClients # kconn
    <3>0. Destroy(kconn)
      BY <1>10, <2>3 DEF Drained, DrainTimeout, FlagKicked
    <3>1. \A d \in Conns : endpoint'[d] = IF d = kconn THEN "gone" ELSE endpoint[d]
      BY <1>t, <3>0 DEF Destroy
    <3>2. \A d \in Conns : conn'[d] =
            IF d = kconn THEN "closed"
            ELSE conn[d]
      BY <1>t, <3>0 DEF Destroy, Close
    <3>3. lpc \in {"full", "temporary"} => lconn # kconn
      BY <1>t, <2>1 DEF ClientInv
    <3> QED
      BY <1>t, <2>1, <2>3, <3>1, <3>2, <3>3 DEF ClientInv, OneClient
  <2> QED
    BY <2>2, <2>3
<1>11. ASSUME NEW c \in Conns, Connect(c) PROVE ClientInv'
  <2>1. /\ UNCHANGED <<lpc, lconn, kpc, kconn, mClients, endpoint>>
        /\ conn[c] = "idle"
        /\ \A d \in Conns : conn'[d] = IF d = c THEN "pending" ELSE conn[d]
    BY <1>11, <1>t DEF Connect, routerVars
  <2> QED
    BY <1>t, <2>1 DEF ClientInv, OneClient
<1>12. ASSUME NEW c \in Conns, Leave(c) \/ ReceiveDisconnect(c) PROVE ClientInv'
  <2>1. /\ UNCHANGED <<lpc, lconn, kpc, kconn, mClients, endpoint>>
        /\ \A d \in Conns : conn'[d] \in {conn[d], "left", "leaving"}
    BY <1>12, <1>t DEF Leave, ReceiveDisconnect, routerVars
  <2> QED
    BY <1>t, <2>1 DEF ClientInv, OneClient
<1>13. ASSUME NEW c \in Conns, ReceiveFails(c) \/ SendStatus(c) \/ SendFails(c)
       PROVE  ClientInv'
  BY <1>13, ClientAside DEF ReceiveFails, SendStatus, SendFails, routerVars
<1>14. ASSUME UNCHANGED <<routerVars, endpointVars>> PROVE ClientInv'
  BY <1>14, ClientAside DEF routerVars, endpointVars
<1>15. CASE UNCHANGED vars
  BY <1>14, <1>15 DEF vars
<1> QED
  BY <1>1, <1>2, <1>3, <1>4, <1>5, <1>6, <1>7, <1>8, <1>9, <1>10, <1>11, <1>12,
     <1>13, <1>14, <1>15, NodeAside DEF Next, RouterThread, ServiceToRouter

(* A session has one client, whoever connects, leaves or is kicked meanwhile: *)
(* the filter, the constructor, trackClient, destroyEndpoints and kickClient  *)
(* never lose an endpoint that is alive.                                     *)
THEOREM AlwaysOneClient == Spec => []OneClient
<1>1. Init => TypeOK /\ ClientInv
  BY TypeInit, ClientInit
<1>2. ClientInv => OneClient
  BY DEF ClientInv
<1> QED
  BY <1>1, <1>2, TypeKept, ClientKept, PTL DEF Spec
-----------------------------------------------------------------------------
(* A notice stays on its way until it is handled, and whatever is sent comes   *)
(* after it.                                                               *)
LEMMA NoticeStays ==
  ASSUME NEW c, NEW n, toService \in Seq(ServiceMessages),
         toService' = Append(toService, n)
  PROVE  /\ NoticeOf(c) => NoticeOf(c)'
         /\ n = [kind |-> "disconnected", of |-> c] => NoticeOf(c)'
<1>1. /\ Len(toService') = Len(toService) + 1 /\ Len(toService) \in Nat
      /\ \A i \in 1..Len(toService) : toService'[i] = toService[i]
      /\ toService'[Len(toService) + 1] = n
  OBVIOUS
<1> QED
  BY <1>1 DEF NoticeOf

LEMMA NoticeTaken ==
  ASSUME NEW c, toService \in Seq(ServiceMessages), toService # <<>>,
         toService' = Tail(toService), NoticeOf(c)
  PROVE  \/ Head(toService) = [kind |-> "disconnected", of |-> c]
         \/ NoticeOf(c)'
<1>1. /\ Len(toService') = Len(toService) - 1 /\ Len(toService) \in Nat \ {0}
      /\ \A i \in 1..Len(toService') : toService'[i] = toService[i + 1]
      /\ Head(toService) = toService[1]
  OBVIOUS
<1>2. PICK i \in 1..Len(toService) : toService[i] = [kind |-> "disconnected", of |-> c]
  BY DEF NoticeOf
<1>3. CASE i = 1
  BY <1>1, <1>2, <1>3
<1>4. CASE i # 1
  <2>1. i - 1 \in 1..Len(toService') /\ toService'[i - 1] = toService[i]
    BY <1>1, <1>4
  <2> QED
    BY <1>2, <2>1 DEF NoticeOf
<1> QED
  BY <1>3, <1>4

(* Nobody forgets a notice. *)
LEMMA NoticeKept ==
  ASSUME TypeOK, [Next]_vars, NEW c \in Conns, NoticeOf(c) \/ c \in reported
  PROVE  NoticeOf(c)' \/ c \in reported'
<1>t. toService \in Seq(ServiceMessages)
  BY DEF TypeOK
<1>1. ASSUME toService' = toService, reported' = reported
      PROVE  NoticeOf(c)' \/ c \in reported'
  BY <1>1 DEF NoticeOf
<1>2. ASSUME NEW n, toService' = Append(toService, n), reported' = reported
      PROVE  NoticeOf(c)' \/ c \in reported'
  BY <1>2, <1>t, NoticeStays
<1>3. ASSUME NEW k, Receive(k), k # "disconnected", reported' = reported
      PROVE  NoticeOf(c)' \/ c \in reported'
  <2>1. toService # <<>> /\ toService' = Tail(toService) /\ Head(toService).kind = k
    BY <1>3 DEF Receive
  <2>2. Head(toService) # [kind |-> "disconnected", of |-> c]
    BY <1>3, <2>1
  <2> QED
    BY <1>3, <1>t, <2>1, <2>2, NoticeTaken
<1>4. CASE HandleDisconnected
  <2>1. /\ toService # <<>> /\ toService' = Tail(toService)
        /\ reported' = reported \cup {Head(toService).of}
    BY <1>4 DEF HandleDisconnected, Receive
  <2>2. Head(toService) = [kind |-> "disconnected", of |-> c] => c \in reported'
    BY <2>1
  <2> QED
    BY <1>t, <2>1, <2>2, NoticeTaken
<1>5. CASE HandleAck \/ HandleConnected
  <2>1. reported' = reported /\ (Receive("ack") \/ Receive("connected"))
    BY <1>5 DEF HandleAck, HandleConnected
  <2> QED
    BY <1>3, <2>1
<1>6. CASE CheckActive \/ StopExpiration \/ JoinExpiration
  BY <1>1, <1>6 DEF CheckActive, StopExpiration, JoinExpiration
<1>7. ASSUME NEW h \in Creators, CreateSession(h) \/ Create(h)
      PROVE  NoticeOf(c)' \/ c \in reported'
  BY <1>1, <1>7 DEF CreateSession, Create, InitializeSession, RoutingAcknowledged,
              RoutingTimeout, SetExpirationTime, StartExpirationThread, StartUpdate,
              StartRefused, DestroySession, SessionDestroyed
<1>8. ASSUME NEW h \in Changers, ModifySession(h) \/ DeleteSession(h)
      PROVE  NoticeOf(c)' \/ c \in reported'
  BY <1>1, <1>8 DEF ModifySession, DeleteSession, StartOperation
<1>9. ASSUME NEW s \in Creators, Operation(s) \/ ExpirationStopped(s) \/ Expire(s)
      PROVE  NoticeOf(c)' \/ c \in reported'
  BY <1>1, <1>9 DEF Operation, UpdateEnds, ShutdownSession, ForgetRouting, DeleteFails,
              BecomeDefunct, ExpirationStopped, Expire, ExpirationEnds
<1>10. CASE \/ BuildEndpoint \/ BuildThrows \/ TrackClient \/ DestroyEndpoints
            \/ DeleteRoutingData \/ KickNoClient \/ KickClient
            \/ Drained \/ DrainTimeout \/ UNCHANGED vars
  BY <1>1, <1>10 DEF BuildEndpoint, BuildThrows, TrackClient, DestroyEndpoints,
                     DeleteRoutingData, KickNoClient, KickClient, Drained,
                     DrainTimeout, FlagKicked, serviceVars, vars
<1>11. CASE NotifyClientConnected \/ PutRoutingData
  <2>1. /\ \/ toService' = Append(toService, [kind |-> "connected"])
           \/ toService' = Append(toService, [kind |-> "ack"])
        /\ reported' = reported
    BY <1>11 DEF NotifyClientConnected, PutRoutingData, serviceVars
  <2> QED
    BY <1>2, <2>1
<1>12. ASSUME NEW d \in Conns,
              \/ RefuseClient(d) \/ AcceptClient(d) \/ Connect(d) \/ Leave(d)
              \/ SendStatus(d)
       PROVE  NoticeOf(c)' \/ c \in reported'
  BY <1>1, <1>12 DEF RefuseClient, AcceptClient, Connect, Leave, SendStatus,
                     serviceVars
<1>13. ASSUME NEW d \in Conns, ReceiveDisconnect(d) \/ ReceiveFails(d) \/ SendFails(d)
       PROVE  NoticeOf(c)' \/ c \in reported'
  <2>1. /\ \/ toService' = Append(toService, [kind |-> "disconnected", of |-> d])
           \/ toService' = toService
        /\ reported' = reported
    BY <1>13 DEF ReceiveDisconnect, ReceiveFails, SendFails, Disconnect,
                 NotifyClientDisconnected, serviceVars
  <2> QED
    BY <1>1, <1>2, <2>1
<1> QED
  BY <1>4, <1>5, <1>6, <1>7, <1>8, <1>9, <1>10, <1>11, <1>12, <1>13
     DEF Next, Dispatcher, RouterThread, ServiceToRouter

(* A disconnect of a full endpoint puts the notice on its way. *)
LEMMA NoticeSent ==
  ASSUME TypeOK, NEW c \in Conns, NotifyClientDisconnected(c), endpoint[c] = "full"
  PROVE  NoticeOf(c)'
<1>1. toService' = Append(toService, [kind |-> "disconnected", of |-> c])
  BY DEF NotifyClientDisconnected
<1> QED
  BY <1>1, NoticeStays DEF TypeOK

LEMMA KickKept == TypeOK /\ ClientInv /\ KickInv /\ [Next]_vars => KickInv'
<1> SUFFICES ASSUME TypeOK, ClientInv, KickInv, [Next]_vars PROVE KickInv'
  OBVIOUS
<1> DEFINE Noticed(c) == NoticeOf(c) \/ c \in reported
<1>t. /\ kconn \in Conns \cup {NoOne} /\ mClients \in Conns \cup {NoOne}
      /\ NoOne \notin Conns /\ lconn \in Conns \cup {NoOne}
      /\ endpoint \in [Conns -> {"none", "full", "temporary", "gone"}]
      /\ status \in [Conns -> {"none", "queued", "popped"}]
      /\ flagged \in [Conns -> BOOLEAN]
      /\ recv \in [Conns -> BOOLEAN] /\ send \in [Conns -> BOOLEAN]
      /\ kpc = "drain" <=> kconn # NoOne
      /\ \A c \in Conns \cap {mClients, kconn} : endpoint[c] # "none"
  BY ClientConstants DEF TypeOK, ClientInv
<1>n. \A c \in Conns : Noticed(c) => Noticed(c)'
  BY NoticeKept
<1>k. /\ kpc = "drain" => status[kconn] # "none"
      /\ \A c \in Conns : recv[c] \/ send[c] \/ flagged[c] => endpoint[c] # "none"
      /\ \A c \in Conns : endpoint[c] = "full" /\ flagged[c] =>
                            status[c] # "none" \/ Noticed(c)
  BY DEF KickInv, EndIsKnown, NoticeOf
<1>p. ASSUME (kpc = "drain" => status[kconn] # "none")',
             \A c \in Conns : (recv[c] \/ send[c] \/ flagged[c] => endpoint[c] # "none")',
             \A c \in Conns : (endpoint[c] = "full" /\ flagged[c])' =>
                               (status'[c] # "none" \/ Noticed(c)')
      PROVE  KickInv'
  BY <1>p DEF KickInv, EndIsKnown, NoticeOf
<1> HIDE DEF Noticed
<1>1. ASSUME UNCHANGED <<kpc, kconn, endpoint, recv, send, status, flagged>>
      PROVE  KickInv'
  <2>1. /\ (kpc = "drain" => status[kconn] # "none")'
        /\ \A c \in Conns : (recv[c] \/ send[c] \/ flagged[c] => endpoint[c] # "none")'
        /\ \A c \in Conns : (endpoint[c] = "full" /\ flagged[c])' =>
                               (status'[c] # "none" \/ Noticed(c)')
    BY <1>1, <1>k, <1>n
  <2> QED
    BY <1>p, <2>1
<1>2. ASSUME NEW c \in Conns,
             \/ RefuseClient(c) \/ AcceptClient(c) \/ Connect(c) \/ Leave(c)
             \/ ReceiveDisconnect(c)
      PROVE  KickInv'
  BY <1>1, <1>2 DEF RefuseClient, AcceptClient, Connect, Leave, ReceiveDisconnect,
                    routerVars
<1>3. CASE \/ BuildThrows \/ TrackClient \/ NotifyClientConnected
           \/ PutRoutingData \/ DeleteRoutingData \/ KickNoClient
  BY <1>1, <1>3 DEF BuildThrows, TrackClient, NotifyClientConnected, PutRoutingData,
                    DeleteRoutingData, KickNoClient, routerVars, endpointVars
<1>4. CASE BuildEndpoint
  <2>1. /\ UNCHANGED <<kpc, kconn, status, flagged>> /\ lconn \in Conns
        /\ endpoint[lconn] = "none" /\ lpc \in {"full", "temporary"}
    BY <1>4, <1>t DEF BuildEndpoint, ClientInv
  <2>2. \A d \in Conns : /\ endpoint'[d] = IF d = lconn THEN lpc ELSE endpoint[d]
                         /\ d # lconn => recv'[d] = recv[d] /\ send'[d] = send[d]
    BY <1>4, <1>t DEF BuildEndpoint
  <2>3. ~flagged[lconn]
    BY <1>k, <2>1
  <2>4. \A d \in Conns : (recv[d] \/ send[d] \/ flagged[d] => endpoint[d] # "none")'
    BY <1>k, <2>1, <2>2
  <2>5. \A d \in Conns : (endpoint[d] = "full" /\ flagged[d])' =>
                            (status'[d] # "none" \/ Noticed(d)')
    BY <1>k, <1>n, <2>1, <2>2, <2>3
  <2>6. (kpc = "drain" => status[kconn] # "none")'
    BY <1>k, <2>1
  <2> QED
    BY <1>p, <2>4, <2>5, <2>6
<1>d. ASSUME NEW c \in Conns, Destroy(c), kpc' = "drain" => kpc = "drain" /\ kconn # c,
             kconn' \in {kconn, NoOne}, kpc' = "drain" => kconn' = kconn
      PROVE  KickInv'
  <2>1. \A d \in Conns :
          /\ endpoint'[d] = IF d = c THEN "gone" ELSE endpoint[d]
          /\ recv'[d] = IF d = c THEN FALSE ELSE recv[d]
          /\ send'[d] = IF d = c THEN FALSE ELSE send[d]
          /\ status'[d] = IF d = c THEN "none" ELSE status[d]
          /\ flagged'[d] = IF d = c THEN FALSE ELSE flagged[d]
    BY <1>d, <1>t DEF Destroy
  <2>2. (kpc = "drain" => status[kconn] # "none")'
    BY <1>d, <1>k, <1>t, <2>1
  <2>3. \A d \in Conns : (recv[d] \/ send[d] \/ flagged[d] => endpoint[d] # "none")'
    BY <1>k, <2>1
  <2>4. \A d \in Conns : (endpoint[d] = "full" /\ flagged[d])' =>
                            (status'[d] # "none" \/ Noticed(d)')
    BY <1>k, <1>n, <2>1
  <2> QED
    BY <1>p, <2>2, <2>3, <2>4
<1>5. CASE DestroyEndpoints
  <2>1. /\ UNCHANGED <<kpc, kconn>> /\ mClients \in Conns
        /\ IF kconn = mClients THEN UNCHANGED endpointVars ELSE Destroy(mClients)
    BY <1>5, <1>t DEF DestroyEndpoints
  <2>2. CASE kconn = mClients
    BY <1>1, <2>1, <2>2 DEF endpointVars
  <2>3. CASE kconn # mClients
    BY <1>d, <2>1, <2>3
  <2> QED
    BY <2>2, <2>3
<1>6. CASE KickClient
  <2>1. /\ mClients \in Conns /\ kconn' = mClients
        /\ UNCHANGED <<endpoint, recv, send, flagged>>
        /\ \A d \in Conns : status'[d] = IF d = mClients THEN "queued" ELSE status[d]
    BY <1>6, <1>t DEF KickClient
  <2>2. (kpc = "drain" => status[kconn] # "none")'
    BY <2>1
  <2>3. \A d \in Conns : (recv[d] \/ send[d] \/ flagged[d] => endpoint[d] # "none")'
    BY <1>k, <2>1
  <2>4. \A d \in Conns : (endpoint[d] = "full" /\ flagged[d])' =>
                            (status'[d] # "none" \/ Noticed(d)')
    BY <1>k, <1>n, <2>1
  <2> QED
    BY <1>p, <2>2, <2>3, <2>4
<1>7. CASE Drained \/ DrainTimeout
  <2>1. /\ kpc = "drain" /\ kpc' = "pop" /\ kconn' = NoOne /\ kconn \in Conns
        /\ IF mClients = kconn
           THEN /\ flagged' = [flagged EXCEPT ![kconn] = TRUE]
                /\ UNCHANGED <<conn, endpoint, recv, send, status>>
           ELSE Destroy(kconn)
    BY <1>7, <1>t DEF Drained, DrainTimeout, FlagKicked
  <2>2. CASE mClients = kconn
    <3>1. /\ UNCHANGED <<endpoint, recv, send, status>>
          /\ \A d \in Conns : flagged'[d] => flagged[d] \/ d = kconn
      BY <1>t, <2>1, <2>2
    <3>2. \A d \in Conns : (recv[d] \/ send[d] \/ flagged[d] => endpoint[d] # "none")'
      BY <1>k, <1>t, <2>1, <3>1
    <3>3. \A d \in Conns : (endpoint[d] = "full" /\ flagged[d])' =>
                              (status'[d] # "none" \/ Noticed(d)')
      BY <1>k, <1>n, <2>1, <3>1
    <3>4. (kpc = "drain" => status[kconn] # "none")'
      BY <2>1
    <3> QED
      BY <1>p, <3>2, <3>3, <3>4
  <2>3. CASE mClients # kconn
    BY <1>d, <2>1, <2>3
  <2> QED
    BY <2>2, <2>3
<1>8. ASSUME NEW c \in Conns, SendStatus(c) PROVE KickInv'
  <2>1. /\ UNCHANGED <<kpc, kconn, endpoint, recv, send, flagged>>
        /\ \A d \in Conns : status'[d] = IF d = c THEN "popped" ELSE status[d]
    BY <1>8, <1>t DEF SendStatus, routerVars
  <2>2. (kpc = "drain" => status[kconn] # "none")'
    BY <1>k, <1>t, <2>1
  <2>3. \A d \in Conns : (recv[d] \/ send[d] \/ flagged[d] => endpoint[d] # "none")'
    BY <1>k, <2>1
  <2>4. \A d \in Conns : (endpoint[d] = "full" /\ flagged[d])' =>
                            (status'[d] # "none" \/ Noticed(d)')
    BY <1>k, <1>n, <2>1
  <2> QED
    BY <1>p, <2>2, <2>3, <2>4
<1>9. ASSUME NEW c \in Conns, ReceiveFails(c) \/ SendFails(c) PROVE KickInv'
  <2>1. /\ UNCHANGED <<kpc, kconn, endpoint>> /\ (recv[c] \/ send[c])
        /\ NotifyClientDisconnected(c)
    BY <1>9 DEF ReceiveFails, SendFails, Disconnect, routerVars
  <2>2. \A d \in Conns : /\ flagged'[d] => flagged[d] \/ d = c
                         /\ recv'[d] => recv[d]
                         /\ send'[d] => send[d]
    BY <1>9, <1>t DEF ReceiveFails, SendFails, Disconnect
  <2>3. \A d \in Conns : status'[d] # "none" <=> status[d] # "none"
    BY <1>9, <1>t DEF ReceiveFails, SendFails
  <2>4. endpoint[c] = "full" => Noticed(c)'
    BY <2>1, NoticeSent DEF Noticed
  <2>5. (kpc = "drain" => status[kconn] # "none")'
    BY <1>k, <1>t, <2>1, <2>3
  <2>6. \A d \in Conns : (recv[d] \/ send[d] \/ flagged[d] => endpoint[d] # "none")'
    BY <1>k, <2>1, <2>2
  <2>7. \A d \in Conns : (endpoint[d] = "full" /\ flagged[d])' =>
                            (status'[d] # "none" \/ Noticed(d)')
    BY <1>k, <1>n, <2>1, <2>2, <2>3, <2>4
  <2> QED
    BY <1>p, <2>5, <2>6, <2>7
<1>10. ASSUME UNCHANGED <<routerVars, endpointVars>> PROVE KickInv'
  BY <1>1, <1>10 DEF routerVars, endpointVars
<1>11. CASE UNCHANGED vars
  BY <1>10, <1>11 DEF vars
<1> QED
  BY <1>2, <1>3, <1>4, <1>5, <1>6, <1>7, <1>8, <1>9, <1>10, <1>11,
     NodeAside DEF Next, RouterThread, ServiceToRouter

(* However a kick races the two threads of the endpoint, its timeout and the   *)
(* destruction list, and whether a connection fails with its client there or   *)
(* not, the end of an accepted client is never without a SessionStatus for it   *)
(* or a disconnection event about it.                                       *)
THEOREM EndAlwaysKnown == Spec => []EndIsKnown
<1>1. Init => TypeOK /\ ClientInv /\ KickInv
  BY TypeInit, ClientInit DEF Init, KickInv, EndIsKnown
<1>2. KickInv => EndIsKnown
  BY DEF KickInv
<1> QED
  BY <1>1, <1>2, TypeKept, ClientKept, KickKept, PTL DEF Spec
-----------------------------------------------------------------------------
(* Steps of the router and of the clients that send the node nothing but       *)
(* notices about clients.                                                   *)
LEMMA AckAside ==
  ASSUME NEW h, AckInv(h),
         UNCHANGED <<mSessions, hpc, mState, op, mRouterHasRoutingData, routing>>,
         DeleteInFlight' => DeleteInFlight, InFlight("ack")' => InFlight("ack")
  PROVE  AckInv(h)'
BY DEF AckInv, Gone

(* A message that is appended is the only new one, and taking one off adds     *)
(* none.                                                                   *)
LEMMA Appended ==
  ASSUME NEW k, NEW n, toService \in Seq(ServiceMessages),
         toService' = Append(toService, n)
  PROVE  InFlight(k)' => InFlight(k) \/ k = n.kind
<1>1. /\ Len(toService') = Len(toService) + 1 /\ Len(toService) \in Nat
      /\ \A i \in 1..Len(toService) : toService'[i] = toService[i]
      /\ toService'[Len(toService) + 1] = n
  OBVIOUS
<1> QED
  BY <1>1 DEF InFlight

LEMMA Taken ==
  ASSUME NEW k, toService \in Seq(ServiceMessages), toService # <<>>,
         toService' = Tail(toService)
  PROVE  InFlight(k)' => InFlight(k)
<1>1. /\ Len(toService') = Len(toService) - 1 /\ Len(toService) \in Nat
      /\ \A i \in 1..Len(toService') : toService'[i] = toService[i + 1]
  OBVIOUS
<1> QED
  BY <1>1 DEF InFlight

LEMMA SentToRouter ==
  ASSUME NEW n, toRouter \in Seq(RouterMessages), ToRouter(n)
  PROVE  DeleteInFlight' => DeleteInFlight \/ n.kind = "delete"
<1>1. /\ Len(toRouter') = Len(toRouter) + 1 /\ Len(toRouter) \in Nat
      /\ \A i \in 1..Len(toRouter) : toRouter'[i] = toRouter[i]
      /\ toRouter'[Len(toRouter) + 1] = n
  BY DEF ToRouter
<1> QED
  BY <1>1 DEF DeleteInFlight

LEMMA Popped ==
  ASSUME NEW k, toRouter \in Seq(RouterMessages), Pop(k)
  PROVE  /\ DeleteInFlight' => DeleteInFlight
         /\ k = "delete" => DeleteInFlight
<1>1. /\ Len(toRouter') = Len(toRouter) - 1 /\ Len(toRouter) \in Nat \ {0}
      /\ \A i \in 1..Len(toRouter') : toRouter'[i] = toRouter[i + 1]
      /\ toRouter[1].kind = k
  BY DEF Pop
<1> QED
  BY <1>1 DEF DeleteInFlight

LEMMA AckKept ==
  ASSUME NEW h, Creators = {h}, TypeOK, AckInv(h), [Next]_vars PROVE AckInv(h)'
<1>t. /\ hpc \in [Threads -> {"idle", "init", "await", "arm", "thread", "start",
                              "destroy", "destroyJoin", "done"}]
      /\ h \in Threads /\ mState \in [Creators -> {"none", "Free", "Busy", "Defunct"}]
      /\ op \in [Creators -> {"none", "update", "stop", "forget", "defunct"}]
      /\ toRouter \in Seq(RouterMessages) /\ toService \in Seq(ServiceMessages)
      /\ h # NoOne /\ \A g \in Changers : g # h
  BY ClientConstants DEF TypeOK, Threads
<1>1. CASE CreateSession(h)
  <2>1. /\ hpc[h] = "idle" /\ hpc'[h] = "init" /\ mSessions' = h /\ mState'[h] = "Free"
        /\ UNCHANGED <<op, mRouterHasRoutingData, toRouter, toService, routing>>
    BY <1>1, <1>t DEF CreateSession, Step, routerVars
  <2>2. ~Gone(h) /\ ~DeleteInFlight
    BY <2>1 DEF AckInv, Gone
  <2> QED
    BY <2>1, <2>2 DEF AckInv, Gone, DeleteInFlight, InFlight
<1>2. CASE InitializeSession(h)
  <2>1. /\ hpc[h] = "init" /\ hpc'[h] = "await"
        /\ UNCHANGED <<mSessions, mState, op, mRouterHasRoutingData, toService, routing>>
    BY <1>2, <1>t DEF InitializeSession, Step, routerVars
  <2>2. DeleteInFlight' => DeleteInFlight
    BY <1>2, <1>t, SentToRouter DEF InitializeSession
  <2> QED
    BY <2>1, <2>2 DEF AckInv, Gone, InFlight
<1>3. CASE RoutingAcknowledged(h)
  <2>1. /\ hpc[h] = "await" /\ hpc'[h] = "arm" /\ mRouterHasRoutingData
        /\ UNCHANGED <<mSessions, mState, op, mRouterHasRoutingData, toRouter, toService,
                       routing>>
    BY <1>3, <1>t DEF RoutingAcknowledged, Step, routerVars
  <2> QED
    BY <2>1 DEF AckInv, Gone, DeleteInFlight, InFlight
<1>4. CASE RoutingTimeout(h) \/ StartRefused(h)
  <2>1. /\ hpc[h] \in {"await", "start"} /\ hpc'[h] = "destroy" /\ mSessions' = NoOne
        /\ UNCHANGED <<mState, op, mRouterHasRoutingData, toRouter, toService, routing>>
    BY <1>4, <1>t DEF RoutingTimeout, StartRefused, Step, routerVars
  <2> QED
    BY <2>1 DEF AckInv, Gone, DeleteInFlight, InFlight
<1>5. CASE SetExpirationTime(h) \/ StartExpirationThread(h)
  <2>1. /\ hpc[h] \in {"arm", "thread"} /\ hpc'[h] \in {"thread", "start"}
        /\ UNCHANGED <<mSessions, mState, op, mRouterHasRoutingData, toRouter, toService,
                       routing>>
    BY <1>5, <1>t DEF SetExpirationTime, StartExpirationThread, Step, routerVars
  <2> QED
    BY <2>1 DEF AckInv, Gone, DeleteInFlight, InFlight
<1>6. CASE StartUpdate(h)
  <2>1. /\ hpc[h] = "start" /\ hpc'[h] = "done" /\ mState[h] = "Free"
        /\ mState'[h] = "Busy" /\ op'[h] = "update"
        /\ UNCHANGED <<mSessions, mRouterHasRoutingData, toRouter, toService, routing>>
    BY <1>6, <1>t DEF StartUpdate, Step, routerVars
  <2>2. ~Gone(h)
    BY <2>1 DEF AckInv, Gone
  <2> QED
    BY <2>1, <2>2 DEF AckInv, Gone, DeleteInFlight, InFlight
<1>7. CASE DestroySession(h)
  <2>1. /\ hpc[h] = "destroy" /\ hpc'[h] = "destroyJoin" /\ op[h] = "none"
        /\ UNCHANGED <<mSessions, mState, op, mRouterHasRoutingData, toRouter, toService,
                       routing>>
    BY <1>7, <1>t DEF DestroySession, Step, routerVars
  <2> QED
    BY <2>1 DEF AckInv, Gone, DeleteInFlight, InFlight
<1>8. CASE SessionDestroyed(h)
  <2>1. /\ hpc[h] = "destroyJoin" /\ hpc'[h] = "done" /\ mState'[h] = "none"
        /\ UNCHANGED <<mSessions, op, mRouterHasRoutingData, toRouter, toService, routing>>
    BY <1>8, <1>t DEF SessionDestroyed, Step, routerVars
  <2> QED
    BY <2>1 DEF AckInv, Gone, DeleteInFlight, InFlight
<1>9. ASSUME NEW g \in Changers, ModifySession(g) \/ DeleteSession(g) PROVE AckInv(h)'
  <2>1. /\ mSessions = h /\ mState[h] = "Free" /\ mState'[h] = "Busy"
        /\ op'[h] \in {"update", "stop"} /\ hpc'[h] = hpc[h]
        /\ UNCHANGED <<mSessions, mRouterHasRoutingData, toRouter, toService, routing>>
    BY <1>9, <1>t DEF ModifySession, DeleteSession, StartOperation, Step, routerVars, AckInv
  <2>2. ~Gone(h)
    BY <2>1 DEF AckInv, Gone
  <2> QED
    BY <1>t, <2>1, <2>2 DEF AckInv, Gone, DeleteInFlight, InFlight
<1>10. CASE UpdateEnds(h)
  <2>1. /\ op[h] = "update" /\ op'[h] = "none" /\ mState'[h] = "Free"
        /\ UNCHANGED <<mSessions, hpc, mRouterHasRoutingData, toRouter, toService, routing>>
    BY <1>10, <1>t DEF UpdateEnds, routerVars
  <2>2. ~Gone(h)
    BY <2>1 DEF AckInv, Gone
  <2> QED
    BY <2>1, <2>2 DEF AckInv, Gone, DeleteInFlight, InFlight
<1>11. CASE ShutdownSession(h)
  <2>1. /\ op[h] = "stop" /\ op'[h] = "forget"
        /\ UNCHANGED <<mSessions, hpc, mState, mRouterHasRoutingData, toService, routing>>
    BY <1>11, <1>t DEF ShutdownSession, routerVars
  <2>2. DeleteInFlight' => DeleteInFlight
    BY <1>11, <1>t, SentToRouter DEF ShutdownSession
  <2> QED
    BY <2>1, <2>2 DEF AckInv, Gone, InFlight
<1>12. CASE ForgetRouting(h) \/ DeleteFails(h)
  <2>1. /\ op[h] \in {"forget", "stop"} /\ op'[h] = "defunct"
        /\ UNCHANGED <<mSessions, hpc, mState, mRouterHasRoutingData, toService, routing>>
    BY <1>12, <1>t DEF ForgetRouting, DeleteFails, routerVars
  <2> QED
    BY <2>1 DEF AckInv, Gone, InFlight
<1>13. CASE BecomeDefunct(h)
  <2>1. /\ op[h] = "defunct" /\ op'[h] = "none" /\ mState'[h] = "Defunct"
        /\ UNCHANGED <<mSessions, hpc, mRouterHasRoutingData, toRouter, toService, routing>>
    BY <1>13, <1>t DEF BecomeDefunct, routerVars
  <2> QED
    BY <2>1 DEF AckInv, Gone, DeleteInFlight, InFlight
<1>14. CASE ExpirationStopped(h) \/ Expire(h)
  <2>1. /\ UNCHANGED <<mSessions, hpc, mState, op, mRouterHasRoutingData, routing>>
        /\ UNCHANGED <<toRouter, toService>>
    BY <1>14 DEF ExpirationStopped, Expire, ExpirationEnds, routerVars
  <2> QED
    BY <2>1, AckAside DEF DeleteInFlight, InFlight
<1>15. CASE HandleAck
  <2>1. /\ mRouterHasRoutingData' /\ InFlight("ack")
        /\ UNCHANGED <<mSessions, hpc, mState, op, toRouter, routing>>
    BY <1>15, <1>t DEF HandleAck, Receive, routerVars, InFlight
  <2> QED
    BY <2>1 DEF AckInv, Gone, DeleteInFlight
<1>16. CASE HandleConnected
  <2>1. UNCHANGED <<mSessions, hpc, mState, op, mRouterHasRoutingData, routing>>
    BY <1>16 DEF HandleConnected, routerVars
  <2>2. InFlight("ack")' => InFlight("ack")
    BY <1>16, <1>t, Taken DEF HandleConnected, Receive
  <2>3. ToRouter([kind |-> "kick"]) \/ UNCHANGED toRouter
    BY <1>16 DEF HandleConnected
  <2>4. DeleteInFlight' => DeleteInFlight
    BY <1>t, <2>3, SentToRouter DEF DeleteInFlight
  <2> QED
    BY <2>1, <2>2, <2>4, AckAside
<1>17. CASE HandleDisconnected
  <2>1. UNCHANGED <<mSessions, hpc, mState, op, mRouterHasRoutingData, toRouter, routing>>
    BY <1>17 DEF HandleDisconnected, routerVars
  <2>2. InFlight("ack")' => InFlight("ack")
    BY <1>17, <1>t, Taken DEF HandleDisconnected, Receive
  <2> QED
    BY <2>1, <2>2, AckAside DEF DeleteInFlight
<1>18. CASE CheckActive
  <2>1. UNCHANGED <<mSessions, hpc, mState, op, mRouterHasRoutingData, toService, routing>>
    BY <1>18 DEF CheckActive, routerVars
  <2>2. ToRouter([kind |-> "kick"]) \/ UNCHANGED toRouter
    BY <1>18 DEF CheckActive
  <2>3. DeleteInFlight' => DeleteInFlight
    BY <1>t, <2>2, SentToRouter DEF DeleteInFlight
  <2> QED
    BY <2>1, <2>3, AckAside DEF InFlight
<1>19. CASE StopExpiration \/ JoinExpiration
  <2>1. /\ UNCHANGED <<mSessions, hpc, mState, op, mRouterHasRoutingData, routing>>
        /\ UNCHANGED <<toRouter, toService>>
    BY <1>19 DEF StopExpiration, JoinExpiration, routerVars
  <2> QED
    BY <2>1, AckAside DEF DeleteInFlight, InFlight
<1>20. CASE \/ BuildEndpoint \/ BuildThrows \/ TrackClient \/ DestroyEndpoints
            \/ Drained \/ DrainTimeout \/ UNCHANGED vars
  <2>1. /\ UNCHANGED <<mSessions, hpc, mState, op, mRouterHasRoutingData, routing>>
        /\ UNCHANGED <<toRouter, toService>>
    BY <1>20 DEF BuildEndpoint, BuildThrows, TrackClient, DestroyEndpoints, Drained,
                 DrainTimeout, FlagKicked, vars, serviceVars, routerVars
  <2> QED
    BY <2>1, AckAside DEF DeleteInFlight, InFlight
<1>21. CASE NotifyClientConnected
  <2>1. UNCHANGED <<mSessions, hpc, mState, op, mRouterHasRoutingData, toRouter, routing>>
    BY <1>21 DEF NotifyClientConnected, serviceVars
  <2>2. InFlight("ack")' => InFlight("ack")
    BY <1>21, <1>t, Appended DEF NotifyClientConnected
  <2> QED
    BY <2>1, <2>2, AckAside DEF DeleteInFlight
<1>22. CASE PutRoutingData
  <2>1. /\ UNCHANGED <<mSessions, hpc, mState, op, mRouterHasRoutingData>> /\ Pop("init")
        /\ routing' = IF routing = NoOne THEN Head(toRouter).from ELSE routing
    BY <1>22 DEF PutRoutingData, serviceVars
  <2>2. Head(toRouter) \in RouterMessages /\ Head(toRouter).kind = "init"
    BY <1>t, <2>1 DEF Pop
  <2>3. Head(toRouter).from = h
    BY <2>2 DEF RouterMessages
  <2>4. routing' # NoOne
    BY <1>t, <2>1, <2>3
  <2>5. DeleteInFlight' => DeleteInFlight
    BY <1>t, <2>1, Popped
  <2> QED
    BY <2>1, <2>4, <2>5 DEF AckInv, Gone
<1>23. CASE DeleteRoutingData
  <2>1. /\ UNCHANGED <<mSessions, hpc, mState, op, mRouterHasRoutingData, toService>>
        /\ Pop("delete")
    BY <1>23 DEF DeleteRoutingData, serviceVars
  <2>2. Gone(h)
    BY <1>t, <2>1, Popped DEF AckInv
  <2> QED
    BY <2>1, <2>2 DEF AckInv, Gone
<1>24. CASE KickNoClient \/ KickClient
  <2>1. /\ UNCHANGED <<mSessions, hpc, mState, op, mRouterHasRoutingData, toService,
                       routing>>
        /\ Pop("kick")
    BY <1>24 DEF KickNoClient, KickClient, serviceVars, routerVars
  <2>2. DeleteInFlight' => DeleteInFlight
    BY <1>t, <2>1, Popped
  <2> QED
    BY <2>1, <2>2, AckAside DEF InFlight
<1>25. ASSUME NEW c \in Conns,
              \/ RefuseClient(c) \/ AcceptClient(c) \/ Connect(c) \/ Leave(c)
              \/ SendStatus(c)
       PROVE  AckInv(h)'
  <2>1. /\ UNCHANGED <<mSessions, hpc, mState, op, mRouterHasRoutingData, routing>>
        /\ UNCHANGED <<toRouter, toService>>
    BY <1>25 DEF RefuseClient, AcceptClient, Connect, Leave, SendStatus, serviceVars,
                 routerVars
  <2> QED
    BY <2>1, AckAside DEF DeleteInFlight, InFlight
<1>26. ASSUME NEW c \in Conns, ReceiveDisconnect(c) \/ ReceiveFails(c) \/ SendFails(c)
       PROVE  AckInv(h)'
  <2>1. UNCHANGED <<mSessions, hpc, mState, op, mRouterHasRoutingData, toRouter, routing>>
    BY <1>26 DEF ReceiveDisconnect, ReceiveFails, SendFails, serviceVars, routerVars
  <2>2. \/ toService' = Append(toService, [kind |-> "disconnected", of |-> c])
        \/ UNCHANGED toService
    BY <1>26 DEF ReceiveDisconnect, ReceiveFails, SendFails, Disconnect,
                 NotifyClientDisconnected
  <2>3. InFlight("ack")' => InFlight("ack")
    BY <1>t, <2>2, Appended DEF InFlight
  <2> QED
    BY <2>1, <2>3, AckAside DEF DeleteInFlight
<1>27. \A g \in Creators : g = h
  OBVIOUS
<1> QED
  BY <1>1, <1>2, <1>3, <1>4, <1>5, <1>6, <1>7, <1>8, <1>9, <1>10, <1>11, <1>12,
     <1>13, <1>14, <1>15, <1>16, <1>17, <1>18, <1>19, <1>20, <1>21, <1>22, <1>23,
     <1>24, <1>25, <1>26, <1>27
     DEF Next, Create, Operation, Dispatcher, RouterThread, ServiceToRouter

(* initializeSession returns true only when the router has the session's       *)
(* routing data, whatever is done to the session while it waits, if no other   *)
(* request ever creates the id.  With a second creator it is false: nothing    *)
(* resets mRouterHasRoutingData.                                            *)
THEOREM AckAlwaysMeansRouted ==
  ASSUME NEW h, Creators = {h} PROVE Spec => []AckMeansRouted
<1>1. Init => TypeOK /\ AckInv(h)
  <2> SUFFICES ASSUME Init PROVE AckInv(h)
    BY TypeInit
  <2>1. h \in Creators /\ h \in Threads
    BY DEF Threads
  <2>2. ~DeleteInFlight /\ ~InFlight("ack")
    BY DEF Init, DeleteInFlight, InFlight
  <2> QED
    BY <2>1, <2>2 DEF Init, AckInv
<1>2. TypeOK /\ AckInv(h) /\ [Next]_vars => AckInv(h)'
  BY AckKept
<1>3. TypeOK /\ AckInv(h) => AckMeansRouted
  BY DEF AckInv, Gone, AckMeansRouted
<1> QED
  BY <1>1, <1>2, <1>3, TypeKept, PTL DEF Spec
=============================================================================
