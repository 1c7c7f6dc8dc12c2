# Verification of arras4_node

TLA+ models of the Arras node: the process that runs the computations of
rendering sessions on one machine (`cmd/node`, `lib/session`) and the router
process beside it that carries their messages (`cmd/node/router`). The modules
are checked with TLC on small instances; the modules named `*Proofs` and
`SessionRefinement` are proved with TLAPS for every value of the constants.

## The system

A **Coordinator** (another program) asks **nodes** over HTTP to create, modify,
signal and delete **sessions**. A session places some **computations**, each an
operating system process, on each of its nodes. A **client** connects to one of
the nodes, the session's entry node. The **router** of a node passes messages
between its computations, the client and the routers of other nodes.

| Part | State | Operations | Interacts with |
|---|---|---|---|
| `Session` | Free, Busy or Defunct; the handle of the operation thread; the map of computations; the expiration timer | asyncUpdateConfig, asyncDelete, signal, syncShutdown, expiration | called by HTTP threads, the main thread and the dispatcher; sends to the router through `ArrasController` |
| `Computation` | its process, whether "go" was sent | start, shutdown, signal, onTerminate, onHeartbeat | the process library, `ArrasController` |
| `ArrasSessions` | map of sessions, closed flag | create, modify, delete, signal, shutdownAll, reports | HTTP threads, main thread |
| `ArrasController` | which ids the router has acknowledged, the event handler | initializeSession, kickClient, shutdownSession, handleMessage (dispatcher thread) | one socket to the router; events to `NodeService` |
| `NodeService` | event queue and its thread, HTTP server, ban list | HTTP handlers, handleEvent, drainEvents, register and deregister | Coordinator; `ArrasSessions`, `ArrasNode` |
| `ArrasNode`, `main` | mRun, mIsRegistered, tags | initialize, run, stopRunning, setStatus, updateTags, deleteTags | Consul, Coordinator, all of the above |
| `PreemptionMonitor` | its thread | poll, stopRunning | `ArrasNode` |
| `NodeRouter` (router thread, serviceToRouter thread) | routing data, list of endpoints to destroy | connection filters, kickClient, destroyEndpoints | the node's socket, `PeerManager` |
| `PeerManager` | tables of clients, nodes, computations; stashed envelopes | track, find, destroy, stash | all router threads |
| `RemoteEndpoint` | its peer, queue, two threads, flags | sendThread, receiveThread, setPeer, drain, destructor | sockets, `routeMessage` |
| `routeMessage` | none of its own | to client, to computation, to node | `PeerManager`, `RemoteEndpoint` |
| `BanList`, `UrlRouter` | counts per address, tree of paths | isBanned, track, handle | HTTP threads |
| `SessionConfig`, `ComputationConfig` | none (parsed definition) | parsing, command lines | `Session` |

What is hard here is concurrency. Each HTTP request has a thread, each operation
another; the dispatcher and the expiration timers act on the same sessions; the
main thread shuts everything down while all of them run. The router is a second
process, so that a decision of one is stale when the other acts on it, and each
endpoint has two threads of which either may see the connection fail. Failures
(a computation that will not stop, a client that does not read, a lost
connection, an absent Coordinator) are handled by timeouts, and an operation may
stop half way. `PROJECT.json` lists the hazards with their lines.

What makes the parts correct: operations on a session exclude each other and
never leave a process nobody knows of; Coordinator hears of what failed; a
session has one client, whose end the client or the node is told of; two routers agree
on one connection; what a thread routes arrives in order, and a client that is
late gets what was kept for it; a node that is asked to stop stops its sessions, reports,
deregisters and exits.

## Modules

| Module | Models | Notes |
|---|---|---|
| `SessionLifecycle` | what a session promises | abstract: state, closing, operation in progress, live computations |
| `Session` | `Session.cc`, `Computation.cc` | implements `SessionLifecycle` |
| `SessionProofs` | | inductive invariant and safety theorems of `Session` |
| `SessionRefinement` | | `Session` implements `SessionLifecycle` |
| `ClientSession` | create, modify, delete and expiry in `ArrasSessions`, `ArrasController` and `Session`; the client side of `NodeRouter`, `PeerManager`, `RemoteEndpoint` | composes node, router and client connections over two message queues |
| `ClientSessionProofs` | | one client, no end that nobody hears of, meaning of the acknowledgement |
| `NodeConnection` | node filter of `NodeRouter`, node part of `routeMessage`, `RemoteEndpoint` | two routers, TCP connections |
| `NodeConnectionProofs` | | direction, agreement and replacement of connections, for any number of endpoints |
| `MessageRouting` | `routeMessage` to client and computations, `PeerManager`, client and IPC filters, `kickClient`, the life of a `RemoteEndpoint` | one session in the router of its entry node |
| `MessageRoutingProofs` | | order, stash and pointers, for any number of endpoints and messages |
| `ArrasNode` | `main.cc`, `ArrasNode.cc`, event queue of `NodeService`, `shutdownAll`, `PreemptionMonitor` | registration to exit |
| `ArrasNodeProofs` | | shutdown of the sessions, events, deregistration |
| `NodeService` | `UrlRouter`, `BanList`, `ArrasNode::updateTags` and `deleteTags` | the HTTP front; requests as method, path, address, change of tags |
| `NodeServiceProofs` | | changes of the tags, Consul, routes and bans, for any requests |
| `MC*` | | instances for TLC |

**Correspondence.** Variables have the names of the members they model; program
counters (`rpc`, `pc`, `hpc`, `dpc`, `sender`, ...) say where a thread is. What
a thread does while it holds a short mutex (`mStateMutex`, `mExpirationMutex`,
`PeerManager::mMutex`) is one action; mutexes that are held across waits
(`mComputationsMutex`, `mRunMutex`, `mNodeConnectionMutex`, `mSessionsMutex` in
shutdownAll) appear as variables or guards. `wait_until` with a predicate is two
actions, one for the predicate and one for the timeout, which may happen at any
time. A condition variable without a predicate that is re-read before the wait
(`mPeerSetCondition`) is modelled with its states "waiting" and "woken", so that
a notification can be lost. A request that is answered with an error and changes
nothing is an action that is not enabled (in `NodeService`, one that only ends the request). Undefined behaviour is a state:
assigning over a joinable `std::thread` sets `aborted`, deleting a peer in use
sets `corrupted`, an event for a destroyed `NodeService` sets `dangling`.

`Session`: an operation thread bears the name of the HTTP thread that launched
it. `asyncUpdateConfig` and `asyncDelete` are four actions: take Busy, join the
old thread, start the new one, assign the handle. `updateProc` is
GetConfigDelta, StopDefunct, AwaitDefunct (or its timeout), StartNewComputation
and RecordComputation for each new computation, FinishUpdate; any failure goes
through UpdateThrows. `deleteProc` is LockComputations to FinishDelete, run by an
operation thread or by Main.

`ClientSession`: `toRouter` and `toService` are the two directions of the socket.
The router thread (`lpc`), the serviceToRouter thread (`kpc`), the dispatcher
(`dpc`) and the endpoints' threads are separate actors. A temporary endpoint is
the one a client without routing data gets. Either thread of an endpoint may fail
(ReceiveFails, SendFails) whether or not the client has left: a poll error, a bad
message and any exception end in `disconnect`, which tells the node
(NotifyClientDisconnected) and flags the endpoint. A client that leaves is one way
to that end, and the only one that is fair.

`NodeConnection`: an endpoint is `<<node, number>>` and a connection is named
after the endpoint that opened it; `Lo` and `Hi` are ordered by their ids.

`MessageRouting`: every endpoint has a receive thread, which routes, and a send
thread; `Service` is the serviceToRouter thread and `Router` the router thread.
`pc` says where a routing thread is: `routeMessage` is a lookup (FindPeer,
NoClientPeer, NoIpcPeer) and then QueueAndRelease or StashEnvelope for each
destination. `held` is the shared pointer of a lookup; a table entry is the other
pointer. Whoever drops the last one is in the destructor (`destroying`) until the
receive thread has ended. PeerManager's mutex is a variable of the model only
through `MutexFree`: eraseIfFound is the one place that keeps it across a wait.
`out` is everything queued for an endpoint since it was built, sent or not, so
that its order can be stated; what was sent before a failure is not told apart.
`ClientSession` takes the destructor of an endpoint to return; `routing_destroy`
shows when it does not.

`ArrasNode`: `main` is where the main thread is. A session is a Session object, and
`mSessions` the objects in the map: a create inserts its object, and erases it when
initializeSession or asyncUpdateConfig fails, with whatever a modify has started on it
meanwhile. The HTTP threads of `Modifiers` serve modifySession in three steps (mClosed,
lookup, asyncUpdateConfig), the others everything else. `stopRunning` is guarded by
`MutexHeld`. A signal is handled in the main thread, whence `stuck`. The actions
that fail (`RegisterNodeFails`, `DeregisterNodeThrows`, ...) leave behind what the
code leaves behind.

`NodeService`: a node of a router's tree is the path that leads to it, and Node::handle
is a recursive function on the elements of the request. A variable element of a
route stands for a session id or the name of a tag; "modify", which has a route of
its own beside the variable, is neither (`Fits`). An HTTP thread checks the ban list when
a GET request arrives and tracks the address when it answers 404, two separate
steps. A change of the tags maps some tags to new values, or to "absent" for a
DELETE; updateTags and deleteTags differ in nothing else. Registration and exit
of the main thread are the steps that touch mNodeInfo and the update thread.

## Runs

| Run | Config | Distinct states | Shows |
|---|---|---|---|
| `session` | `MCSession.cfg` | 284,409 | safety of `Session`, refinement; operations and syncShutdown end |
| `session_handle` | `MCSessionHandle.cfg` | counterexample | the thread handle can be overwritten |
| `client` | `MCClientSession.cfg` | 197,982 | one client; the end of an accepted client is known to it or to the node |
| `client_live` | `MCClientSessionLive.cfg` | 248,532 | acknowledged means routed, kicks reach, leavers are forgotten, the dispatcher returns |
| `client_kick` | `MCClientSessionKick.cfg` | counterexample | a client can stay on a deleted session |
| `node_pair` | `MCNodeConnection.cfg` | 15,825 | routers agree on a connection from the greater node; routed messages are sent |
| `node_pair_destroy` | `MCNodeConnectionDestroy.cfg` | counterexample | the destructor of an endpoint can hang |
| `node_process` | `MCArrasNode.cfg` | 1,112,762 | shutdown, events, deregistration, exit |
| `node_process_router` | `MCArrasNodeRouter.cfg` | counterexample | a router lost during start-up does not stop the node |
| `node_service` | `MCNodeService.cfg` | 438,016 | routes, bans and tags |
| `routing` | `MCMessageRouting.cfg` | 1,677,446 | messages in order and once, no message left in the stash, no dangling pointer |
| `routing_destroy` | `MCMessageRoutingDestroy.cfg` | counterexample | the router thread can hang in the destructor of an endpoint |

Each of the five counterexamples is a disagreement between the code and a
comment of the repository; `PROJECT.json` quotes both under "findings".

**Bounds.** `session`: two HTTP threads are what it takes for a request to
overtake another between the launch and the assignment of a thread, with Main as
a third actor; two computations let one be stopped or recorded while the other
starts. The two computations are symmetric; that is sound for the liveness
properties too, because neither they nor the fairness conditions name a
computation (fairness is per HTTP thread, and those are not permuted). `client`: one create
and two connections, so that a client can be refused, replaced and kicked (by a create
that fails) while the session comes and goes. `client_live`: one connection, with a
modify or delete that races the create. The two together would be 14 million states; the
theorems about `OneClient`, `EndIsKnown` and `AckMeansRouted` do cover them together.
Each HTTP thread serves one request, and hence a session id is created once
(`AckMeansRouted` says so); two creators are allowed by the module. `node_pair`: `MaxEndpoints` is
the number of endpoints each node makes, one each: a second one is made only after
a failure, of which `Agreed`, `NoPeerReplaced` and `MessageSent` say nothing, and
`FromGreater` is proved for any number. `node_process`: one session, an HTTP
thread that creates, deletes and stops, and one that modifies,
interrupted by signals, monitor, Coordinator and router; each session raises one
event. `node_service`: two HTTP threads; a ban needs two requests and an entry
expires after two ticks of the clock; counts are bounded by the threads that can
be past the check. `routing`: two clients, so that one can be refused or follow
another, and a computation, with one message from each client, two from the
computation (order needs two) and one from the service, which is also what a kick
sends. Ban list and tags share no state, so `Workloads` lets a run of
the node see requests for one or the other. Configurations set CHECK_DEADLOCK FALSE because the systems may stop: a
session is Defunct, a node has exited, no request comes.

**Fairness.** A thread with something to do is scheduled (weak fairness per
thread). Nobody owes a request, a signal, the exit of a process, a message of a
client or a failure. A timeout is a step of the thread that waits, so weak
fairness only says that a wait with a deadline ends. Strong fairness is assumed in
three places. `LockComputations`: signals may take `mComputationsMutex` again and
again, and a mutex that is released is in the end given to a waiting thread.
`DestroyEndpoints` (in `ClientSession` and `MessageRouting`) and `Reaper`: they follow every poll of the router thread,
which lasts at most a second, whatever other connections arrive. In `NodeService` only time is fair: a ban ends by itself. In
`ClientSession` the sending thread is not fair, because a client
need not read, and the receiving thread owes a failure only when the client has left.

## Proofs

`SessionProofs` shows that `IInv` is inductive, for any sets of HTTP threads and
computations, from `ConstantsAssumption` alone (the main thread and the null
values are distinct from the others). It has three layers, each preserved given
the ones before it.

- *Ownership*: types, which steps each thread can be at, and `BusyOwned`: the
  Busy state belongs to the HTTP thread that took it and then to the thread it
  launched, never both; Main deletes only when no one owns it and mShuttingDown
  keeps anyone from becoming the owner. `OneOperation` follows.
- *Stopping*: who holds `mComputationsMutex`, that every spawned process is in
  mComputations or in the hands of the one update that spawned it, and what
  deleteProc has stopped at each step. `NoOrphan` and `NoControlWhenDefunct`
  follow: neither is inductive by itself, because a deletion relies on no update
  being between the spawn and the record.
- *Applying*: the lists computed by getConfigDelta stay exact until they are used,
  because only the owner of Busy changes mComputations.
  `ConfigAppliedOrReported` and the action property `SpawnAfterRelease` follow.

`SessionRefinement` maps the session to `SessionLifecycle`: an operation lasts
from the moment Busy is taken to the moment it is given up, and a computation is
live while its process runs and has not been asked to stop. Every step is a step
of the abstract specification or leaves it alone; the end of a deletion needs
`DeleteProgress`.

`ClientSessionProofs` is about any number of connections and of requests, from
`ClientConstants` (names that are different in the code are different).

- `OneClient` is not inductive: trackClient would overwrite an entry, and what
  excludes it is `ClientInv`, that from the filter to trackClient no client is
  tracked, that a connection gets its endpoint in between, and that a thread of the
  router has a connection in hand exactly while it works on it.
- `EndIsKnown` says that an endpoint that is given up while its client is accepted
  has a SessionStatus queued, or its `clientDroppedConnection` is on its way to the node
  or has been handled. It needs `KickInv`: an endpoint is flagged by `disconnect` or
  by a kick, and kickClient has queued the status for the endpoint that it waits for;
  and it follows the notice through the queue to the dispatcher. It is about clients that
  the router has accepted: one that is refused, has a temporary endpoint or an
  endpoint that cannot be built is closed without a word, and a failure with the client
  present tells the node and not the client.
- `AckMeansRouted` is proved for a session id that one request creates
  (`Creators = {h}`), with any number of requests that change the session. With two
  creators it is false: nothing resets mRouterHasRoutingData, so that the second one
  can take the acknowledgement of the first for its own. `AckInv` follows the
  acknowledgement and the deletion through the two queues.

`NodeConnectionProofs` proves the types and `FromGreater` for any number of
endpoints: only UseOwnPeer, AcceptGreater and SetPeer give an endpoint a
connection, and each gives one of the greater node. `Agreed` and `NoPeerReplaced`
speak of the time before the first failure; `CalmInv` describes it completely: each
node has made at most its first endpoint, which is tracked, nothing is flagged
or closed, and where each of its threads is says what is known of the connection. So the
bound of the run (one endpoint per node) loses nothing.

`ArrasNodeProofs` is about any number of HTTP threads and sessions.

- `ShutdownAllComplete` is about the sessions of the map: `ShutdownInv` says what is left
  of them at each step of shutdownAll, and of the requests that are between two steps of
  createSession or modifySession. It does not hold for all sessions: a modify that
  finds a session before its create has called asyncUpdateConfig starts the
  computations, the create then fails (Busy, or no acknowledgement) and erases the
  session, and shutdownAll never visits it. The model reaches this, and it is listed as
  a hazard. A session inserted after the loop (`late`) is exempt too.
- `EventsNotDropped`: `EventInv` ties the event that sendEventsProc has popped to
  its thread, which ~NodeService joins, because drainEvents does not look at it.
- `DeregisteredAtExit`: `RegistryInv` relates mIsRegistered, the notice of
  Coordinator that is on its way and what Coordinator knows, as long as no call of the node
  failed.

`NodeServiceProofs` holds for any requests, threads and changes, from
`ServiceConstants`, `RequestChanges` (a change consists of JSON values) and
`RequestMethods` (there is a router for the method).

- `TagsConsistent` and `AcceptedApplied`: neither is inductive; `TagInv` adds that
  mNodeInfoIsUpdating is set from the acceptance of a change to the end of its
  thread, that there is one such change at a time, and that it is valid for the
  tags as they are.
- `ConsulAgrees`: by `ConsulInv` only an update thread that is about to write can
  have made Consul's copy stale.
- `TypeOK` bounds the counts of the ban list. The bound is not inductive: `CountInv`
  adds the requests that were let in and may still be counted (`LetIn`); a thread
  that has just been let in is one of the HTTP threads, of which there are finitely
  many.
- `SupportedPathsMapped`: Node::handle is a recursive function, which has no induction
  principle here. But the nodes on the way to the route solve its equation
  (`ChildOnWay`), and as no route has more than five elements, five steps show that
  every solution is that one (`FiveSteps`). `Siblings` is the fact about the
  routes that is needed: no constant element but "modify" is beside a variable one.
- `BanDeserved` follows with `BanInv`: a count is at most the number of misses,
  until that has reached CountToBan.

`MessageRoutingProofs` proves `InOrder`, `StashDelivered` and `NoDangling` for any
number of clients, computations and messages, from `RoutingConstants` (names that
are different in the code are different). The inductive invariant adds

- `AtWork`: a thread points to an endpoint exactly while it queues or drains, joins
  exactly while it is in a destructor, and the router thread has an endpoint in
  hand exactly while it builds or tracks;
- `Owned`: an endpoint that is tracked, or built and about to be tracked (`Pinned`),
  is live, and so is one that a thread points to; a live endpoint that is not
  flagged is pinned; an endpoint whose destructor runs is not live;
- `Listed`: every listed endpoint is flagged, listed once, and still pinned: an
  endpoint enters the list once in its life, and leaves the tables only when it
  leaves the list. `NoDangling` follows from `Owned` and `Listed`;
- `Turns` and `Sorted`: `owed` is the set of destinations that a thread has not
  served with its present message. All that is queued or stashed for a
  destination has a number up to that of the thread's present message, and below
  it while the destination is owed. Without the second half a thread that has
  found a client could append a number twice; without the same bound on the stash
  nothing would be known of the messages that trackClient hands over.

`StashDelivered` is part of the invariant as it stands: the only steps that add to
the stash are those of stashEnvelope that have seen no client under the mutex.

Every safety property that a run checks is proved. Only model-checked are the
liveness properties (`OperationEnds`, `ShutdownEnds`, `KickReaches`,
`LeaverForgotten`, `DispatcherReturns`, `MessageSent`, `StopHonoured`, `BanEnds`):
fairness and ENABLED are out of the prover's reach. The five counterexamples are
runs of TLC.

## Assumptions and what is left out

- `Session`: the routing update and engineReady that `signal` sends last are left out.
- `ClientSession`: ~Session is run by the creator, after the dispatcher has let go of the
  session; in the code the dispatcher may be the last and then joins the operation thread.
- `NodeConnection`: an address once learned stays known.
- Starting a thread does not fail; `Process::terminate` does not throw.
- The sockets between node and router keep order and lose nothing while both live;
  when the router is lost the node is to exit (`ArrasNode`).
- `ClientSession`: the node is open and is the session's entry node.
- `MessageRouting`: one session, on its entry node; an executor registers once (the
  node does not restart computations). Clients and executors connect, leave and
  send, and the service kicks, routes and deletes, at any time. Messages that
  are not routed (heartbeats, disconnect), notifications to the service, other
  nodes, listeners (no code tracks one) and a computation that addresses itself are left
  out.
- `ArrasNode`: Consul is in use; a signal is delivered to the main thread; the HTTP
  server's destructor waits for its handlers (external library).
- `NodeService`: Consul and the ban list are in use. Reading or writing mNodeInfo
  and the handle of the update thread is one step each, although the code takes no
  lock for them. A copy of the tags is only known as up to date or stale. Nobody
  sends a request before the node has been registered with Consul's catalogue. The HTTP
  server is destroyed after the routers and the ban list; what a request does in between
  is left out.
- mLastActivity, reports (status, performance, idle time, health), resource
  calculation and all wording are left out: nothing else depends on them.
- Not modelled: parsing and formatting (`SessionConfig`, `ComputationConfig`, the
  messages), I/O (`HardwareFeatures`, the HTTP clients beyond success or failure),
  process start (`noderouter/main.cc`, options), scripts and build tools.

## Plan

Done: `Session` with `SessionLifecycle`, `ClientSession`, `NodeConnection`,
`ArrasNode`, `NodeService`, `MessageRouting`, and the theorems above. What is left,
in this order:

1. *Heartbeats*: one dispatcher for several sessions, blocked in getComputation
   while a deletion holds mComputationsMutex, against the 10 second limit of
   initializeSession.
2. The expiry that is armed after the client has connected or outlives a deletion
   (the model reaches both); sessions created twice under one id.
3. *Proofs*: an abstract specification of the client's connection implemented by
   `ClientSession`, and safety facts behind the liveness properties (a kick or a
   notification that is on its way is not lost).
