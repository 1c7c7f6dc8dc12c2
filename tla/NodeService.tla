----------------------------- MODULE NodeService -----------------------------
(***************************************************************************)
(* The HTTP front of a node: the four UrlRouters of NodeService, the        *)
(* BanList of the GET router, and the tags of the node, which PUT and       *)
(* DELETE requests change (ArrasNode::updateTags, deleteTags).             *)
(*                                                                         *)
(* A change of the tags is checked in the HTTP thread and applied in a      *)
(* thread of its own, which also writes the node's information to Consul.   *)
(* mNodeInfoIsUpdating keeps a second change out; the handle of the thread  *)
(* is joined and assigned outside of any mutex.                            *)
(*                                                                         *)
(* The model begins when initialize() has registered the node with          *)
(* Coordinator and is about to write its information to Consul, and ends    *)
(* with ~ArrasNode.  The ban list and Consul are in use (no --no-banlist, no *)
(* --no-consul).                                                           *)
(***************************************************************************)
EXTENDS Naturals, FiniteSets, SequencesExt

CONSTANTS
  Reqs,         \* HTTP server threads
  Addrs,        \* addresses of clients
  NoAddr,       \* getClientAddress fails
  Workloads,    \* sets of requests; those of one of them arrive
  CountToBan,   \* unsupported GET requests that lead to a ban
  SecToUnBan,   \* time units until an entry of the ban list expires
  NoOne         \* no request, no thread

Requests == UNION Workloads

ASSUME ServiceConstants ==
  /\ NoAddr \notin Addrs
  /\ NoOne \notin Reqs \cup Requests
  /\ CountToBan \in Nat \ {0} /\ SecToUnBan \in Nat
  /\ IsFiniteSet(Reqs)

VARIABLES
  workload,              \* the requests that arrive
  main,                  \* where the main thread is
  hpc, hreq,             \* where each HTTP thread is, with which request
  mBanListMap,           \* count (0: no entry) and age of each address
  tags,                  \* mNodeInfo["tags"]
  mNodeInfoIsUpdating,
  mNodeInfoUpdateThread, \* the request whose thread the handle refers to
  updater, upc,          \* the running update thread: its request, where it is
  change,                \* the change it applies
  stale,                 \* copies of the tags that are out of date: Consul's,
                         \* and the one that registerNode is about to write
  aborted,               \* std::terminate
  misses,                \* history: unsupported GET requests, up to CountToBan
  dropped,               \* history: an accepted change was not applied
  consulFailed,          \* history: the last write to Consul failed
  early                  \* history: a change was accepted during registration

banVars == <<mBanListMap, misses>>
tagVars == <<tags, mNodeInfoIsUpdating, mNodeInfoUpdateThread, updater, upc, change,
             dropped, early>>
consulVars == <<stale, consulFailed>>
vars == <<workload, main, hpc, hreq, banVars, tagVars, consulVars, aborted>>
Copies == {"consul", "registering"}
-----------------------------------------------------------------------------
(* Tags.  A change is a function from some of the tags to their new values:  *)
(* updateTags sets them, deleteTags makes them absent.                      *)
Tag == {"user", "production", "team", "over"}
TagValue == {"absent", "null", "text", "true", "false"}
IsNull(v) == v \in {"absent", "null"}

(* The change of a request is made of values that JSON has. *)
ASSUME RequestChanges ==
  \A q \in Requests : \A t \in DOMAIN q.change : q.change[t] \in TagValue

Merged(c) == [t \in Tag |-> IF t \in DOMAIN c THEN c[t] ELSE tags[t]]

(* exclusive_team needs exclusive_production; over_subscribe is a Boolean,   *)
(* and needs exclusive_user when it is true.                               *)
ValidateTags(s) ==
  /\ ~IsNull(s["team"]) => ~IsNull(s["production"])
  /\ s["over"] \in {"absent", "true", "false"}
  /\ s["over"] = "true" => ~IsNull(s["user"])

(* What buildNodeInfo makes of the command line. *)
InitialTags ==
  {s \in [Tag -> {"absent", "text", "true"}] :
     /\ \A t \in Tag \ {"over"} : s[t] # "true"
     /\ s["over"] # "text"
     /\ s["production"] = "absent" => s["team"] = "absent"
     /\ s["over"] = "true" => s["user"] = "text"}

AcceptableChangeOnly(c) ==
  ValidateTags([t \in Tag |-> IF t \in DOMAIN c THEN c[t] ELSE "absent"])

(* The tags as they would be with the change are valid. *)
Acceptable(c) == ValidateTags(Merged(c))
-----------------------------------------------------------------------------
(* Routers.  A node of a router's tree is the path that leads to it; "*"     *)
(* stands for a variable element.                                          *)
Routes == [
  GET |-> {<<"node", "1", "health">>, <<"node", "1", "status">>,
           <<"node", "1", "sessions">>, <<"node", "1", "sessions", "*", "status">>,
           <<"node", "1", "sessions", "*", "performance">>, <<"favicon.ico">>},
  PUT |-> {<<"sessions", "modify">>, <<"node", "1", "sessions", "modify">>,
           <<"sessions", "*", "status">>, <<"node", "1", "sessions", "*", "status">>,
           <<"registration">>, <<"status">>, <<"node", "tags">>},
  POST |-> {<<"sessions">>, <<"node", "1", "sessions">>},
  DELETE |-> {<<"sessions", "*">>, <<"node", "1", "sessions", "*">>,
              <<"node", "tag", "*">>, <<"node", "tags">>}]

(* There is a router for every method that is used. *)
ASSUME RequestMethods == \A q \in Requests : q.method \in DOMAIN Routes

(* What a route declares: the elements are equal, or the route's is variable  *)
(* and stands for the id of a session or the name of a tag, not for the       *)
(* word that is its sibling in the tree.                                   *)
Fits(path, route) ==
  /\ Len(path) = Len(route)
  /\ \A i \in 1..Len(route) : route[i] = path[i] \/ (route[i] = "*" /\ path[i] # "modify")

Supported(q) == \E route \in Routes[q.method] : Fits(q.path, route)

NoNode == <<"*", "no node">>
InTree(m, p) == \E route \in Routes[m] : IsPrefix(p, route)

ChildVariableFirst(m, p, e) ==
  IF InTree(m, Append(p, "*")) THEN Append(p, "*")
  ELSE IF InTree(m, Append(p, e)) THEN Append(p, e) ELSE NoNode

(* Node::handle: a constant element before a variable one; no way back. *)
Child(m, p, e) ==
  IF InTree(m, Append(p, e)) THEN Append(p, e)
  ELSE IF InTree(m, Append(p, "*")) THEN Append(p, "*") ELSE NoNode

Route(m, path) ==
  LET node[i \in 0..Len(path)] == IF i = 0 THEN <<>> ELSE Child(m, node[i - 1], path[i])
  IN  node[Len(path)]

(* The route that handles a request; unmapped if the node has no handler. *)
Handler(q) == Route(q.method, q.path)
Mapped(q) == Handler(q) \in Routes[q.method]
-----------------------------------------------------------------------------
(* Ban list. *)
MaxAge == SecToUnBan + 1
HasExpired(e) == e.age > SecToUnBan
NoEntry == [count |-> 0, age |-> 0]

CheckedRestamping(e) ==
  IF HasExpired(e) THEN NoEntry
  ELSE IF e.count >= CountToBan THEN [count |-> CountToBan + 1, age |-> 0] ELSE e

CheckedCounting(e) ==
  IF HasExpired(e) THEN NoEntry
  ELSE IF e.count >= CountToBan THEN [count |-> e.count + 1, age |-> 0] ELSE e

(* isBanned: an expired entry goes; the first request that is refused counts *)
(* once more and begins the period of the ban.                             *)
Checked(e) ==
  IF HasExpired(e) THEN NoEntry
  ELSE IF e.count = CountToBan THEN [count |-> e.count + 1, age |-> 0] ELSE e

Refused(e) == e.count >= CountToBan

Track(a) == mBanListMap' = [mBanListMap EXCEPT ![a] = [count |-> @.count + 1, age |-> 0]]

Cleanup ==
  mBanListMap' = [a \in Addrs |->
                    IF HasExpired(mBanListMap[a]) THEN NoEntry ELSE mBanListMap[a]]
-----------------------------------------------------------------------------
TypeOK ==
  /\ workload \in Workloads
  /\ main \in {"register", "writing", "running", "destroy", "joined", "exited"}
  /\ stale \subseteq Copies
  /\ tags \in [Tag -> TagValue]
  /\ hpc \in [Reqs -> {"idle", "route", "join", "launch", "assign"}]
  /\ \A r \in Reqs : hreq[r] \in Requests \cup {NoOne}
  /\ mBanListMap \in [Addrs -> [count : 0..CountToBan + Cardinality(Reqs), age : 0..MaxAge]]
  /\ mNodeInfoIsUpdating \in BOOLEAN
  /\ mNodeInfoUpdateThread \in Reqs \cup {NoOne}
  /\ updater \in Reqs \cup {NoOne}
  /\ upc \in {"none", "apply", "consul", "clear"}
  /\ aborted \in BOOLEAN
  /\ misses \in [Addrs -> 0..CountToBan]
  /\ dropped \in BOOLEAN /\ consulFailed \in BOOLEAN /\ early \in BOOLEAN

Init ==
  /\ workload \in Workloads
  /\ main = "register"
  /\ tags \in InitialTags
  /\ stale = {"consul"}
  /\ hpc = [r \in Reqs |-> "idle"] /\ hreq = [r \in Reqs |-> NoOne]
  /\ mBanListMap = [a \in Addrs |-> NoEntry]
  /\ mNodeInfoIsUpdating = FALSE
  /\ mNodeInfoUpdateThread = NoOne /\ updater = NoOne /\ upc = "none"
  /\ change = NoOne
  /\ aborted = FALSE
  /\ misses = [a \in Addrs |-> 0]
  /\ dropped = FALSE /\ consulFailed = FALSE /\ early = FALSE
-----------------------------------------------------------------------------
GoTo(r, from, to) == ~aborted /\ hpc[r] = from /\ hpc' = [hpc EXCEPT ![r] = to]
Done(r) == hreq' = [hreq EXCEPT ![r] = NoOne]

(* A GET request is looked up in the ban list when it arrives, unless its     *)
(* address is unknown, and answered 429 if the address is banned.           *)
ReceiveGet(r, q) ==
  /\ q.method = "GET" /\ main \notin {"exited"}
  /\ LET e == IF q.addr = NoAddr THEN NoEntry ELSE Checked(mBanListMap[q.addr])
     IN /\ mBanListMap' = [a \in Addrs |-> IF a = q.addr THEN e ELSE mBanListMap[a]]
        /\ IF Refused(e)
           THEN GoTo(r, "idle", "idle") /\ UNCHANGED hreq
           ELSE GoTo(r, "idle", "route") /\ hreq' = [hreq EXCEPT ![r] = q]
  /\ UNCHANGED <<workload, main, misses, tagVars, consulVars, aborted>>

(* The other routers have no ban list. *)
Receive(r, q) ==
  /\ q.method # "GET" /\ main \notin {"exited"}
  /\ GoTo(r, "idle", "route")
  /\ hreq' = [hreq EXCEPT ![r] = q]
  /\ UNCHANGED <<workload, main, banVars, tagVars, consulVars, aborted>>

(* No handler: 404, and the address of a GET request is tracked. *)
HandleUnmapped(r) ==
  /\ GoTo(r, "route", "idle") /\ Done(r)
  /\ ~Mapped(hreq[r])
  /\ IF hreq[r].method = "GET" /\ hreq[r].addr # NoAddr
     THEN /\ Track(hreq[r].addr)
          /\ misses' = [misses EXCEPT ![hreq[r].addr] =
                          IF Supported(hreq[r]) \/ @ = CountToBan THEN @ ELSE @ + 1]
     ELSE UNCHANGED banVars
  /\ UNCHANGED <<workload, main, tagVars, consulVars, aborted>>

TagHandlers == {<<"node", "tags">>, <<"node", "tag", "*">>}

HandleTracking(r) ==
  /\ GoTo(r, "route", "idle") /\ Done(r)
  /\ Mapped(hreq[r]) /\ Handler(hreq[r]) \notin TagHandlers
  /\ IF Handler(hreq[r]) = <<"favicon.ico">> /\ hreq[r].addr # NoAddr
     THEN Track(hreq[r].addr) ELSE UNCHANGED mBanListMap
  /\ UNCHANGED <<workload, main, misses, tagVars, consulVars, aborted>>

(* A handler that leaves tags and ban list alone.  The one of favicon.ico    *)
(* answers 404 too, but its request is mapped and not tracked; GET status    *)
(* of a node that is not healthy fails before it reaches the ban list.       *)
Handle(r) ==
  /\ GoTo(r, "route", "idle") /\ Done(r)
  /\ Mapped(hreq[r]) /\ Handler(hreq[r]) \notin TagHandlers
  /\ UNCHANGED <<workload, main, banVars, tagVars, consulVars, aborted>>

(* GET status of a healthy node: getSummary removes expired entries. *)
GetStatus(r) ==
  /\ GoTo(r, "route", "idle") /\ Done(r)
  /\ hreq[r].method = "GET" /\ Handler(hreq[r]) = <<"node", "1", "status">>
  /\ Cleanup
  /\ UNCHANGED <<workload, main, misses, tagVars, consulVars, aborted>>
-----------------------------------------------------------------------------
MayUpdateIgnoringBusy(c) == Acceptable(c)

(* Checked under mNodeInfoMutex. *)
MayUpdate(c) == ~mNodeInfoIsUpdating /\ Acceptable(c)

(* updateTags and deleteTags: 409, 400, or the change is accepted. *)
RefuseTags(r) ==
  /\ GoTo(r, "route", "idle") /\ Done(r)
  /\ Handler(hreq[r]) \in TagHandlers /\ ~MayUpdate(hreq[r].change)
  /\ UNCHANGED <<workload, main, banVars, tagVars, consulVars, aborted>>

UpdateTags(r) ==
  /\ GoTo(r, "route", "join")
  /\ Handler(hreq[r]) \in TagHandlers /\ MayUpdate(hreq[r].change)
  /\ mNodeInfoIsUpdating' = TRUE
  /\ early' = (early \/ main \in {"register", "writing"})
  /\ UNCHANGED <<workload, main, hreq, banVars, tags, mNodeInfoUpdateThread, updater, upc,
                 change, dropped, consulVars, aborted>>

(* join() returns: the thread of the handle has ended. *)
JoinReturns == mNodeInfoUpdateThread = NoOne \/ mNodeInfoUpdateThread # updater

JoinUpdateThread(r) ==
  /\ GoTo(r, "join", "launch")
  /\ JoinReturns
  /\ mNodeInfoUpdateThread' = NoOne
  /\ UNCHANGED <<workload, main, hreq, banVars, tags, mNodeInfoIsUpdating, updater, upc, change,
                 dropped, early, consulVars, aborted>>

LaunchUpdate(r) ==
  /\ GoTo(r, "launch", "assign")
  /\ updater' = r /\ upc' = "apply" /\ change' = hreq[r].change
  /\ UNCHANGED <<workload, main, hreq, banVars, tags, mNodeInfoIsUpdating, mNodeInfoUpdateThread,
                 dropped, early, consulVars, aborted>>

(* The handle is assigned when the thread runs already.  To assign over a    *)
(* joinable handle terminates the process.                                 *)
AssignUpdateThread(r) ==
  /\ GoTo(r, "assign", "idle") /\ Done(r)
  /\ aborted' = (mNodeInfoUpdateThread # NoOne)
  /\ mNodeInfoUpdateThread' = r
  /\ UNCHANGED <<workload, main, banVars, tags, mNodeInfoIsUpdating, updater, upc, change,
                 dropped, early, consulVars>>
-----------------------------------------------------------------------------
(* The update thread: updateTagsProc, deleteTagsProc. *)
UpdaterGoesTo(from, to) == ~aborted /\ upc = from /\ upc' = to

ApplyClearing ==
  /\ UpdaterGoesTo("apply", IF Acceptable(change) THEN "consul" ELSE "clear")
  /\ tags' = IF Acceptable(change) THEN Merged(change) ELSE tags
  /\ stale' = IF tags' = tags THEN stale ELSE Copies
  /\ mNodeInfoIsUpdating' = FALSE
  /\ UNCHANGED <<workload, main, hpc, hreq, banVars, mNodeInfoUpdateThread, dropped,
                 updater, change, early, consulFailed, aborted>>

ApplyChange ==
  /\ UpdaterGoesTo("apply", IF Acceptable(change) THEN "consul" ELSE "clear")
  /\ tags' = IF Acceptable(change) THEN Merged(change) ELSE tags
  /\ stale' = IF tags' = tags THEN stale ELSE Copies
  /\ dropped' = (dropped \/ ~Acceptable(change))
  /\ UNCHANGED <<workload, main, hpc, hreq, banVars, mNodeInfoIsUpdating, mNodeInfoUpdateThread,
                 updater, change, early, consulFailed, aborted>>

WriteConsul ==
  /\ UpdaterGoesTo("consul", "clear")
  /\ \/ stale' = stale \ {"consul"} /\ consulFailed' = FALSE
     \/ stale' \in {stale, stale \ {"consul"}} /\ consulFailed' = TRUE
  /\ UNCHANGED <<workload, main, hpc, hreq, banVars, tags, mNodeInfoIsUpdating,
                 mNodeInfoUpdateThread, updater, change, dropped, early, aborted>>

EndUpdate ==
  /\ UpdaterGoesTo("clear", "none")
  /\ mNodeInfoIsUpdating' = FALSE
  /\ updater' = NoOne /\ change' = NoOne
  /\ UNCHANGED <<workload, main, hpc, hreq, banVars, tags, mNodeInfoUpdateThread, dropped, early,
                 consulVars, aborted>>
-----------------------------------------------------------------------------
(* The main thread.  registerNode reads mNodeInfo, without a lock, and sends  *)
(* what it has read; if that fails, the node is destroyed.                 *)
MainGoesTo(from, to) == ~aborted /\ main = from /\ main' = to

ReadNodeInfo ==
  /\ MainGoesTo("register", "writing")
  /\ stale' = stale \ {"registering"}
  /\ UNCHANGED <<workload, hpc, hreq, banVars, tagVars, consulFailed, aborted>>

(* Consul has what registerNode has read, out of date or not. *)
Overwritten == IF "registering" \in stale THEN stale \cup {"consul"} ELSE stale \ {"consul"}

UpdateNodeInfo ==
  /\ \/ MainGoesTo("writing", "running") /\ stale' = Overwritten /\ UNCHANGED consulFailed
     \/ MainGoesTo("writing", "destroy") /\ stale' \in {stale, Overwritten}
                                         /\ consulFailed' = TRUE
  /\ UNCHANGED <<workload, hpc, hreq, banVars, tagVars, aborted>>

(* run() returns and main destroys the node; see module ArrasNode. *)
RunReturns ==
  /\ MainGoesTo("running", "destroy")
  /\ UNCHANGED <<workload, hpc, hreq, banVars, tagVars, consulVars, aborted>>

(* ~ArrasNode joins the update thread, while HTTP requests are still served; *)
DestroyNode ==
  /\ MainGoesTo("destroy", "joined")
  /\ JoinReturns
  /\ mNodeInfoUpdateThread' = NoOne
  /\ UNCHANGED <<workload, hpc, hreq, banVars, tags, mNodeInfoIsUpdating, updater, upc, change,
                 dropped, early, consulVars, aborted>>

(* then its members go, the NodeService first and the handle last.  In the    *)
(* NodeService mHttpServer is declared first and goes after the routers and    *)
(* the ban list: requests that it still serves then use what is gone, which    *)
(* is left out.                                                              *)
StopHttpServer ==
  /\ MainGoesTo("joined", "exited")
  /\ \A r \in Reqs : hpc[r] = "idle"
  /\ aborted' = (mNodeInfoUpdateThread # NoOne)
  /\ UNCHANGED <<workload, hpc, hreq, banVars, tagVars, consulVars>>

(* Time passes for the ban list. *)
Tick ==
  /\ ~aborted /\ main # "exited"
  /\ mBanListMap' = [a \in Addrs |->
       IF mBanListMap[a].count = 0 \/ HasExpired(mBanListMap[a]) THEN mBanListMap[a]
       ELSE [mBanListMap[a] EXCEPT !.age = @ + 1]]
  /\ UNCHANGED <<workload, main, hpc, hreq, misses, tagVars, consulVars, aborted>>
-----------------------------------------------------------------------------
Next ==
  \/ \E r \in Reqs :
       \/ \E q \in workload : ReceiveGet(r, q) \/ Receive(r, q)
       \/ HandleUnmapped(r) \/ Handle(r) \/ GetStatus(r)
       \/ RefuseTags(r) \/ UpdateTags(r)
       \/ JoinUpdateThread(r) \/ LaunchUpdate(r) \/ AssignUpdateThread(r)
  \/ ApplyChange \/ WriteConsul \/ EndUpdate
  \/ ReadNodeInfo \/ UpdateNodeInfo \/ RunReturns \/ DestroyNode \/ StopHttpServer
  \/ Tick

Spec == Init /\ [][Next]_vars

(* Time passes. *)
FairSpec == Spec /\ WF_vars(Tick)
-----------------------------------------------------------------------------
(* A request whose path fits one of the declared routes is given to that    *)
(* route: the lookup of Node::handle, which never takes back the choice of   *)
(* a constant element, misses none for the routes of NodeService.  A session *)
(* called "modify" would be missed, but no id of a session is that word.     *)
SupportedPathsMapped ==
  \A r \in Reqs : hpc[r] = "route" /\ Supported(hreq[r]) =>
    Mapped(hreq[r]) /\ Fits(hreq[r].path, Handler(hreq[r]))

Banned(a) == Refused(mBanListMap[a]) /\ ~HasExpired(mBanListMap[a])

(* isBanned refuses an address only when it has itself sent CountToBan GET   *)
(* requests that fit no route: browsers asking for favicon.ico are not       *)
(* banned, nor is anyone for supported requests.                           *)
BanDeserved == \A a \in Addrs : Banned(a) => misses[a] = CountToBan

(* A ban ends, although the banned address goes on sending requests: neither *)
(* isBanned nor the requests that were let in before it prolong it for ever. *)
BanEnds == \A a \in Addrs : Banned(a) ~> (~Banned(a) \/ main = "exited" \/ aborted)

(* However updateTags and deleteTags race, exclusive_team comes with         *)
(* exclusive_production, and over_subscribe with exclusive_user.            *)
TagsConsistent ==
  /\ tags["team"] \in {"text", "true", "false"} => ~IsNull(tags["production"])
  /\ tags["over"] = "true" => ~IsNull(tags["user"])

(* A change that a request was told is accepted passes the second check of   *)
(* its update thread: no other change came in between.                     *)
AcceptedApplied == ~dropped

(* Between updates Consul has the tags of the node, unless the last write    *)
(* failed or a change was accepted before registerNode had written them.     *)
ConsulAgrees ==
  main \in {"running", "destroy", "joined"} /\ ~mNodeInfoIsUpdating
    /\ ~consulFailed /\ ~early => "consul" \notin stale
=============================================================================
