-------------------------- MODULE NodeServiceProofs --------------------------
(***************************************************************************)
(* For any requests and any number of HTTP threads: changes of the tags       *)
(* exclude each other, so that what was checked when a change was accepted    *)
(* still holds when its thread applies it; Consul has the tags when no change *)
(* is under way; and the ban list refuses only addresses that deserve it.     *)
(***************************************************************************)
EXTENDS NodeService, FiniteSetTheorems, TLAPS

(* A request has been accepted and its thread does not run yet. *)
Accepted(r) == hpc[r] \in {"join", "launch"}

(* mNodeInfoIsUpdating is set while a change is accepted or applied; there  *)
(* is one such change at a time, and it is valid for the tags as they are.   *)
TagInv ==
  /\ workload \in Workloads
  /\ hpc \in [Reqs -> {"idle", "route", "join", "launch", "assign"}]
  /\ hreq \in [Reqs -> Requests \cup {NoOne}]
  /\ ValidateTags(tags)
  /\ ~mNodeInfoIsUpdating => upc = "none" /\ \A r \in Reqs : ~Accepted(r)
  /\ \A r \in Reqs : Accepted(r) =>
       /\ upc = "none"
       /\ Acceptable(hreq[r].change)
       /\ \A s \in Reqs : Accepted(s) => s = r
  /\ upc = "apply" => Acceptable(change)
  /\ dropped = FALSE

(* What a change makes of the tags depends on the tags alone. *)
LEMMA AcceptableKept ==
  ASSUME tags' = tags, NEW c PROVE Acceptable(c)' <=> Acceptable(c)
BY DEF Acceptable, Merged

LEMMA ValidKept ==
  ASSUME tags' = tags, ValidateTags(tags) PROVE ValidateTags(tags)'
BY DEF ValidateTags

(* buildNodeInfo makes valid tags of the command line. *)
LEMMA InitialTagsValid == \A s \in InitialTags : ValidateTags(s)
<1> SUFFICES ASSUME NEW s \in InitialTags PROVE ValidateTags(s)
  OBVIOUS
<1>1. /\ s["team"] \in {"absent", "text", "true"}
      /\ s["production"] \in {"absent", "text", "true"}
      /\ s["user"] \in {"absent", "text", "true"}
      /\ s["over"] \in {"absent", "text", "true"}
  BY DEF InitialTags, Tag
<1>2. /\ s["production"] = "absent" => s["team"] = "absent"
      /\ s["over"] = "true" => s["user"] = "text"
      /\ s["over"] # "text"
  BY DEF InitialTags
<1> QED
  BY <1>1, <1>2 DEF ValidateTags, IsNull

LEMMA TagInit == Init => TagInv
<1> SUFFICES ASSUME Init PROVE TagInv
  OBVIOUS
<1>1. ValidateTags(tags)
  BY InitialTagsValid DEF Init
<1>2. \A r \in Reqs : ~Accepted(r)
  BY DEF Init, Accepted
<1> QED
  BY <1>1, <1>2 DEF Init, TagInv

(* A step that leaves the tags and their update alone and accepts nothing. *)
LEMMA Aside ==
  ASSUME TagInv, UNCHANGED tagVars, workload' = workload,
         hpc' \in [Reqs -> {"idle", "route", "join", "launch", "assign"}],
         hreq' \in [Reqs -> Requests \cup {NoOne}],
         \A r \in Reqs : Accepted(r)' => Accepted(r) /\ hreq'[r] = hreq[r]
  PROVE  TagInv'
<1>1. tags' = tags /\ mNodeInfoIsUpdating' = mNodeInfoIsUpdating /\ upc' = upc
      /\ change' = change /\ dropped' = dropped
  BY DEF tagVars
<1>2. ValidateTags(tags)'
  BY <1>1, ValidKept DEF TagInv
<1>3. \A r \in Reqs : Accepted(r)' =>
        upc' = "none" /\ Acceptable(hreq[r].change)' /\ \A s \in Reqs : Accepted(s)' => s = r
  <2> SUFFICES ASSUME NEW r \in Reqs, Accepted(r)'
               PROVE upc' = "none" /\ Acceptable(hreq[r].change)'
                     /\ \A s \in Reqs : Accepted(s)' => s = r
    OBVIOUS
  <2>1. Accepted(r) /\ hreq'[r] = hreq[r]
    OBVIOUS
  <2>2. Acceptable(hreq[r].change)
    BY <2>1 DEF TagInv
  <2>3. Acceptable(hreq[r].change)'
    BY <2>1, <2>2, <1>1 DEF Acceptable, Merged
  <2> QED
    BY <2>1, <2>3, <1>1 DEF TagInv
<1>4. upc' = "apply" => Acceptable(change)'
  BY <1>1 DEF TagInv, Acceptable, Merged
<1> QED
  BY <1>1, <1>2, <1>3, <1>4 DEF TagInv

(* Every step keeps TagInv. *)
LEMMA TagKept == TagInv /\ [Next]_vars => TagInv'
<1> SUFFICES ASSUME TagInv, [Next]_vars PROVE TagInv'
  OBVIOUS
<1>a. ASSUME NEW r \in Reqs, NEW q \in workload, ReceiveGet(r, q)
      PROVE TagInv'
  <2>1. q \in Requests
    BY <1>a DEF Requests, TagInv
  <2> QED
    BY <1>a, <2>1, Aside DEF TagInv, ReceiveGet, GoTo, Accepted
<1>b. ASSUME NEW r \in Reqs, NEW q \in workload, Receive(r, q)
      PROVE TagInv'
  <2>1. q \in Requests
    BY <1>b DEF Requests, TagInv
  <2> QED
    BY <1>b, <2>1, Aside DEF TagInv, Receive, GoTo, Accepted
<1>c. ASSUME NEW r \in Reqs, HandleUnmapped(r) PROVE TagInv'
  BY <1>c, Aside DEF TagInv, HandleUnmapped, GoTo, Done, Accepted
<1>d. ASSUME NEW r \in Reqs, Handle(r) PROVE TagInv'
  BY <1>d, Aside DEF TagInv, Handle, GoTo, Done, Accepted
<1>e. ASSUME NEW r \in Reqs, GetStatus(r) PROVE TagInv'
  BY <1>e, Aside DEF TagInv, GetStatus, GoTo, Done, Accepted
<1>f. ASSUME NEW r \in Reqs, RefuseTags(r) PROVE TagInv'
  BY <1>f, Aside DEF TagInv, RefuseTags, GoTo, Done, Accepted
<1>g. ASSUME NEW r \in Reqs, UpdateTags(r) PROVE TagInv'
  <2>1. /\ workload' = workload
        /\ ~mNodeInfoIsUpdating /\ mNodeInfoIsUpdating'
        /\ hpc' = [hpc EXCEPT ![r] = "join"] /\ hreq' = hreq
        /\ tags' = tags /\ upc' = upc /\ change' = change /\ dropped' = dropped
    BY <1>g DEF UpdateTags, GoTo, MayUpdate
  <2>2. Acceptable(hreq[r].change)' /\ upc' = "none"
    BY <1>g, <2>1 DEF UpdateTags, MayUpdate, Acceptable, Merged, TagInv
  <2>3. \A s \in Reqs : Accepted(s)' => s = r
    BY <2>1 DEF TagInv, Accepted
  <2>4. ValidateTags(tags)'
    BY <2>1, ValidKept DEF TagInv
  <2> QED
    BY <2>1, <2>2, <2>3, <2>4 DEF TagInv
<1>h. ASSUME NEW r \in Reqs, JoinUpdateThread(r) PROVE TagInv'
  <2>1. /\ workload' = workload
        /\ hpc[r] = "join" /\ hpc' = [hpc EXCEPT ![r] = "launch"] /\ hreq' = hreq
        /\ tags' = tags /\ upc' = upc /\ change' = change /\ dropped' = dropped
        /\ mNodeInfoIsUpdating' = mNodeInfoIsUpdating
    BY <1>h DEF JoinUpdateThread, GoTo
  <2>2. \A s \in Reqs : Accepted(s)' <=> Accepted(s)
    BY <2>1 DEF TagInv, Accepted
  <2>3. ValidateTags(tags)'
    BY <2>1, ValidKept DEF TagInv
  <2>4. \A s \in Reqs : Accepted(s) => Acceptable(hreq[s].change)'
    BY <2>1 DEF TagInv, Acceptable, Merged
  <2>5. upc' = "apply" => Acceptable(change)'
    BY <2>1 DEF TagInv, Acceptable, Merged
  <2>6. hpc' \in [Reqs -> {"idle", "route", "join", "launch", "assign"}]
    BY <2>1 DEF TagInv
  <2> QED
    BY <2>1, <2>2, <2>3, <2>4, <2>5, <2>6 DEF TagInv
<1>i. ASSUME NEW r \in Reqs, LaunchUpdate(r) PROVE TagInv'
  <2>1. /\ workload' = workload
        /\ hpc[r] = "launch" /\ hpc' = [hpc EXCEPT ![r] = "assign"] /\ hreq' = hreq
        /\ tags' = tags /\ upc' = "apply" /\ change' = hreq[r].change
        /\ dropped' = dropped /\ mNodeInfoIsUpdating' = mNodeInfoIsUpdating
    BY <1>i DEF LaunchUpdate, GoTo
  <2>2. Accepted(r) /\ mNodeInfoIsUpdating
    BY <2>1 DEF TagInv, Accepted
  <2>3. \A s \in Reqs : ~Accepted(s)'
    BY <2>1, <2>2 DEF TagInv, Accepted
  <2>4. Acceptable(change)'
    BY <2>1, <2>2 DEF TagInv, Acceptable, Merged
  <2>5. ValidateTags(tags)'
    BY <2>1, ValidKept DEF TagInv
  <2>6. hpc' \in [Reqs -> {"idle", "route", "join", "launch", "assign"}]
    BY <2>1 DEF TagInv
  <2> QED
    BY <2>1, <2>2, <2>3, <2>4, <2>5, <2>6 DEF TagInv
<1>j. ASSUME NEW r \in Reqs, AssignUpdateThread(r) PROVE TagInv'
  <2>1. /\ workload' = workload
        /\ hpc[r] = "assign" /\ hpc' = [hpc EXCEPT ![r] = "idle"]
        /\ hreq' = [hreq EXCEPT ![r] = NoOne]
        /\ tags' = tags /\ upc' = upc /\ change' = change /\ dropped' = dropped
        /\ mNodeInfoIsUpdating' = mNodeInfoIsUpdating
    BY <1>j DEF AssignUpdateThread, GoTo, Done
  <2>2. \A s \in Reqs : Accepted(s)' => Accepted(s) /\ hreq'[s] = hreq[s]
    BY <2>1 DEF TagInv, Accepted
  <2>3. ValidateTags(tags)'
    BY <2>1, ValidKept DEF TagInv
  <2>4. \A s \in Reqs : Accepted(s)' => Acceptable(hreq[s].change)'
    BY <2>1, <2>2 DEF TagInv, Acceptable, Merged
  <2>5. upc' = "apply" => Acceptable(change)'
    BY <2>1 DEF TagInv, Acceptable, Merged
  <2>6. /\ hpc' \in [Reqs -> {"idle", "route", "join", "launch", "assign"}]
        /\ hreq' \in [Reqs -> Requests \cup {NoOne}]
    BY <2>1 DEF TagInv
  <2> QED
    BY <2>1, <2>2, <2>3, <2>4, <2>5, <2>6 DEF TagInv
<1>k. CASE ApplyChange
  <2>1. /\ workload' = workload
        /\ upc = "apply" /\ Acceptable(change)
        /\ tags' = Merged(change) /\ dropped' = FALSE /\ upc' = "consul"
        /\ hpc' = hpc /\ hreq' = hreq /\ mNodeInfoIsUpdating' = mNodeInfoIsUpdating
    BY <1>k DEF ApplyChange, UpdaterGoesTo, TagInv
  <2>2. ValidateTags(tags)'
    BY <2>1 DEF Acceptable, ValidateTags
  <2>3. mNodeInfoIsUpdating /\ \A s \in Reqs : ~Accepted(s)'
    BY <2>1 DEF TagInv, Accepted
  <2> QED
    BY <2>1, <2>2, <2>3 DEF TagInv
<1>l. CASE WriteConsul
  <2>1. /\ workload' = workload
        /\ upc = "consul" /\ upc' = "clear" /\ tags' = tags /\ dropped' = dropped
        /\ hpc' = hpc /\ hreq' = hreq /\ mNodeInfoIsUpdating' = mNodeInfoIsUpdating
    BY <1>l DEF WriteConsul, UpdaterGoesTo
  <2>2. mNodeInfoIsUpdating /\ \A s \in Reqs : ~Accepted(s)'
    BY <2>1 DEF TagInv, Accepted
  <2>3. ValidateTags(tags)'
    BY <2>1, ValidKept DEF TagInv
  <2> QED
    BY <2>1, <2>2, <2>3 DEF TagInv
<1>m. CASE EndUpdate
  <2>1. /\ workload' = workload
        /\ upc = "clear" /\ upc' = "none" /\ tags' = tags /\ dropped' = dropped
        /\ hpc' = hpc /\ hreq' = hreq
    BY <1>m DEF EndUpdate, UpdaterGoesTo
  <2>2. \A s \in Reqs : ~Accepted(s)'
    BY <2>1 DEF TagInv, Accepted
  <2>3. ValidateTags(tags)'
    BY <2>1, ValidKept DEF TagInv
  <2> QED
    BY <2>1, <2>2, <2>3 DEF TagInv
<1>n. CASE ReadNodeInfo
  BY <1>n, Aside DEF TagInv, ReadNodeInfo, Accepted
<1>o. CASE UpdateNodeInfo
  BY <1>o, Aside DEF TagInv, UpdateNodeInfo, Accepted
<1>p. CASE RunReturns
  BY <1>p, Aside DEF TagInv, RunReturns, Accepted
<1>q. CASE DestroyNode
  <2>1. /\ workload' = workload
        /\ tags' = tags /\ upc' = upc /\ change' = change /\ dropped' = dropped
        /\ hpc' = hpc /\ hreq' = hreq /\ mNodeInfoIsUpdating' = mNodeInfoIsUpdating
    BY <1>q DEF DestroyNode
  <2> QED
    BY <2>1 DEF TagInv, Accepted, Acceptable, Merged, ValidateTags
<1>r. CASE StopHttpServer
  BY <1>r, Aside DEF TagInv, StopHttpServer, Accepted
<1>s. CASE Tick
  BY <1>s, Aside DEF TagInv, Tick, Accepted
<1>t. CASE UNCHANGED vars
  BY <1>t, Aside DEF TagInv, vars, tagVars, Accepted
<1> QED
  BY <1>a, <1>b, <1>c, <1>d, <1>e, <1>f, <1>g, <1>h, <1>i, <1>j, <1>k, <1>l, <1>m,
     <1>n, <1>o, <1>p, <1>q, <1>r, <1>s, <1>t DEF Next
(* TagInv holds always; with it a change that was accepted is applied to the *)
(* tags it was checked against (updateTags, deleteTags and their threads).   *)
THEOREM TagInvariance == Spec => []TagInv
BY TagInit, TagKept, PTL DEF Spec

(* Whatever changes are requested at the same time, exclusive_team comes     *)
(* with exclusive_production and over_subscribe with exclusive_user.         *)
THEOREM TagsAlwaysConsistent == Spec => []TagsConsistent
<1>1. TagInv => TagsConsistent
  BY DEF TagInv, ValidateTags, IsNull, TagsConsistent
<1> QED
  BY <1>1, TagInvariance, PTL

(* No accepted change is thrown away by the second check in updateTagsProc   *)
(* or deleteTagsProc.                                                      *)
THEOREM AcceptedAlwaysApplied == Spec => []AcceptedApplied
<1>1. TagInv => AcceptedApplied
  BY DEF TagInv, AcceptedApplied
<1> QED
  BY <1>1, TagInvariance, PTL
-----------------------------------------------------------------------------
(* No change is under way while registerNode reads and writes the tags,       *)
(* unless one came early; from then on Consul is behind only until the update  *)
(* thread, which alone can make it so, has written.                          *)
ConsulInv ==
  /\ main \in {"register", "writing"} /\ ~early => ~mNodeInfoIsUpdating
  /\ main = "writing" /\ ~early => "registering" \notin stale
  /\ main \in {"running", "destroy", "joined"} /\ ~consulFailed /\ ~early
       => ("consul" \in stale => upc = "consul")

LEMMA ConsulAside ==
  ASSUME ConsulInv, UNCHANGED <<main, early, mNodeInfoIsUpdating, upc, stale, consulFailed>>
  PROVE  ConsulInv'
BY DEF ConsulInv

LEMMA ConsulKept == TagInv /\ ConsulInv /\ [Next]_vars => ConsulInv'
<1> SUFFICES ASSUME TagInv, ConsulInv, [Next]_vars PROVE ConsulInv'
  OBVIOUS
<1>1. ASSUME NEW r \in Reqs, NEW q \in workload, ReceiveGet(r, q) \/ Receive(r, q)
      PROVE  ConsulInv'
  BY <1>1, ConsulAside DEF ReceiveGet, Receive, tagVars, consulVars
<1>2. ASSUME NEW r \in Reqs, \/ HandleUnmapped(r) \/ Handle(r) \/ GetStatus(r)
                             \/ RefuseTags(r)
      PROVE  ConsulInv'
  BY <1>2, ConsulAside
     DEF HandleUnmapped, Handle, GetStatus, RefuseTags, tagVars, consulVars
<1>3. ASSUME NEW r \in Reqs, UpdateTags(r) PROVE ConsulInv'
  <2>1. /\ early' = (early \/ main \in {"register", "writing"})
        /\ UNCHANGED <<main, upc, stale, consulFailed>>
    BY <1>3 DEF UpdateTags, consulVars
  <2> QED
    BY <2>1 DEF ConsulInv
<1>4. ASSUME NEW r \in Reqs, JoinUpdateThread(r) \/ AssignUpdateThread(r)
      PROVE  ConsulInv'
  BY <1>4, ConsulAside DEF JoinUpdateThread, AssignUpdateThread, consulVars
<1>5. ASSUME NEW r \in Reqs, LaunchUpdate(r) PROVE ConsulInv'
  <2>1. /\ hpc[r] = "launch"
        /\ UNCHANGED <<main, early, mNodeInfoIsUpdating, stale, consulFailed>>
    BY <1>5 DEF LaunchUpdate, GoTo, consulVars
  <2>2. upc = "none"
    BY <2>1 DEF TagInv, Accepted
  <2> QED
    BY <2>1, <2>2 DEF ConsulInv
<1>6. CASE ApplyChange
  <2>1. upc = "apply" /\ Acceptable(change) /\ mNodeInfoIsUpdating
    BY <1>6 DEF ApplyChange, UpdaterGoesTo, TagInv
  <2>2. upc' = "consul" /\ UNCHANGED <<main, early, mNodeInfoIsUpdating, consulFailed>>
    BY <1>6, <2>1 DEF ApplyChange, UpdaterGoesTo
  <2> QED
    BY <2>1, <2>2 DEF ConsulInv
<1>7. CASE WriteConsul
  <2>1. /\ upc = "consul" /\ mNodeInfoIsUpdating
        /\ UNCHANGED <<main, early, mNodeInfoIsUpdating>>
        /\ consulFailed' \/ "consul" \notin stale'
    BY <1>7 DEF WriteConsul, UpdaterGoesTo, TagInv
  <2> QED
    BY <2>1 DEF ConsulInv
<1>8. CASE EndUpdate
  <2>1. /\ upc = "clear" /\ ~mNodeInfoIsUpdating'
        /\ UNCHANGED <<main, early, stale, consulFailed>>
    BY <1>8 DEF EndUpdate, UpdaterGoesTo, consulVars
  <2> QED
    BY <2>1 DEF ConsulInv
<1>9. CASE ReadNodeInfo
  BY <1>9 DEF ReadNodeInfo, MainGoesTo, tagVars, ConsulInv
<1>10. CASE UpdateNodeInfo
  <2>1. /\ main = "writing" /\ main' \in {"running", "destroy"}
        /\ consulFailed' \/ stale' = Overwritten
        /\ UNCHANGED <<early, upc, mNodeInfoIsUpdating>>
    BY <1>10 DEF UpdateNodeInfo, MainGoesTo, tagVars
  <2>2. ~early => ("consul" \in Overwritten => FALSE)
    BY <2>1 DEF ConsulInv, Overwritten
  <2> QED
    BY <2>1, <2>2 DEF ConsulInv
<1>11. CASE RunReturns \/ DestroyNode \/ StopHttpServer
  BY <1>11 DEF RunReturns, DestroyNode, StopHttpServer, MainGoesTo, tagVars, consulVars,
               ConsulInv
<1>12. CASE Tick \/ UNCHANGED vars
  BY <1>12, ConsulAside DEF Tick, vars, tagVars, consulVars
<1> QED
  BY <1>1, <1>2, <1>3, <1>4, <1>5, <1>6, <1>7, <1>8, <1>9, <1>10, <1>11, <1>12 DEF Next

(* When no change is under way Consul has the tags of the node, whatever        *)
(* changes raced since registerNode, unless the last write failed or a change   *)
(* came before registerNode had written.                                     *)
THEOREM ConsulAlwaysAgrees == Spec => []ConsulAgrees
<1>1. Init => ConsulInv
  BY DEF Init, ConsulInv
<1>2. TagInv /\ ConsulInv => ConsulAgrees
  BY DEF TagInv, ConsulInv, ConsulAgrees
<1> QED
  BY <1>1, <1>2, TagInit, TagKept, ConsulKept, PTL DEF Spec
-----------------------------------------------------------------------------
(* The GET requests of an address that were let in and are not answered yet:   *)
(* each may still count against it.                                         *)
LetIn(a) ==
  {r \in Reqs : hpc[r] = "route" /\ hreq[r].method = "GET" /\ hreq[r].addr = a}

(* A count never exceeds what the requests that are let in can bring it to:   *)
(* isBanned lets none in when it has reached CountToBan.                     *)
Bounded(a) == mBanListMap[a].count + Cardinality(LetIn(a)) <= CountToBan + Cardinality(Reqs)
CountInv == \A a \in Addrs : Bounded(a)

Entries == [count : Nat, age : 0..MaxAge]

(* A thread that is not idle has a request, and what the update thread applies *)
(* is the change of one.                                                    *)
StateInv ==
  /\ workload \in Workloads
  /\ main \in {"register", "writing", "running", "destroy", "joined", "exited"}
  /\ stale \subseteq Copies
  /\ tags \in [Tag -> TagValue]
  /\ hpc \in [Reqs -> {"idle", "route", "join", "launch", "assign"}]
  /\ hreq \in [Reqs -> Requests \cup {NoOne}]
  /\ \A r \in Reqs : hpc[r] # "idle" => hreq[r] \in Requests
  /\ mNodeInfoUpdateThread \in Reqs \cup {NoOne}
  /\ updater \in Reqs \cup {NoOne}
  /\ upc \in {"none", "apply", "consul", "clear"}
  /\ upc = "apply" => \A t \in DOMAIN change : change[t] \in TagValue

FlagInv ==
  /\ mNodeInfoIsUpdating \in BOOLEAN /\ aborted \in BOOLEAN
  /\ dropped \in BOOLEAN /\ consulFailed \in BOOLEAN /\ early \in BOOLEAN

EntryInv ==
  /\ mBanListMap \in [Addrs -> Entries]
  /\ misses \in [Addrs -> 0..CountToBan]

LEMMA FlagKept == FlagInv /\ [Next]_vars => FlagInv'
<1> SUFFICES ASSUME FlagInv, [Next]_vars PROVE FlagInv'
  OBVIOUS
<1> USE DEF FlagInv, tagVars, consulVars
<1>1. ASSUME NEW r \in Reqs, NEW q \in workload, ReceiveGet(r, q) \/ Receive(r, q)
      PROVE  FlagInv'
  BY <1>1 DEF ReceiveGet, Receive
<1>2. ASSUME NEW r \in Reqs, \/ HandleUnmapped(r) \/ Handle(r) \/ GetStatus(r)
                             \/ RefuseTags(r) \/ JoinUpdateThread(r) \/ LaunchUpdate(r)
      PROVE  FlagInv'
  BY <1>2 DEF HandleUnmapped, Handle, GetStatus, RefuseTags, JoinUpdateThread, LaunchUpdate
<1>3. ASSUME NEW r \in Reqs, UpdateTags(r) PROVE FlagInv'
  BY <1>3, Zenon DEF UpdateTags
<1>4. ASSUME NEW r \in Reqs, AssignUpdateThread(r) PROVE FlagInv'
  BY <1>4, Zenon DEF AssignUpdateThread
<1>5. CASE ApplyChange
  BY <1>5, Zenon DEF ApplyChange
<1>6. CASE WriteConsul
  BY <1>6, Zenon DEF WriteConsul
<1>7. CASE EndUpdate
  BY <1>7, Zenon DEF EndUpdate
<1>8. CASE UpdateNodeInfo
  BY <1>8, Zenon DEF UpdateNodeInfo
<1>9. CASE StopHttpServer
  BY <1>9, Zenon DEF StopHttpServer
<1>10. CASE ReadNodeInfo \/ RunReturns \/ DestroyNode \/ Tick \/ UNCHANGED vars
  BY <1>10 DEF ReadNodeInfo, RunReturns, DestroyNode, Tick, vars
<1> QED
  BY <1>1, <1>2, <1>3, <1>4, <1>5, <1>6, <1>7, <1>8, <1>9, <1>10 DEF Next

LEMMA StateKept == StateInv /\ [Next]_vars => StateInv'
<1> SUFFICES ASSUME StateInv, [Next]_vars PROVE StateInv'
  OBVIOUS
<1> USE DEF StateInv, GoTo, Done
<1>0. ASSUME NEW q \in workload PROVE q \in Requests
  BY <1>0 DEF Requests
<1>1. ASSUME NEW r \in Reqs, NEW q \in workload, ReceiveGet(r, q) PROVE StateInv'
  <2>1. UNCHANGED <<workload, main, tagVars, consulVars>>
        /\ \/ hpc' = [hpc EXCEPT ![r] = "idle"] /\ hpc[r] = "idle" /\ hreq' = hreq
           \/ hpc' = [hpc EXCEPT ![r] = "route"] /\ hreq' = [hreq EXCEPT ![r] = q]
    BY <1>1 DEF ReceiveGet
  <2> QED
    BY <1>0, <2>1 DEF tagVars, consulVars
<1>2. ASSUME NEW r \in Reqs, NEW q \in workload, Receive(r, q) PROVE StateInv'
  BY <1>0, <1>2 DEF Receive, tagVars, consulVars
<1>3. ASSUME NEW r \in Reqs, \/ HandleUnmapped(r) \/ Handle(r) \/ GetStatus(r)
                             \/ RefuseTags(r)
      PROVE  StateInv'
  <2>1. /\ UNCHANGED <<workload, main, tagVars, consulVars>>
        /\ hpc' = [hpc EXCEPT ![r] = "idle"] /\ hreq' = [hreq EXCEPT ![r] = NoOne]
    BY <1>3 DEF HandleUnmapped, Handle, GetStatus, RefuseTags
  <2> QED
    BY <2>1 DEF tagVars, consulVars
<1>4. ASSUME NEW r \in Reqs, UpdateTags(r) PROVE StateInv'
  BY <1>4 DEF UpdateTags, consulVars
<1>5. ASSUME NEW r \in Reqs, JoinUpdateThread(r) PROVE StateInv'
  BY <1>5 DEF JoinUpdateThread, consulVars
<1>6. ASSUME NEW r \in Reqs, LaunchUpdate(r) PROVE StateInv'
  <2>1. hreq[r] \in Requests /\ change' = hreq[r].change
    BY <1>6 DEF LaunchUpdate
  <2>2. \A t \in DOMAIN change' : change'[t] \in TagValue
    BY <2>1, RequestChanges
  <2> QED
    BY <1>6, <2>2 DEF LaunchUpdate, consulVars
<1>7. ASSUME NEW r \in Reqs, AssignUpdateThread(r) PROVE StateInv'
  BY <1>7 DEF AssignUpdateThread, consulVars
<1>8. CASE ApplyChange
  <2>1. /\ upc = "apply" /\ upc' \in {"consul", "clear"}
        /\ tags' \in {tags, Merged(change)} /\ stale' \in {stale, Copies}
        /\ UNCHANGED <<workload, main, hpc, hreq, mNodeInfoUpdateThread, updater, change>>
    BY <1>8 DEF ApplyChange, UpdaterGoesTo
  <2>2. Merged(change) \in [Tag -> TagValue]
    BY <2>1 DEF Merged
  <2> QED
    BY <2>1, <2>2
<1>9. CASE WriteConsul
  BY <1>9 DEF WriteConsul, UpdaterGoesTo
<1>10. CASE EndUpdate
  BY <1>10 DEF EndUpdate, UpdaterGoesTo, consulVars
<1>11. CASE ReadNodeInfo
  BY <1>11 DEF ReadNodeInfo, MainGoesTo, tagVars
<1>12. CASE UpdateNodeInfo
  <2>1. /\ main' \in {"running", "destroy"} /\ stale' \in {stale, Overwritten}
        /\ UNCHANGED <<workload, hpc, hreq, tagVars>>
    BY <1>12 DEF UpdateNodeInfo, MainGoesTo
  <2>2. Overwritten \subseteq Copies
    BY DEF Overwritten, Copies
  <2> QED
    BY <2>1, <2>2 DEF tagVars
<1>13. CASE RunReturns \/ DestroyNode \/ StopHttpServer
  BY <1>13 DEF RunReturns, DestroyNode, StopHttpServer, MainGoesTo, tagVars, consulVars
<1>14. CASE Tick \/ UNCHANGED vars
  BY <1>14 DEF Tick, vars, tagVars, consulVars
<1> QED
  BY <1>1, <1>2, <1>3, <1>4, <1>5, <1>6, <1>7, <1>8, <1>9, <1>10, <1>11, <1>12, <1>13,
     <1>14 DEF Next

LEMMA NoEntryCounts == NoEntry.count = 0
BY DEF NoEntry

(* The entries that a step leaves are well formed; only a tracked request adds  *)
(* to a count, or isBanned when the count is CountToBan.                      *)
LEMMA CheckedIsEntry ==
  ASSUME NEW e \in Entries
  PROVE  /\ Checked(e) \in Entries
         /\ \/ Checked(e).count <= e.count
            \/ e.count = CountToBan /\ Checked(e).count = CountToBan + 1
<1>1. CountToBan \in Nat /\ 0 \in 0..MaxAge
  BY ServiceConstants DEF MaxAge
<1>2. NoEntry \in Entries /\ NoEntry.count = 0
  BY <1>1 DEF NoEntry, Entries
<1>3. CASE HasExpired(e)
  BY <1>2, <1>3 DEF Checked, Entries
<1>4. CASE ~HasExpired(e) /\ e.count = CountToBan
  <2>1. Checked(e) = [count |-> e.count + 1, age |-> 0]
    BY <1>4 DEF Checked
  <2> QED
    BY <1>1, <1>4, <2>1 DEF Entries
<1>5. CASE ~HasExpired(e) /\ e.count # CountToBan
  BY <1>5 DEF Checked, Entries
<1> QED
  BY <1>3, <1>4, <1>5

(* Time passes for an entry up to MaxAge. *)
LEMMA AgedIsEntry ==
  ASSUME NEW e \in Entries, ~HasExpired(e)
  PROVE  [e EXCEPT !.age = @ + 1] \in Entries /\ [e EXCEPT !.age = @ + 1].count = e.count
BY ServiceConstants DEF Entries, HasExpired, MaxAge

LEMMA EntryKept == EntryInv /\ [Next]_vars => EntryInv'
<1> SUFFICES ASSUME EntryInv, [Next]_vars PROVE EntryInv'
  OBVIOUS
<1>c. CountToBan \in Nat /\ NoEntry \in Entries
  BY ServiceConstants DEF NoEntry, Entries, MaxAge
<1>1. ASSUME NEW r \in Reqs, NEW q \in workload, ReceiveGet(r, q) PROVE EntryInv'
  <2>1. /\ misses' = misses
        /\ mBanListMap' = [a \in Addrs |->
             IF a = q.addr THEN IF q.addr = NoAddr THEN NoEntry ELSE Checked(mBanListMap[a])
             ELSE mBanListMap[a]]
    BY <1>1 DEF ReceiveGet
  <2>2. \A a \in Addrs : mBanListMap[a] \in Entries /\ Checked(mBanListMap[a]) \in Entries
    BY CheckedIsEntry DEF EntryInv
  <2> QED
    BY <1>c, <2>1, <2>2 DEF EntryInv
<1>2. ASSUME NEW r \in Reqs, HandleUnmapped(r) PROVE EntryInv'
  <2>1. CASE UNCHANGED banVars
    BY <2>1 DEF banVars, EntryInv
  <2>2. CASE hreq[r].method = "GET" /\ hreq[r].addr # NoAddr
    <3>1. PICK b : b = hreq[r].addr
      OBVIOUS
    <3>2. /\ mBanListMap' = [mBanListMap EXCEPT ![b] = [count |-> @.count + 1, age |-> 0]]
          /\ misses' = [misses EXCEPT ![b] =
                          IF Supported(hreq[r]) \/ @ = CountToBan THEN @ ELSE @ + 1]
      BY <1>2, <2>2, <3>1 DEF HandleUnmapped, Track
    <3>3. ASSUME NEW a \in Addrs
          PROVE  [count |-> mBanListMap[a].count + 1, age |-> 0] \in Entries
      BY ServiceConstants DEF EntryInv, Entries, MaxAge
    <3>4. ASSUME NEW n \in 0..CountToBan
          PROVE  (IF Supported(hreq[r]) \/ n = CountToBan THEN n ELSE n + 1)
                   \in 0..CountToBan
      BY <1>c
    <3>5. mBanListMap' \in [Addrs -> Entries]
      BY <3>2, <3>3 DEF EntryInv
    <3>6. misses' \in [Addrs -> 0..CountToBan]
      BY <3>2, <3>4 DEF EntryInv
    <3> QED
      BY <3>5, <3>6 DEF EntryInv
  <2> QED
    BY <1>2, <2>1, <2>2 DEF HandleUnmapped
<1>3. ASSUME NEW r \in Reqs, GetStatus(r) PROVE EntryInv'
  BY <1>3, <1>c DEF GetStatus, Cleanup, EntryInv
<1>4. CASE Tick
  <2>1. \A a \in Addrs : /\ mBanListMap[a] \in Entries
                         /\ \/ HasExpired(mBanListMap[a])
                            \/ [mBanListMap[a] EXCEPT !.age = @ + 1] \in Entries
    BY AgedIsEntry DEF EntryInv
  <2> QED
    BY <1>4, <2>1 DEF Tick, EntryInv
<1>5. ASSUME NEW r \in Reqs,
             \/ \E q \in workload : Receive(r, q)
             \/ Handle(r) \/ RefuseTags(r) \/ UpdateTags(r) \/ JoinUpdateThread(r)
             \/ LaunchUpdate(r) \/ AssignUpdateThread(r)
      PROVE  UNCHANGED banVars
  BY <1>5 DEF Receive, Handle, RefuseTags, UpdateTags, JoinUpdateThread, LaunchUpdate,
              AssignUpdateThread
<1>6. CASE \/ ApplyChange \/ WriteConsul \/ EndUpdate \/ ReadNodeInfo \/ UpdateNodeInfo
           \/ RunReturns \/ DestroyNode \/ StopHttpServer \/ UNCHANGED vars
  BY <1>6 DEF ApplyChange, WriteConsul, EndUpdate, ReadNodeInfo, UpdateNodeInfo,
              RunReturns, DestroyNode, StopHttpServer, vars, banVars, EntryInv
<1>7. UNCHANGED banVars => EntryInv'
  BY DEF banVars, EntryInv
<1> QED
  BY <1>1, <1>2, <1>3, <1>4, <1>5, <1>6, <1>7 DEF Next

(* Finite sets of requests, and their sizes. *)
LEMMA LetInSize ==
  ASSUME NEW a
  PROVE  /\ IsFiniteSet(LetIn(a)) /\ Cardinality(LetIn(a)) \in Nat
         /\ Cardinality(Reqs) \in Nat /\ CountToBan \in Nat
         /\ Cardinality(LetIn(a)) <= Cardinality(Reqs)
<1>1. LetIn(a) \in SUBSET Reqs /\ IsFiniteSet(Reqs) /\ CountToBan \in Nat
  BY ServiceConstants DEF LetIn
<1>2. IsFiniteSet(LetIn(a)) /\ Cardinality(LetIn(a)) <= Cardinality(Reqs)
  BY <1>1, FS_Subset
<1> QED
  BY <1>1, <1>2, FS_CardinalityType

(* A thread that is not among those let in leaves room for itself. *)
LEMMA RoomFor ==
  ASSUME NEW a, NEW r \in Reqs, r \notin LetIn(a)
  PROVE  /\ Cardinality(LetIn(a) \cup {r}) = Cardinality(LetIn(a)) + 1
         /\ Cardinality(LetIn(a)) + 1 <= Cardinality(Reqs)
<1>1. IsFiniteSet(LetIn(a)) /\ IsFiniteSet(Reqs)
  BY LetInSize, ServiceConstants
<1>2. Cardinality(LetIn(a) \cup {r}) = Cardinality(LetIn(a)) + 1
  BY <1>1, FS_AddElement
<1>3. LetIn(a) \cup {r} \in SUBSET Reqs
  BY DEF LetIn
<1>4. Cardinality(LetIn(a) \cup {r}) <= Cardinality(Reqs)
  BY <1>1, <1>3, FS_Subset
<1> QED
  BY <1>2, <1>4

(* Where no request is let in and no count grows, the bound stays. *)
LEMMA CountAside ==
  ASSUME EntryInv, EntryInv', CountInv,
         \A a \in Addrs : /\ mBanListMap'[a].count <= mBanListMap[a].count
                          /\ LetIn(a)' \subseteq LetIn(a)
  PROVE  CountInv'
<1> SUFFICES ASSUME NEW a \in Addrs
             PROVE  mBanListMap'[a].count + Cardinality(LetIn(a)')
                      <= CountToBan + Cardinality(Reqs)
  BY DEF CountInv, Bounded
<1>1. mBanListMap[a].count \in Nat /\ mBanListMap'[a].count \in Nat
  BY DEF EntryInv, Entries
<1>2. IsFiniteSet(LetIn(a)) /\ LetIn(a)' \in SUBSET LetIn(a)
  BY LetInSize
<1>3. IsFiniteSet(LetIn(a)') /\ Cardinality(LetIn(a)') <= Cardinality(LetIn(a))
  BY <1>2, FS_Subset
<1>4. Cardinality(LetIn(a)') \in Nat
  BY <1>3, FS_CardinalityType
<1>5. Bounded(a)
  BY DEF CountInv
<1> QED
  BY <1>1, <1>3, <1>4, <1>5, LetInSize DEF Bounded

LEMMA CountKept ==
  StateInv /\ EntryInv /\ EntryInv' /\ CountInv /\ [Next]_vars => CountInv'
<1> SUFFICES ASSUME StateInv, EntryInv, EntryInv', CountInv, [Next]_vars PROVE CountInv'
  OBVIOUS
<1>n. \A a \in Addrs : /\ mBanListMap[a].count \in Nat /\ mBanListMap'[a].count \in Nat
                       /\ mBanListMap[a] \in Entries /\ Bounded(a)
  BY DEF EntryInv, Entries, CountInv, Bounded
<1>i. ASSUME NEW r \in Reqs, hpc' = [hpc EXCEPT ![r] = "idle"],
             hreq' = [hreq EXCEPT ![r] = NoOne]
      PROVE  \A a : LetIn(a)' = LetIn(a) \ {r}
  BY <1>i DEF LetIn, StateInv
<1>1. ASSUME NEW r \in Reqs, NEW q \in workload, ReceiveGet(r, q) PROVE CountInv'
  <2> SUFFICES ASSUME NEW a \in Addrs PROVE Bounded(a)'
    BY DEF CountInv, Bounded
  <2>1. /\ q.method = "GET" /\ hpc[r] = "idle"
        /\ a = q.addr => mBanListMap'[a] = Checked(mBanListMap[a])
        /\ a # q.addr => mBanListMap'[a] = mBanListMap[a]
    BY <1>1, ServiceConstants DEF ReceiveGet, GoTo
  <2>2. /\ r \notin LetIn(a)
        /\ Cardinality(LetIn(a) \cup {r}) = Cardinality(LetIn(a)) + 1
        /\ Cardinality(LetIn(a)) + 1 <= Cardinality(Reqs)
    <3>1. r \notin LetIn(a)
      BY <2>1 DEF LetIn
    <3> QED
      BY <3>1, RoomFor
  <2>3. CASE a # q.addr
    <3>1. LetIn(a)' = LetIn(a)
      <4>1. \/ hpc' = [hpc EXCEPT ![r] = "idle"] /\ hreq' = hreq
            \/ hpc' = [hpc EXCEPT ![r] = "route"] /\ hreq' = [hreq EXCEPT ![r] = q]
        BY <1>1 DEF ReceiveGet, GoTo
      <4> QED
        BY <2>1, <2>3, <4>1 DEF LetIn, StateInv
    <3> QED
      BY <1>n, <2>1, <2>3, <3>1 DEF Bounded
  <2>4. CASE a = q.addr /\ mBanListMap'[a].count >= CountToBan
    <3>1. hpc' = [hpc EXCEPT ![r] = "idle"] /\ hreq' = hreq
      BY <1>1, <2>1, <2>4, ServiceConstants DEF ReceiveGet, GoTo, Refused
    <3>2. LetIn(a)' = LetIn(a)
      BY <2>1, <3>1 DEF LetIn, StateInv
    <3>3. \/ mBanListMap'[a].count <= mBanListMap[a].count
          \/ mBanListMap'[a].count = CountToBan + 1
      BY <1>n, <2>1, <2>4, CheckedIsEntry
    <3> QED
      BY <1>n, <2>2, <3>2, <3>3, LetInSize DEF Bounded
  <2>5. CASE a = q.addr /\ ~(mBanListMap'[a].count >= CountToBan)
    <3>1. hpc' = [hpc EXCEPT ![r] = "route"] /\ hreq' = [hreq EXCEPT ![r] = q]
      BY <1>1, <2>1, <2>5, ServiceConstants DEF ReceiveGet, GoTo, Refused
    <3>2. LetIn(a)' = LetIn(a) \cup {r}
      BY <2>1, <2>5, <3>1 DEF LetIn, StateInv
    <3> QED
      BY <1>n, <2>2, <2>5, <3>2, LetInSize DEF Bounded
  <2> QED
    BY <2>3, <2>4, <2>5
<1>2. ASSUME NEW r \in Reqs, HandleUnmapped(r) PROVE CountInv'
  <2>1. /\ hpc[r] = "route" /\ hpc' = [hpc EXCEPT ![r] = "idle"]
        /\ hreq' = [hreq EXCEPT ![r] = NoOne]
    BY <1>2 DEF HandleUnmapped, GoTo, Done
  <2>2. \A a : LetIn(a)' = LetIn(a) \ {r}
    BY <1>i, <2>1
  <2>3. CASE UNCHANGED banVars
    BY <1>n, <2>2, <2>3, CountAside DEF banVars
  <2>4. CASE hreq[r].method = "GET" /\ hreq[r].addr # NoAddr
    <3> SUFFICES ASSUME NEW a \in Addrs PROVE Bounded(a)'
      BY DEF CountInv, Bounded
    <3>1. /\ a = hreq[r].addr =>
               mBanListMap'[a] = [count |-> mBanListMap[a].count + 1, age |-> 0]
          /\ a # hreq[r].addr => mBanListMap'[a] = mBanListMap[a]
      BY <1>2, <2>4 DEF HandleUnmapped, Track, EntryInv
    <3>2. CASE a = hreq[r].addr
      <4>1. r \in LetIn(a) /\ mBanListMap'[a].count = mBanListMap[a].count + 1
        BY <2>1, <2>4, <3>1, <3>2 DEF LetIn
      <4>2. Cardinality(LetIn(a) \ {r}) = Cardinality(LetIn(a)) - 1
        BY <4>1, FS_RemoveElement, LetInSize
      <4>3. Cardinality(LetIn(a)') = Cardinality(LetIn(a)) - 1
        BY <2>2, <4>2
      <4>4. /\ Bounded(a) /\ mBanListMap[a].count \in Nat
            /\ Cardinality(LetIn(a)) \in Nat
            /\ Cardinality(Reqs) \in Nat /\ CountToBan \in Nat
        BY <1>n, LetInSize
      <4> QED
        BY <4>1, <4>3, <4>4 DEF Bounded
    <3>3. CASE a # hreq[r].addr
      <4>1. r \notin LetIn(a)
        BY <3>3 DEF LetIn
      <4>2. LetIn(a)' = LetIn(a)
        BY <2>2, <4>1
      <4> QED
        BY <1>n, <3>1, <3>3, <4>2 DEF Bounded
    <3> QED
      BY <3>2, <3>3
  <2> QED
    BY <1>2, <2>3, <2>4 DEF HandleUnmapped
<1>3. ASSUME NEW r \in Reqs, GetStatus(r) PROVE CountInv'
  <2>1. \A a : LetIn(a)' = LetIn(a) \ {r}
    BY <1>3, <1>i DEF GetStatus, GoTo, Done
  <2>2. \A a \in Addrs : mBanListMap'[a].count <= mBanListMap[a].count
    BY <1>3, <1>n, NoEntryCounts DEF GetStatus, Cleanup
  <2> QED
    BY <2>1, <2>2, CountAside
<1>4. CASE Tick
  <2>1. ASSUME NEW a \in Addrs PROVE mBanListMap'[a].count = mBanListMap[a].count
    BY <1>4, <1>n, AgedIsEntry DEF Tick
  <2>2. \A a : LetIn(a)' = LetIn(a)
    BY <1>4 DEF Tick, LetIn
  <2> QED
    BY <1>n, <2>1, <2>2, CountAside
<1>5. ASSUME NEW r \in Reqs,
             \/ \E q \in workload : Receive(r, q)
             \/ Handle(r) \/ RefuseTags(r) \/ UpdateTags(r) \/ JoinUpdateThread(r)
             \/ LaunchUpdate(r) \/ AssignUpdateThread(r)
      PROVE  CountInv'
  <2>1. mBanListMap' = mBanListMap
    BY <1>5 DEF Receive, Handle, RefuseTags, UpdateTags, JoinUpdateThread, LaunchUpdate,
                AssignUpdateThread, banVars
  <2>2. CASE \E q \in workload : Receive(r, q)
    <3>1. PICK q \in workload : Receive(r, q)
      BY <2>2
    <3>2. \A a : LetIn(a)' \subseteq LetIn(a)
      BY <3>1 DEF Receive, GoTo, LetIn, StateInv
    <3> QED
      BY <1>n, <2>1, <3>2, CountAside
  <2>3. CASE Handle(r) \/ RefuseTags(r) \/ AssignUpdateThread(r)
    <3>1. \A a : LetIn(a)' = LetIn(a) \ {r}
      BY <1>i, <2>3 DEF Handle, RefuseTags, AssignUpdateThread, GoTo, Done
    <3> QED
      BY <1>n, <2>1, <3>1, CountAside
  <2>4. CASE UpdateTags(r) \/ JoinUpdateThread(r) \/ LaunchUpdate(r)
    <3>1. \A a : LetIn(a)' \subseteq LetIn(a)
      BY <2>4 DEF UpdateTags, JoinUpdateThread, LaunchUpdate, GoTo, LetIn, StateInv
    <3> QED
      BY <1>n, <2>1, <3>1, CountAside
  <2> QED
    BY <1>5, <2>2, <2>3, <2>4
<1>6. CASE \/ ApplyChange \/ WriteConsul \/ EndUpdate \/ ReadNodeInfo \/ UpdateNodeInfo
           \/ RunReturns \/ DestroyNode \/ StopHttpServer \/ UNCHANGED vars
  <2>1. UNCHANGED <<mBanListMap, hpc, hreq>>
    BY <1>6 DEF ApplyChange, WriteConsul, EndUpdate, ReadNodeInfo, UpdateNodeInfo,
                RunReturns, DestroyNode, StopHttpServer, vars, banVars
  <2>2. \A a : LetIn(a)' = LetIn(a)
    BY <2>1 DEF LetIn
  <2> QED
    BY <1>n, <2>1, <2>2, CountAside
<1> QED
  BY <1>1, <1>2, <1>3, <1>4, <1>5, <1>6 DEF Next

LEMMA NodeInit == Init => StateInv /\ FlagInv /\ EntryInv /\ CountInv
<1> SUFFICES ASSUME Init PROVE StateInv /\ FlagInv /\ EntryInv /\ CountInv
  OBVIOUS
<1>1. tags \in [Tag -> TagValue]
  BY DEF Init, InitialTags, TagValue
<1>2. StateInv
  BY <1>1 DEF Init, StateInv, Copies
<1>3. FlagInv
  BY Zenon DEF Init, FlagInv
<1>4. EntryInv
  BY ServiceConstants DEF Init, EntryInv, Entries, NoEntry, MaxAge
<1>5. CountInv
  <2> SUFFICES ASSUME NEW a \in Addrs PROVE Bounded(a)
    BY DEF CountInv, Bounded
  <2>1. mBanListMap[a].count = 0
    BY NoEntryCounts DEF Init
  <2> QED
    BY <2>1, LetInSize DEF Bounded
<1> QED
  BY <1>2, <1>3, <1>4, <1>5

(* NodeService is type correct.  That the ban list counts no address past      *)
(* CountToBan and the number of HTTP threads says that a ban stops the counting  *)
(* but for the requests that were already let in.                            *)
THEOREM TypeCorrect == Spec => []TypeOK
<1>1. StateInv /\ FlagInv /\ EntryInv /\ CountInv => TypeOK
  <2> SUFFICES ASSUME StateInv, FlagInv, EntryInv, CountInv PROVE TypeOK
    OBVIOUS
  <2>1. ASSUME NEW a \in Addrs
        PROVE  mBanListMap[a] \in
                 [count : 0..CountToBan + Cardinality(Reqs), age : 0..MaxAge]
    <3>1. mBanListMap[a] \in Entries /\ Bounded(a)
      BY DEF EntryInv, CountInv, Bounded
    <3>2. mBanListMap[a].count \in 0..CountToBan + Cardinality(Reqs)
      BY <3>1, LetInSize DEF Entries, Bounded
    <3> QED
      BY <3>1, <3>2 DEF Entries
  <2>2. mBanListMap \in
          [Addrs -> [count : 0..CountToBan + Cardinality(Reqs), age : 0..MaxAge]]
    BY <2>1 DEF EntryInv
  <2> QED
    BY <2>2, Zenon DEF StateInv, FlagInv, EntryInv, TypeOK
<1> QED
  BY <1>1, NodeInit, FlagKept, StateKept, EntryKept, CountKept, PTL DEF Spec
-----------------------------------------------------------------------------
(* The routes of NodeService as sequences. *)
Methods == {"GET", "PUT", "POST", "DELETE"}

Words == {"node", "1", "health", "status", "sessions", "performance", "favicon.ico",
          "modify", "registration", "tags", "tag", "*"}

LEMMA RouteSequences ==
  ASSUME NEW m \in Methods, NEW route \in Routes[m]
  PROVE  route \in Seq(Words) /\ Len(route) \in 1..5
<1>1. CASE m = "GET"
  <2>1. /\ <<"node", "1", "health">> \in Seq(Words)
        /\ <<"node", "1", "status">> \in Seq(Words)
        /\ <<"node", "1", "sessions">> \in Seq(Words)
        /\ <<"node", "1", "sessions", "*", "status">> \in Seq(Words)
        /\ <<"node", "1", "sessions", "*", "performance">> \in Seq(Words)
        /\ <<"favicon.ico">> \in Seq(Words)
    BY DEF Words
  <2>2. route \in Seq(Words)
    BY <1>1, <2>1 DEF Routes
  <2>3. Len(route) \in 1..5
    BY <1>1 DEF Routes
  <2> QED
    BY <2>2, <2>3
<1>2. CASE m = "PUT"
  <2>1. /\ <<"sessions", "modify">> \in Seq(Words)
        /\ <<"node", "1", "sessions", "modify">> \in Seq(Words)
        /\ <<"sessions", "*", "status">> \in Seq(Words)
        /\ <<"node", "1", "sessions", "*", "status">> \in Seq(Words)
        /\ <<"registration">> \in Seq(Words) /\ <<"status">> \in Seq(Words)
        /\ <<"node", "tags">> \in Seq(Words)
    BY DEF Words
  <2>2. route \in Seq(Words)
    BY <1>2, <2>1 DEF Routes
  <2>3. Len(route) \in 1..5
    BY <1>2 DEF Routes
  <2> QED
    BY <2>2, <2>3
<1>3. CASE m = "POST"
  <2>1. <<"sessions">> \in Seq(Words) /\ <<"node", "1", "sessions">> \in Seq(Words)
    BY DEF Words
  <2>2. route \in Seq(Words)
    BY <1>3, <2>1 DEF Routes
  <2>3. Len(route) \in 1..5
    BY <1>3 DEF Routes
  <2> QED
    BY <2>2, <2>3
<1>4. CASE m = "DELETE"
  <2>1. /\ <<"sessions", "*">> \in Seq(Words)
        /\ <<"node", "1", "sessions", "*">> \in Seq(Words)
        /\ <<"node", "tag", "*">> \in Seq(Words) /\ <<"node", "tags">> \in Seq(Words)
    BY DEF Words
  <2>2. route \in Seq(Words)
    BY <1>4, <2>1 DEF Routes
  <2>3. Len(route) \in 1..5
    BY <1>4 DEF Routes
  <2> QED
    BY <2>2, <2>3
<1> QED
  BY <1>1, <1>2, <1>3, <1>4 DEF Methods

(* In no router a variable element has a constant one beside it, except for   *)
(* "modify".                                                               *)
LEMMA Siblings ==
  ASSUME NEW m \in Methods, NEW route \in Routes[m], NEW s \in Routes[m],
         NEW i \in 1..Len(route), i <= Len(s), route[i] = "*",
         \A j \in 1..(i - 1) : s[j] = route[j]
  PROVE  s[i] \in {"*", "modify"}
<1>1. CASE m = "GET"
  BY <1>1 DEF Routes
<1>2. CASE m = "PUT"
  BY <1>2 DEF Routes
<1>3. CASE m = "POST"
  BY <1>3 DEF Routes
<1>4. CASE m = "DELETE"
  BY <1>4 DEF Routes
<1> QED
  BY <1>1, <1>2, <1>3, <1>4 DEF Methods

(* The elements of a node of the tree are those of the routes below it. *)
LEMMA PrefixElements ==
  ASSUME NEW route \in Seq(Words), NEW s \in Seq(Words), NEW i \in 1..Len(route), NEW e,
         IsPrefix(Append(SubSeq(route, 1, i - 1), e), s)
  PROVE  /\ i <= Len(s) /\ s[i] = e
         /\ \A j \in 1..(i - 1) : s[j] = route[j]
<1> DEFINE p == Append(SubSeq(route, 1, i - 1), e)
<1>1. /\ Len(p) = i /\ p[i] = e
      /\ \A j \in 1..(i - 1) : p[j] = route[j]
  OBVIOUS
<1>2. i <= Len(s) /\ SubSeq(p, 1, i) = SubSeq(s, 1, i)
  BY <1>1 DEF IsPrefix
<1>3. \A j \in 1..i : SubSeq(p, 1, i)[j] = p[j] /\ SubSeq(s, 1, i)[j] = s[j]
  BY <1>1, <1>2
<1> QED
  BY <1>1, <1>2, <1>3

(* From a node on the way to a route, an element that fits the route's leads   *)
(* to the next node on that way.                                            *)
LEMMA ChildOnWay ==
  ASSUME NEW m \in Methods, NEW route \in Routes[m], NEW i \in 1..Len(route), NEW e,
         route[i] = e \/ (route[i] = "*" /\ e # "modify")
  PROVE  Child(m, SubSeq(route, 1, i - 1), e) = SubSeq(route, 1, i)
<1>1. route \in Seq(Words) /\ \A s \in Routes[m] : s \in Seq(Words)
  BY RouteSequences
<1>2. Append(SubSeq(route, 1, i - 1), route[i]) = SubSeq(route, 1, i)
  BY <1>1
<1>3. InTree(m, SubSeq(route, 1, i))
  <2>1. IsPrefix(SubSeq(route, 1, i), route)
    BY <1>1 DEF IsPrefix
  <2> QED
    BY <2>1 DEF InTree
<1>4. CASE route[i] = e
  BY <1>2, <1>3, <1>4 DEF Child
<1>5. CASE route[i] = "*" /\ e # "*" /\ e # "modify"
  <2>1. ASSUME InTree(m, Append(SubSeq(route, 1, i - 1), e)) PROVE FALSE
    <3>1. PICK s \in Routes[m] : IsPrefix(Append(SubSeq(route, 1, i - 1), e), s)
      BY <2>1 DEF InTree
    <3>2. i <= Len(s) /\ s[i] = e /\ \A j \in 1..(i - 1) : s[j] = route[j]
      BY <1>1, <3>1, PrefixElements
    <3> QED
      BY <1>5, <3>2, Siblings
  <2> QED
    BY <1>2, <1>3, <1>5, <2>1 DEF Child
<1> QED
  BY <1>4, <1>5

(* Functions that agree at 0 and step alike agree at the length of a route.  *)
LEMMA FiveSteps ==
  ASSUME NEW n \in 1..5, NEW f, NEW g, f[0] = g[0],
         \A i \in 1..n : f[i - 1] = g[i - 1] => f[i] = g[i]
  PROVE  f[n] = g[n]
<1>1. f[1] = g[1]
  OBVIOUS
<1>2. n >= 2 => f[2] = g[2]
  BY <1>1
<1>3. n >= 3 => f[3] = g[3]
  BY <1>2
<1>4. n >= 4 => f[4] = g[4]
  BY <1>3
<1>5. n >= 5 => f[5] = g[5]
  BY <1>4
<1> QED
  BY <1>1, <1>2, <1>3, <1>4, <1>5

(* Node::handle as a recursive function: its equation has the nodes on the way  *)
(* to the route as a solution, and for the lengths of the routes no other.     *)
LEMMA WayTaken ==
  ASSUME NEW m, NEW path, NEW route \in Seq(Words),
         Len(path) = Len(route), Len(route) \in 1..5,
         \A i \in 1..Len(route) :
           Child(m, SubSeq(route, 1, i - 1), path[i]) = SubSeq(route, 1, i)
  PROVE  Route(m, path) = route
<1> DEFINE Way(f) == f = [i \in 0..Len(path) |->
                            IF i = 0 THEN <<>> ELSE Child(m, f[i - 1], path[i])]
           g == [i \in 0..Len(path) |-> SubSeq(route, 1, i)]
<1>1. Way(g)
  <2>1. ASSUME NEW i \in 0..Len(path)
        PROVE  g[i] = IF i = 0 THEN <<>> ELSE Child(m, g[i - 1], path[i])
    <3>1. CASE i = 0
      BY <3>1
    <3>2. CASE i # 0
      <4>1. i \in 1..Len(route) /\ i - 1 \in 0..Len(path)
        BY <3>2
      <4>2. g[i] = SubSeq(route, 1, i) /\ g[i - 1] = SubSeq(route, 1, i - 1)
        BY <4>1
      <4>3. Child(m, SubSeq(route, 1, i - 1), path[i]) = SubSeq(route, 1, i)
        BY <4>1
      <4> HIDE DEF g
      <4> QED
        BY <3>2, <4>2, <4>3
    <3> QED
      BY <3>1, <3>2
  <2> QED
    BY <2>1
<1>2. PICK f : Way(f) /\ Route(m, path) = f[Len(path)]
  <2> DEFINE F == CHOOSE f : Way(f)
  <2>1. Way(F)
    BY <1>1
  <2>2. Route(m, path) = F[Len(path)]
    BY DEF Route
  <2> QED
    BY <2>1, <2>2
<1>d. \A i \in 0..Len(route) : f[i] = IF i = 0 THEN <<>> ELSE Child(m, f[i - 1], path[i])
  BY <1>2, Zenon
<1>3. f[0] = g[0]
  <2>1. f[0] = <<>>
    BY <1>d
  <2> QED
    BY <2>1
<1>4. ASSUME NEW i \in 1..Len(route), f[i - 1] = g[i - 1] PROVE f[i] = g[i]
  <2>1. f[i] = Child(m, f[i - 1], path[i])
    BY <1>d
  <2>2. g[i] = SubSeq(route, 1, i) /\ g[i - 1] = SubSeq(route, 1, i - 1)
    OBVIOUS
  <2> QED
    BY <1>4, <2>1, <2>2
<1> HIDE DEF g
<1>5. f[Len(route)] = g[Len(route)]
  BY <1>3, <1>4, FiveSteps
<1>6. g[Len(route)] = route
  BY DEF g
<1> QED
  BY <1>2, <1>5, <1>6

LEMMA RouteFound ==
  ASSUME NEW m \in Methods, NEW route \in Routes[m], NEW path, Fits(path, route)
  PROVE  Route(m, path) = route
<1>1. route \in Seq(Words) /\ Len(route) \in 1..5 /\ Len(path) = Len(route)
  BY RouteSequences DEF Fits
<1>2. ASSUME NEW i \in 1..Len(route)
      PROVE  Child(m, SubSeq(route, 1, i - 1), path[i]) = SubSeq(route, 1, i)
  BY ChildOnWay DEF Fits
<1> QED
  BY <1>1, <1>2, WayTaken

(* Whatever requests arrive, one that fits a declared route is given to that     *)
(* route: no constant element of a router takes a path away from a variable one. *)
THEOREM SupportedAlwaysMapped == Spec => []SupportedPathsMapped
<1>1. StateInv => SupportedPathsMapped
  <2> SUFFICES ASSUME StateInv, NEW r \in Reqs, hpc[r] = "route", Supported(hreq[r])
               PROVE  Mapped(hreq[r]) /\ Fits(hreq[r].path, Handler(hreq[r]))
    BY DEF SupportedPathsMapped
  <2>1. hreq[r].method \in Methods
    BY RequestMethods DEF StateInv, Routes, Methods
  <2>2. PICK route \in Routes[hreq[r].method] : Fits(hreq[r].path, route)
    BY DEF Supported
  <2>3. Handler(hreq[r]) = route
    BY <2>1, <2>2, RouteFound DEF Handler
  <2> QED
    BY <2>2, <2>3 DEF Mapped
<1> QED
  BY <1>1, NodeInit, StateKept, PTL DEF Spec
-----------------------------------------------------------------------------
(* An address has at most the count that it deserves, or has deserved a ban.  *)
BanInv ==
  \A a \in Addrs : mBanListMap[a].count <= misses[a] \/ misses[a] = CountToBan

LEMMA BanKept ==
  SupportedPathsMapped /\ EntryInv /\ EntryInv' /\ BanInv /\ [Next]_vars => BanInv'
<1> SUFFICES ASSUME SupportedPathsMapped, EntryInv, EntryInv', BanInv, [Next]_vars
             PROVE  BanInv'
  OBVIOUS
<1>n. ASSUME NEW a \in Addrs
      PROVE  /\ mBanListMap[a] \in Entries
             /\ mBanListMap[a].count \in Nat /\ mBanListMap'[a].count \in Nat
             /\ misses[a] \in 0..CountToBan /\ CountToBan \in Nat
             /\ mBanListMap[a].count <= misses[a] \/ misses[a] = CountToBan
  BY ServiceConstants DEF EntryInv, Entries, BanInv
<1>f. ASSUME misses' = misses,
             \A a \in Addrs : \/ mBanListMap'[a].count <= mBanListMap[a].count
                              \/ mBanListMap[a].count = CountToBan
      PROVE  BanInv'
  BY <1>f, <1>n DEF BanInv
<1>1. ASSUME NEW r \in Reqs, NEW q \in workload, ReceiveGet(r, q) PROVE BanInv'
  <2>1. misses' = misses
    BY <1>1 DEF ReceiveGet
  <2>2. ASSUME NEW a \in Addrs
        PROVE  mBanListMap'[a] \in {mBanListMap[a], Checked(mBanListMap[a])}
    BY <1>1, ServiceConstants DEF ReceiveGet
  <2>3. ASSUME NEW a \in Addrs
        PROVE  \/ mBanListMap'[a].count <= mBanListMap[a].count
               \/ mBanListMap[a].count = CountToBan
    BY <1>n, <2>2, CheckedIsEntry
  <2> QED
    BY <1>f, <2>1, <2>3
<1>2. ASSUME NEW r \in Reqs, HandleUnmapped(r) PROVE BanInv'
  <2>1. CASE UNCHANGED banVars
    BY <2>1 DEF banVars, BanInv
  <2>2. CASE hreq[r].method = "GET" /\ hreq[r].addr # NoAddr
    <3>1. ~Supported(hreq[r])
      BY <1>2 DEF HandleUnmapped, GoTo, SupportedPathsMapped
    <3>2. PICK b : b = hreq[r].addr
      OBVIOUS
    <3>3. /\ mBanListMap' = [mBanListMap EXCEPT ![b] = [count |-> @.count + 1, age |-> 0]]
          /\ misses' = [misses EXCEPT ![b] = IF @ = CountToBan THEN @ ELSE @ + 1]
      BY <1>2, <2>2, <3>1, <3>2 DEF HandleUnmapped, Track
    <3> SUFFICES ASSUME NEW a \in Addrs
                 PROVE  mBanListMap'[a].count <= misses'[a] \/ misses'[a] = CountToBan
      BY DEF BanInv
    <3>4. CASE a = b
      <4>1. /\ mBanListMap'[a] = [count |-> mBanListMap[a].count + 1, age |-> 0]
            /\ misses'[a] = IF misses[a] = CountToBan THEN misses[a] ELSE misses[a] + 1
        BY <3>3, <3>4 DEF EntryInv
      <4>2. mBanListMap'[a].count = mBanListMap[a].count + 1
        BY <4>1
      <4> QED
        BY <1>n, <4>1, <4>2
    <3>5. CASE a # b
      BY <1>n, <3>3, <3>5 DEF EntryInv
    <3> QED
      BY <3>4, <3>5
  <2> QED
    BY <1>2, <2>1, <2>2 DEF HandleUnmapped
<1>3. ASSUME NEW r \in Reqs, GetStatus(r) PROVE BanInv'
  <2>1. misses' = misses /\ Cleanup
    BY <1>3 DEF GetStatus
  <2>2. ASSUME NEW a \in Addrs PROVE mBanListMap'[a].count <= mBanListMap[a].count
    BY <1>n, <2>1, NoEntryCounts DEF Cleanup
  <2> QED
    BY <1>f, <2>1, <2>2
<1>4. CASE Tick
  <2>1. misses' = misses
    BY <1>4 DEF Tick
  <2>2. ASSUME NEW a \in Addrs PROVE mBanListMap'[a].count <= mBanListMap[a].count
    BY <1>4, <1>n, AgedIsEntry DEF Tick
  <2> QED
    BY <1>f, <2>1, <2>2
<1>5. ASSUME NEW r \in Reqs,
             \/ \E q \in workload : Receive(r, q)
             \/ Handle(r) \/ RefuseTags(r) \/ UpdateTags(r) \/ JoinUpdateThread(r)
             \/ LaunchUpdate(r) \/ AssignUpdateThread(r)
      PROVE  UNCHANGED banVars
  BY <1>5 DEF Receive, Handle, RefuseTags, UpdateTags, JoinUpdateThread, LaunchUpdate,
              AssignUpdateThread
<1>6. CASE \/ ApplyChange \/ WriteConsul \/ EndUpdate \/ ReadNodeInfo \/ UpdateNodeInfo
           \/ RunReturns \/ DestroyNode \/ StopHttpServer \/ UNCHANGED vars
  BY <1>6 DEF ApplyChange, WriteConsul, EndUpdate, ReadNodeInfo, UpdateNodeInfo,
              RunReturns, DestroyNode, StopHttpServer, vars, banVars, BanInv
<1>7. UNCHANGED banVars => BanInv'
  BY DEF banVars, BanInv
<1> QED
  BY <1>1, <1>2, <1>3, <1>4, <1>5, <1>6, <1>7 DEF Next

(* An address that isBanned refuses has itself sent CountToBan requests that    *)
(* fit no route, however many HTTP threads count at the same time and whatever   *)
(* expires meanwhile.                                                         *)
THEOREM BansAlwaysDeserved == Spec => []BanDeserved
<1>1. Init => BanInv
  BY NoEntryCounts DEF Init, BanInv
<1>2. EntryInv /\ BanInv => BanDeserved
  <2> SUFFICES ASSUME EntryInv, BanInv, NEW a \in Addrs, mBanListMap[a].count >= CountToBan
               PROVE  misses[a] = CountToBan
    BY DEF BanDeserved, Banned, Refused
  <2>1. mBanListMap[a].count \in Nat /\ misses[a] \in 0..CountToBan /\ CountToBan \in Nat
    BY ServiceConstants DEF EntryInv, Entries
  <2> QED
    BY <2>1 DEF BanInv
<1> QED
  BY <1>1, <1>2, NodeInit, EntryKept, BanKept, SupportedAlwaysMapped, PTL DEF Spec
=============================================================================
