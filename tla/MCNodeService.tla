---------------------------- MODULE MCNodeService -----------------------------
(* NodeService for TLC: one request of each kind.  The ban list and the tags  *)
(* share no state, so that the requests for either come alone.              *)
EXTENDS NodeService, TLC

CONSTANTS r1, r2, a1

MCReqs == {r1, r2}
MCAddrs == {a1}

Empty == [t \in {} |-> "absent"]
Get(addr, path) == [method |-> "GET", addr |-> addr, path |-> path, change |-> Empty]
PutSession(path) == [method |-> "PUT", addr |-> NoAddr, path |-> path, change |-> Empty]
Put(c) == [method |-> "PUT", addr |-> NoAddr, path |-> <<"node", "tags">>, change |-> c]
Delete(path, ts) ==
  [method |-> "DELETE", addr |-> NoAddr, path |-> path, change |-> [t \in ts |-> "absent"]]

GetRequests ==
  {Get(a1, <<"node", "1", "status">>), Get(a1, <<"favicon.ico">>), Get(a1, <<"node", "1">>),
   Get(NoAddr, <<"other">>),
   PutSession(<<"sessions", "modify">>), PutSession(<<"sessions", "id", "status">>)}

TagRequests ==
  {Put("team" :> "text"), Put("over" :> "true" @@ "user" :> "text"),
   Delete(<<"node", "tags">>, {"production", "over"}),
   Delete(<<"node", "tag", "user">>, {"user"})}

MCWorkloads == {GetRequests, TagRequests}
=============================================================================
