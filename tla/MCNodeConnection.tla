-------------------------- MODULE MCNodeConnection ---------------------------
(* NodeConnection for TLC.  Without a failure each node makes one endpoint.  *)
EXTENDS NodeConnection, TLC

OneEach == [n \in Nodes |-> 1]
=============================================================================
