-------------------------- MODULE SessionLifecycle --------------------------
(***************************************************************************)
(* What a session promises to the rest of the node, whatever threads it    *)
(* uses: it runs one operation at a time, only an update starts            *)
(* computations, a deletion ends only when nothing is left running, and a  *)
(* session that is being closed accepts no further operation.  This is the *)
(* interface that ArrasSessions and Coordinator rely on (the comments of   *)
(* Session.h and at Session.cc:183 and :259); Session implements it.       *)
(***************************************************************************)
CONSTANT Comps

VARIABLES
  state,      \* "Free", "Busy" or "Defunct"
  closing,    \* the node is shutting the session down
  operation,  \* "none", "update" or "delete"
  live        \* computations that run and have not been asked to stop

vars == <<state, closing, operation, live>>

Init ==
  /\ state = "Free"
  /\ closing = FALSE
  /\ operation = "none"
  /\ live = {}

(* A create, modify or delete request is accepted. *)
Accept(op) ==
  /\ state = "Free"
  /\ ~closing
  /\ operation = "none"
  /\ state' = "Busy"
  /\ operation' = op
  /\ UNCHANGED <<closing, live>>

StartComputation(c) ==
  /\ operation = "update"
  /\ live' = live \cup {c}
  /\ UNCHANGED <<state, closing, operation>>

(* A computation is asked to stop, or stops by itself. *)
StopComputation(c) ==
  /\ c \in live
  /\ live' = live \ {c}
  /\ UNCHANGED <<state, closing, operation>>

EndUpdate ==
  /\ operation = "update"
  /\ state' = "Free"
  /\ operation' = "none"
  /\ UNCHANGED <<closing, live>>

EndDelete ==
  /\ operation = "delete"
  /\ live = {}
  /\ state' = "Defunct"
  /\ operation' = "none"
  /\ UNCHANGED <<closing, live>>

Close ==
  /\ ~closing
  /\ closing' = TRUE
  /\ UNCHANGED <<state, operation, live>>

(* The deletion that closing a session runs, on a deleted session too. *)
FinalDelete ==
  /\ closing
  /\ state # "Busy"
  /\ operation = "none"
  /\ operation' = "delete"
  /\ UNCHANGED <<state, closing, live>>

Next ==
  \/ \E op \in {"update", "delete"} : Accept(op)
  \/ \E c \in Comps : StartComputation(c) \/ StopComputation(c)
  \/ EndUpdate
  \/ EndDelete
  \/ Close
  \/ FinalDelete

Spec == Init /\ [][Next]_vars
=============================================================================
