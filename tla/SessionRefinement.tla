------------------------- MODULE SessionRefinement --------------------------
(***************************************************************************)
(* Session implements SessionLifecycle: each step of a thread is a step of  *)
(* the lifecycle or leaves it alone.  The refinement mapping is the one of  *)
(* Session!Lifecycle; the invariant IInv of Session gives what it needs: an *)
(* operation has one owner, so it starts from "none" and ends in "none".    *)
(***************************************************************************)
EXTENDS SessionProofs

USE ConstantsAssumption
    DEF stateVars, compVars, threadVars, opVars, historyVars, Procs, UpdatePcs,
        DeletePcs, MainPcs, RequestPcs, Claims, Runs, IInv, Ownership, TypeOK,
        StepsFitThread, BusyOwned, MainAlone

(* The operation that the mapping shows. *)
Shown == IF Updating THEN "update" ELSE IF Deleting THEN "delete" ELSE "none"
Live == {c \in Comps : process[c] = "Spawned"}

(* A step that keeps the session's state, the operation and the running      *)
(* computations is a stuttering step of the lifecycle.                       *)
LEMMA Stutter ==
  ASSUME UNCHANGED <<mState, mShuttingDown>>, Shown' = Shown, Live' = Live
  PROVE  UNCHANGED Lifecycle!vars
  BY DEF Shown, Live, Lifecycle!vars

(* Taking Busy is the lifecycle's Accept. *)
LEMMA AcceptRefines ==
  ASSUME IInv, NEW r \in Reqs, Request(r)
  PROVE  Lifecycle!Next \/ UNCHANGED Lifecycle!vars
<1>1. ASSUME MayStart, mState' = "Busy", rpc' = [rpc EXCEPT ![r] = "join"],
             UNCHANGED <<pc, mShuttingDown, process>>,
             NEW t \in {"delta", "lock"}, task' = [task EXCEPT ![r] = t]
      PROVE  Lifecycle!Next
  <2>1. ~Updating /\ ~Deleting
    BY <1>1 DEF Updating, Deleting, MayStart
  <2>2. CASE t = "delta"
    <3>1. Updating'
      BY <1>1, <2>2 DEF Updating
    <3>2. Lifecycle!Accept("update")
      BY <1>1, <2>1, <3>1 DEF Lifecycle!Accept, MayStart
    <3>3. QED
      BY <3>2 DEF Lifecycle!Next
  <2>3. CASE t = "lock"
    <3>1. ~Updating' /\ Deleting'
      BY <1>1, <2>1, <2>3 DEF Updating, Deleting
    <3>2. Lifecycle!Accept("delete")
      BY <1>1, <2>1, <3>1 DEF Lifecycle!Accept, MayStart
    <3>3. QED
      BY <3>2 DEF Lifecycle!Next
  <2>4. QED
    BY <1>1, <2>2, <2>3
<1>2. ASSUME NEW cfg \in SUBSET Comps, AsyncUpdateConfig(r, cfg)
      PROVE  Lifecycle!Next
  BY <1>1, <1>2 DEF AsyncUpdateConfig
<1>3. CASE AsyncDelete(r)
  BY <1>1, <1>3 DEF AsyncDelete
<1>4. CASE Signal(r)
  <2>1. Shown' = Shown /\ Live' = Live
    BY <1>4 DEF Signal, Shown, Live, Updating, Deleting
  <2>2. QED
    BY <1>4, <2>1, Stutter DEF Signal
<1>5. QED
  BY <1>2, <1>3, <1>4 DEF Request

(* The rest of an HTTP thread is invisible: when the operation thread starts, *)
(* the claim on Busy passes to it.                                           *)
LEMMA RequestRefines ==
  ASSUME IInv, NEW r \in Reqs, RequestStep(r)
  PROVE  Lifecycle!Next \/ UNCHANGED Lifecycle!vars
<1>1. UNCHANGED <<mState, mShuttingDown>> /\ Live' = Live
  BY DEF RequestStep, JoinOperationThread, LaunchOperation,
         AssignOperationThread, SignalAll, SignalComputation, SendControl,
         SignalDone, Live
<1>2. Shown' = Shown
  <2>1. CASE LaunchOperation(r)
    <3>1. Updating' <=> Updating
      BY <2>1 DEF LaunchOperation, Updating
    <3>2. Deleting' <=> Deleting
      BY <2>1 DEF LaunchOperation, Deleting
    <3>3. QED
      BY <3>1, <3>2 DEF Shown
  <2>2. CASE ~LaunchOperation(r)
    BY <2>2 DEF RequestStep, JoinOperationThread, AssignOperationThread,
         SignalAll, SignalComputation, SendControl, SignalDone, Shown, Updating,
         Deleting
  <2>3. QED
    BY <2>1, <2>2
<1>3. QED
  BY <1>1, <1>2, Stutter

(* A step that asks a computation to stop, or that ends one, is the           *)
(* lifecycle's StopComputation, or invisible if it was stopping already.      *)
LEMMA StopRefines ==
  ASSUME IInv, NEW c \in Comps, UNCHANGED <<mState, mShuttingDown>>,
         Shown' = Shown, Live' = Live \ {c}
  PROVE  Lifecycle!Next \/ UNCHANGED Lifecycle!vars
<1>1. CASE c \in Live
  <2>1. Lifecycle!StopComputation(c)
    BY <1>1 DEF Lifecycle!StopComputation, Shown, Live
  <2>2. QED
    BY <2>1 DEF Lifecycle!Next
<1>2. CASE c \notin Live
  BY <1>2, Stutter
<1>3. QED
  BY <1>1, <1>2

(* updateProc shows as "update" until it finishes, and then as nothing.       *)
LEMMA UpdateRefines ==
  ASSUME IInv, NEW p \in Procs, UpdateStep(p)
  PROVE  Lifecycle!Next \/ UNCHANGED Lifecycle!vars
<1>1. pc[p] \in UpdatePcs /\ p \in Reqs /\ Shown = "update"
  <2>1. pc[p] \in UpdatePcs
    BY DEF UpdateStep, GetConfigDelta, StopDefunct, DefunctStopped,
           AwaitDefunct, AwaitDefunctTimeout, StartNewComputation, StartFails,
           RecordComputation, FinishUpdate
  <2>2. QED
    BY <2>1 DEF Shown, Updating
<1>2. CASE FinishUpdate(p)
  <2>1. ~Updating' /\ ~Deleting'
    BY <1>1, <1>2 DEF FinishUpdate, Leave, Updating, Deleting
  <2>2. Lifecycle!EndUpdate
    BY <1>1, <1>2, <2>1 DEF FinishUpdate, Leave, Shown, Lifecycle!EndUpdate
  <2>3. QED
    BY <2>2 DEF Lifecycle!Next
<1>3. ASSUME NEW c \in Comps, StartNewComputation(p, c)
      PROVE  Lifecycle!Next
  <2>1. Updating'
    BY <1>3 DEF StartNewComputation, Updating
  <2>2. Live' = Live \cup {c}
    BY <1>3 DEF StartNewComputation, Live
  <2>3. Lifecycle!StartComputation(c)
    BY <1>1, <1>3, <2>1, <2>2 DEF StartNewComputation, Shown, Live,
       Lifecycle!StartComputation
  <2>4. QED
    BY <2>3 DEF Lifecycle!Next
<1>4. ASSUME NEW c \in Comps, StopDefunct(p, c)
      PROVE  Lifecycle!Next \/ UNCHANGED Lifecycle!vars
  <2>1. Shown' = Shown
    BY <1>1, <1>4 DEF StopDefunct, StopComputation, Shown, Updating
  <2>2. Live' = Live \ {c}
    BY <1>4 DEF StopDefunct, StopComputation, Terminate, Live
  <2>3. QED
    BY <1>4, <2>1, <2>2, StopRefines DEF StopDefunct, StopComputation
<1>5. CASE \/ GetConfigDelta(p) \/ DefunctStopped(p) \/ AwaitDefunct(p)
           \/ AwaitDefunctTimeout(p) \/ StartFails(p) \/ RecordComputation(p)
  <2> USE <1>5 DEF GetConfigDelta, DefunctStopped, AwaitDefunct,
                   AwaitDefunctTimeout, StartFails, RecordComputation,
                   UpdateThrows, GoTo
  <2>1. pc'[p] \in UpdatePcs
    OBVIOUS
  <2>2. Shown' = Shown /\ Live' = Live
    BY <1>1, <2>1 DEF Shown, Updating, Live
  <2>3. QED
    BY <2>2, Stutter
<1>6. QED
  BY <1>2, <1>3, <1>4, <1>5 DEF UpdateStep

(* deleteProc shows as "delete"; when it finishes, no computation runs.       *)
LEMMA DeleteRefines ==
  ASSUME IInv, NEW p \in Procs, DeleteStep(p)
  PROVE  Lifecycle!Next \/ UNCHANGED Lifecycle!vars
<1>1. pc[p] \in DeletePcs /\ ~Updating /\ Shown = "delete"
  <2>1. pc[p] \in DeletePcs
    BY DEF DeleteStep, LockComputations, StopAll, AllStopped, AwaitAll,
           KickClient, ForgetSession, DeleteThrows, FinishDelete
  <2>2. ~Updating
    BY <2>1 DEF Updating
  <2>3. QED
    BY <2>1, <2>2 DEF Shown, Deleting
<1>2. CASE FinishDelete(p)
  <2>1. ~Updating' /\ ~Deleting'
    BY <1>1, <1>2 DEF FinishDelete, Leave, Updating, Deleting
  <2>2. Live = {} /\ Live' = {}
    BY <1>2 DEF FinishDelete, Leave, Stopping, DeleteProgress, Live
  <2>3. Lifecycle!EndDelete
    BY <1>1, <1>2, <2>1, <2>2 DEF FinishDelete, Leave, Shown, Live,
       Lifecycle!EndDelete
  <2>4. QED
    BY <2>3 DEF Lifecycle!Next
<1>3. ASSUME pc'[p] \in DeletePcs, UNCHANGED rpc, UNCHANGED task,
             \A q \in Procs \ {p} : pc'[q] = pc[q]
      PROVE  Shown' = Shown
  BY <1>1, <1>3 DEF Shown, Updating, Deleting
<1>4. ASSUME NEW c \in Comps, StopAll(p, c)
      PROVE  Lifecycle!Next \/ UNCHANGED Lifecycle!vars
  <2>1. Live' = Live \ {c}
    BY <1>4 DEF StopAll, StopComputation, Terminate, Live
  <2>2. QED
    BY <1>1, <1>3, <1>4, <2>1, StopRefines DEF StopAll, StopComputation
<1>5. CASE \/ LockComputations(p) \/ AllStopped(p) \/ AwaitAll(p)
           \/ KickClient(p) \/ ForgetSession(p) \/ DeleteThrows(p)
  <2> USE <1>5 DEF LockComputations, AllStopped, AwaitAll, KickClient,
                   ForgetSession, DeleteThrows, GoTo
  <2>1. Shown' = Shown
    BY <1>3
  <2>2. Live' = Live
    BY DEF Live
  <2>3. QED
    BY <2>1, <2>2, Stutter
<1>6. QED
  BY <1>2, <1>4, <1>5 DEF DeleteStep

(* syncShutdown closes the session, and later starts the final deletion.      *)
LEMMA ShutdownRefines ==
  ASSUME IInv,
         BeginShutdown \/ ShutdownStep \/ \E c \in Comps : ProcessExit(c)
  PROVE  Lifecycle!Next \/ UNCHANGED Lifecycle!vars
<1>1. CASE BeginShutdown
  <2>1. Shown' = Shown /\ Live' = Live
    BY <1>1 DEF BeginShutdown, Shown, Updating, Deleting, Live
  <2>2. CASE mShuttingDown
    BY <1>1, <2>1, <2>2, Stutter DEF BeginShutdown
  <2>3. CASE ~mShuttingDown
    <3>1. Lifecycle!Close
      BY <1>1, <2>1, <2>3 DEF BeginShutdown, Shown, Live, Lifecycle!Close
    <3>2. QED
      BY <3>1 DEF Lifecycle!Next
  <2>4. QED
    BY <2>2, <2>3
<1>2. CASE NoLongerBusy \/ ShutdownTimeout
  <2>1. Shown' = Shown /\ Live' = Live
    BY <1>2 DEF NoLongerBusy, ShutdownTimeout, GoTo, Shown, Updating, Deleting,
       Live
  <2>2. QED
    BY <1>2, <2>1, Stutter DEF NoLongerBusy, ShutdownTimeout, GoTo
<1>3. CASE JoinLastOperation
  <2>1. ~Updating /\ ~Deleting
    BY <1>3 DEF JoinLastOperation, Updating, Deleting
  <2>2. ~Updating' /\ Deleting'
    BY <1>3, <2>1 DEF JoinLastOperation, Updating, Deleting
  <2>3. Lifecycle!FinalDelete
    BY <1>3, <2>1, <2>2 DEF JoinLastOperation, Lifecycle!FinalDelete
  <2>4. QED
    BY <2>3 DEF Lifecycle!Next
<1>4. ASSUME NEW c \in Comps, ProcessExit(c)
      PROVE  Lifecycle!Next \/ UNCHANGED Lifecycle!vars
  <2>1. Shown' = Shown
    BY <1>4 DEF ProcessExit, Shown, Updating, Deleting
  <2>2. Live' = Live \ {c}
    BY <1>4 DEF ProcessExit, Live
  <2>3. QED
    BY <1>4, <2>1, <2>2, StopRefines DEF ProcessExit
<1>5. QED
  BY <1>1, <1>2, <1>3, <1>4 DEF ShutdownStep

(* The session, with all its threads, locks and timeouts, keeps the promise   *)
(* of SessionLifecycle for any number of HTTP threads and computations.       *)
THEOREM Refinement == Spec => ImplementsLifecycle
<1>1. Init => Lifecycle!Init
  BY DEF Init, Updating, Deleting, Lifecycle!Init
<1>2. IInv /\ [Next]_vars => [Lifecycle!Next]_(Lifecycle!vars)
  <2> SUFFICES ASSUME IInv, [Next]_vars
               PROVE  Lifecycle!Next \/ UNCHANGED Lifecycle!vars
    OBVIOUS
  <2>1. CASE Next
    BY <2>1, AcceptRefines, RequestRefines, UpdateRefines, DeleteRefines,
       ShutdownRefines DEF Next, Step
  <2>2. CASE UNCHANGED vars
    <3>1. Shown' = Shown /\ Live' = Live /\ UNCHANGED <<mState, mShuttingDown>>
      BY <2>2 DEF vars, Shown, Updating, Deleting, Live
    <3>2. QED
      BY <3>1, Stutter
  <2>3. QED
    BY <2>1, <2>2
<1>3. QED
  BY <1>1, <1>2, Invariance, PTL DEF Spec, ImplementsLifecycle, Lifecycle!Spec
=============================================================================
