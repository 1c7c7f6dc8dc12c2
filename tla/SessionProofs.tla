--------------------------- MODULE SessionProofs ----------------------------
(***************************************************************************)
(* Theorems about Session, for any number of HTTP threads and of           *)
(* computations.  IInv is inductive; each lemma below shows that one thread *)
(* keeps it, one step per action: first Ownership (types, and who owns the *)
(* Busy state), which needs nothing else, then Stopping and Applying, which *)
(* use it.                                                                 *)
(***************************************************************************)
EXTENDS Session, TLAPS

USE ConstantsAssumption
    DEF stateVars, compVars, threadVars, opVars, historyVars, Procs, UpdatePcs,
        DeletePcs, MainPcs, RequestPcs, Claims, Runs

(* The constructor establishes the invariant. *)
LEMMA InitIInv == Init => IInv
<1> SUFFICES ASSUME Init PROVE IInv
  OBVIOUS
<1> USE DEF Init
<1>1. Ownership
  BY DEF Ownership, TypeOK, StepsFitThread, ComputationAtHand, BusyOwned,
         MainAlone, Holders
<1>2. Stopping
  BY DEF Stopping, LockHeld, ProcessesRecorded, DeleteProgress, ForgottenAtEnd,
         NoOrphan, SendBeforeDefunct
<1>3. Applying
  BY DEF Applying, UpdateProgress, ConfigAppliedOrReported, AllExited
<1>4. QED
  BY <1>1, <1>2, <1>3 DEF IInv

(* Accepting an update, a delete or a signal request.                      *)
LEMMA AcceptKeepsIInv ==
  ASSUME IInv, NEW r \in Reqs, Request(r)
  PROVE  IInv'
<1> USE DEF IInv, Ownership, TypeOK, StepsFitThread, ComputationAtHand,
            BusyOwned, MainAlone
<1>1. ASSUME NEW cfg \in SUBSET Comps, AsyncUpdateConfig(r, cfg) PROVE IInv'
  <2>1. TypeOK'
    BY <1>1 DEF AsyncUpdateConfig, MayStart, Holders
  <2>2. StepsFitThread' /\ ComputationAtHand'
    BY <1>1, <2>1 DEF AsyncUpdateConfig, MayStart
  <2>3. BusyOwned' /\ MainAlone'
    BY <1>1, <2>1 DEF AsyncUpdateConfig, MayStart
  <2>4. Ownership'
    BY <2>1, <2>2, <2>3
  <2>5. Stopping'
    BY <1>1, <2>4 DEF AsyncUpdateConfig, MayStart, Stopping, LockHeld,
      ProcessesRecorded, DeleteProgress, ForgottenAtEnd, NoOrphan,
      SendBeforeDefunct
  <2>6. Applying'
    BY <1>1, <2>4 DEF AsyncUpdateConfig, MayStart, Applying, UpdateProgress,
      ConfigAppliedOrReported, AllExited
  <2>7. QED
    BY <2>4, <2>5, <2>6
<1>2. CASE AsyncDelete(r)
  <2>1. TypeOK'
    BY <1>2 DEF AsyncDelete, MayStart, Holders
  <2>2. StepsFitThread' /\ ComputationAtHand'
    BY <1>2, <2>1 DEF AsyncDelete, MayStart
  <2>3. BusyOwned' /\ MainAlone'
    BY <1>2, <2>1 DEF AsyncDelete, MayStart
  <2>4. Ownership'
    BY <2>1, <2>2, <2>3
  <2>5. Stopping'
    BY <1>2, <2>4 DEF AsyncDelete, MayStart, Stopping, LockHeld,
      ProcessesRecorded, DeleteProgress, ForgottenAtEnd, NoOrphan,
      SendBeforeDefunct
  <2>6. Applying'
    BY <1>2, <2>4 DEF AsyncDelete, MayStart, Applying, UpdateProgress,
      ConfigAppliedOrReported, AllExited
  <2>7. QED
    BY <2>4, <2>5, <2>6
<1>3. CASE Signal(r)
  <2>1. Ownership'
    BY <1>3 DEF Signal, Holders
  <2>2. Stopping'
    BY <1>3, <2>1 DEF Signal, Stopping, LockHeld, ProcessesRecorded,
      DeleteProgress, ForgottenAtEnd, NoOrphan, SendBeforeDefunct
  <2>3. Applying'
    BY <1>3, <2>1 DEF Signal, Applying, UpdateProgress,
      ConfigAppliedOrReported, AllExited
  <2>4. QED
    BY <2>1, <2>2, <2>3
<1>4. QED
  BY <1>1, <1>2, <1>3 DEF Request

(* The other steps of an HTTP thread: launching an operation, signalAll.   *)
LEMMA RequestKeepsIInv ==
  ASSUME IInv, NEW r \in Reqs, RequestStep(r)
  PROVE  IInv'
<1> USE DEF IInv, Ownership, TypeOK, StepsFitThread, ComputationAtHand,
            BusyOwned, MainAlone
<1>1. CASE JoinOperationThread(r)
  <2>1. Ownership'
    BY <1>1 DEF JoinOperationThread, Holders
  <2>2. Stopping'
    BY <1>1, <2>1 DEF JoinOperationThread, Stopping, LockHeld,
      ProcessesRecorded, DeleteProgress, ForgottenAtEnd, NoOrphan,
      SendBeforeDefunct
  <2>3. Applying'
    BY <1>1, <2>1 DEF JoinOperationThread, Applying, UpdateProgress,
      ConfigAppliedOrReported, AllExited
  <2>4. QED
    BY <2>1, <2>2, <2>3
<1>2. CASE LaunchOperation(r)
  <2>1. Ownership'
    BY <1>2 DEF LaunchOperation, Holders
  <2>2. Stopping'
    BY <1>2, <2>1 DEF LaunchOperation, Stopping, LockHeld, ProcessesRecorded,
      DeleteProgress, ForgottenAtEnd, NoOrphan, SendBeforeDefunct
  <2>3. Applying'
    BY <1>2, <2>1 DEF LaunchOperation, Applying, UpdateProgress,
      ConfigAppliedOrReported, AllExited
  <2>4. QED
    BY <2>1, <2>2, <2>3
<1>3. CASE AssignOperationThread(r)
  <2>1. TypeOK'
    BY <1>3 DEF AssignOperationThread, Joinable
  <2>2. StepsFitThread' /\ ComputationAtHand'
    BY <1>3, <2>1 DEF AssignOperationThread
  <2>3. BusyOwned' /\ MainAlone'
    BY <1>3, <2>1 DEF AssignOperationThread
  <2>4. Ownership'
    BY <2>1, <2>2, <2>3
  <2>5. Stopping'
    BY <1>3, <2>4 DEF AssignOperationThread, Stopping, LockHeld,
      ProcessesRecorded, DeleteProgress, ForgottenAtEnd, NoOrphan,
      SendBeforeDefunct
  <2>6. Applying'
    BY <1>3, <2>4 DEF AssignOperationThread, Applying, UpdateProgress,
      ConfigAppliedOrReported, AllExited
  <2>7. QED
    BY <2>4, <2>5, <2>6
<1>4. CASE SignalAll(r)
  <2>1. Ownership'
    BY <1>4 DEF SignalAll, Holders
  <2>2. Stopping'
    BY <1>4, <2>1 DEF SignalAll, Stopping, LockHeld, ProcessesRecorded,
      DeleteProgress, ForgottenAtEnd, NoOrphan, SendBeforeDefunct
  <2>3. Applying'
    BY <1>4, <2>1 DEF SignalAll, Applying, UpdateProgress,
      ConfigAppliedOrReported, AllExited
  <2>4. QED
    BY <2>1, <2>2, <2>3
<1>5. ASSUME NEW c \in Comps, SignalComputation(r, c) PROVE IInv'
  <2>1. Ownership'
    BY <1>5 DEF SignalComputation, Holders
  <2>2. Stopping'
    BY <1>5, <2>1 DEF SignalComputation, Stopping, LockHeld,
      ProcessesRecorded, DeleteProgress, ForgottenAtEnd, NoOrphan,
      SendBeforeDefunct
  <2>3. Applying'
    BY <1>5, <2>1 DEF SignalComputation, Applying, UpdateProgress,
      ConfigAppliedOrReported, AllExited
  <2>4. QED
    BY <2>1, <2>2, <2>3
<1>6. CASE SendControl(r)
  <2>1. Ownership'
    BY <1>6 DEF SendControl, Holders
  <2>2. Stopping'
    BY <1>6, <2>1 DEF SendControl, Stopping, LockHeld, ProcessesRecorded,
      DeleteProgress, ForgottenAtEnd, NoOrphan, SendBeforeDefunct
  <2>3. Applying'
    BY <1>6, <2>1 DEF SendControl, Applying, UpdateProgress,
      ConfigAppliedOrReported, AllExited
  <2>4. QED
    BY <2>1, <2>2, <2>3
<1>7. CASE SignalDone(r)
  <2>1. Ownership'
    BY <1>7 DEF SignalDone, Holders
  <2>2. Stopping'
    BY <1>7, <2>1 DEF SignalDone, Stopping, LockHeld, ProcessesRecorded,
      DeleteProgress, ForgottenAtEnd, NoOrphan, SendBeforeDefunct
  <2>3. Applying'
    BY <1>7, <2>1 DEF SignalDone, Applying, UpdateProgress,
      ConfigAppliedOrReported, AllExited
  <2>4. QED
    BY <2>1, <2>2, <2>3
<1>8. QED
  BY <1>1, <1>2, <1>3, <1>4, <1>5, <1>6, <1>7 DEF RequestStep

(* updateProc.                                                             *)
LEMMA UpdateKeepsIInv ==
  ASSUME IInv, NEW p \in Procs, UpdateStep(p)
  PROVE  IInv'
<1> USE DEF IInv, Ownership, TypeOK, StepsFitThread, ComputationAtHand,
            BusyOwned, MainAlone
<1>1. CASE GetConfigDelta(p)
  <2>1. Ownership'
    BY <1>1 DEF GetConfigDelta, Holders
  <2>2. Stopping'
    BY <1>1, <2>1 DEF GetConfigDelta, Stopping, LockHeld, ProcessesRecorded,
      DeleteProgress, ForgottenAtEnd, NoOrphan, SendBeforeDefunct
  <2>3. Applying'
    BY <1>1, <2>1 DEF GetConfigDelta, Applying, UpdateProgress,
      ConfigAppliedOrReported, AllExited
  <2>4. QED
    BY <2>1, <2>2, <2>3
<1>2. ASSUME NEW c \in Comps, StopDefunct(p, c) PROVE IInv'
  <2>1. Ownership'
    BY <1>2 DEF StopDefunct, StopComputation, Terminate, Holders
  <2>2. Stopping'
    BY <1>2, <2>1 DEF StopDefunct, StopComputation, Terminate, Stopping,
      LockHeld, ProcessesRecorded, DeleteProgress, ForgottenAtEnd, NoOrphan,
      SendBeforeDefunct
  <2>3. Applying'
    BY <1>2, <2>1 DEF StopDefunct, StopComputation, Terminate, Applying,
      UpdateProgress, ConfigAppliedOrReported, AllExited
  <2>4. QED
    BY <2>1, <2>2, <2>3
<1>3. CASE DefunctStopped(p)
  <2>1. Ownership'
    BY <1>3 DEF DefunctStopped, GoTo, Holders
  <2>2. Stopping'
    BY <1>3, <2>1 DEF DefunctStopped, GoTo, Stopping, LockHeld,
      ProcessesRecorded, DeleteProgress, ForgottenAtEnd, NoOrphan,
      SendBeforeDefunct
  <2>3. Applying'
    BY <1>3, <2>1 DEF DefunctStopped, GoTo, Applying, UpdateProgress,
      ConfigAppliedOrReported, AllExited
  <2>4. QED
    BY <2>1, <2>2, <2>3
<1>4. CASE AwaitDefunct(p)
  <2>1. Ownership'
    BY <1>4 DEF AwaitDefunct, GoTo, Holders
  <2>2. Stopping'
    BY <1>4, <2>1 DEF AwaitDefunct, GoTo, Stopping, LockHeld,
      ProcessesRecorded, DeleteProgress, ForgottenAtEnd, NoOrphan,
      SendBeforeDefunct
  <2>3. Applying'
    BY <1>4, <2>1 DEF AwaitDefunct, GoTo, Applying, UpdateProgress,
      ConfigAppliedOrReported, AllExited
  <2>4. QED
    BY <2>1, <2>2, <2>3
<1>5. CASE AwaitDefunctTimeout(p)
  <2>1. Ownership'
    BY <1>5 DEF AwaitDefunctTimeout, UpdateThrows, Holders
  <2>2. Stopping'
    BY <1>5, <2>1 DEF AwaitDefunctTimeout, UpdateThrows, Stopping, LockHeld,
      ProcessesRecorded, DeleteProgress, ForgottenAtEnd, NoOrphan,
      SendBeforeDefunct
  <2>3. Applying'
    BY <1>5, <2>1 DEF AwaitDefunctTimeout, UpdateThrows, Applying,
      UpdateProgress, ConfigAppliedOrReported, AllExited
  <2>4. QED
    BY <2>1, <2>2, <2>3
<1>6. ASSUME NEW c \in Comps, StartNewComputation(p, c) PROVE IInv'
  <2>1. Ownership'
    BY <1>6 DEF StartNewComputation, Holders
  <2>2. Stopping'
    BY <1>6, <2>1 DEF StartNewComputation, Stopping, LockHeld,
      ProcessesRecorded, DeleteProgress, ForgottenAtEnd, NoOrphan,
      SendBeforeDefunct
  <2>3. Applying'
    BY <1>6, <2>1 DEF StartNewComputation, Applying, UpdateProgress,
      ConfigAppliedOrReported, AllExited
  <2>4. QED
    BY <2>1, <2>2, <2>3
<1>7. CASE StartFails(p)
  <2>1. Ownership'
    BY <1>7 DEF StartFails, UpdateThrows, Holders
  <2>2. Stopping'
    BY <1>7, <2>1 DEF StartFails, UpdateThrows, Stopping, LockHeld,
      ProcessesRecorded, DeleteProgress, ForgottenAtEnd, NoOrphan,
      SendBeforeDefunct
  <2>3. Applying'
    BY <1>7, <2>1 DEF StartFails, UpdateThrows, Applying, UpdateProgress,
      ConfigAppliedOrReported, AllExited
  <2>4. QED
    BY <2>1, <2>2, <2>3
<1>8. CASE RecordComputation(p)
  <2>1. Ownership'
    BY <1>8 DEF RecordComputation, Holders
  <2>2. Stopping'
    BY <1>8, <2>1 DEF RecordComputation, Stopping, LockHeld,
      ProcessesRecorded, DeleteProgress, ForgottenAtEnd, NoOrphan,
      SendBeforeDefunct
  <2>3. Applying'
    BY <1>8, <2>1 DEF RecordComputation, Applying, UpdateProgress,
      ConfigAppliedOrReported, AllExited
  <2>4. QED
    BY <2>1, <2>2, <2>3
<1>9. CASE FinishUpdate(p)
  <2>1. Ownership'
    BY <1>9 DEF FinishUpdate, Leave, Holders
  <2>2. Stopping'
    BY <1>9, <2>1 DEF FinishUpdate, Leave, Stopping, LockHeld,
      ProcessesRecorded, DeleteProgress, ForgottenAtEnd, NoOrphan,
      SendBeforeDefunct
  <2>3. Applying'
    BY <1>9, <2>1 DEF FinishUpdate, Leave, Applying, UpdateProgress,
      ConfigAppliedOrReported, AllExited
  <2>4. QED
    BY <2>1, <2>2, <2>3
<1>10. QED
  BY <1>1, <1>2, <1>3, <1>4, <1>5, <1>6, <1>7, <1>8, <1>9 DEF UpdateStep

(* deleteProc, in an operation thread or in Main.                          *)
LEMMA DeleteKeepsIInv ==
  ASSUME IInv, NEW p \in Procs, DeleteStep(p)
  PROVE  IInv'
<1> USE DEF IInv, Ownership, TypeOK, StepsFitThread, ComputationAtHand,
            BusyOwned, MainAlone
<1>1. CASE LockComputations(p)
  <2>1. Ownership'
    BY <1>1 DEF LockComputations, Holders
  <2>2. Stopping'
    BY <1>1, <2>1 DEF LockComputations, Stopping, LockHeld,
      ProcessesRecorded, DeleteProgress, ForgottenAtEnd, NoOrphan,
      SendBeforeDefunct
  <2>3. Applying'
    BY <1>1, <2>1 DEF LockComputations, Applying, UpdateProgress,
      ConfigAppliedOrReported, AllExited
  <2>4. QED
    BY <2>1, <2>2, <2>3
<1>2. ASSUME NEW c \in Comps, StopAll(p, c) PROVE IInv'
  <2>1. Ownership'
    BY <1>2 DEF StopAll, StopComputation, Terminate, Holders
  <2>2. Stopping'
    BY <1>2, <2>1 DEF StopAll, StopComputation, Terminate, Stopping,
      LockHeld, ProcessesRecorded, DeleteProgress, ForgottenAtEnd, NoOrphan,
      SendBeforeDefunct
  <2>3. Applying'
    BY <1>2, <2>1 DEF StopAll, StopComputation, Terminate, Applying,
      UpdateProgress, ConfigAppliedOrReported, AllExited
  <2>4. QED
    BY <2>1, <2>2, <2>3
<1>3. CASE AllStopped(p)
  <2>1. Ownership'
    BY <1>3 DEF AllStopped, GoTo, Holders
  <2>2. Stopping'
    BY <1>3, <2>1 DEF AllStopped, GoTo, Stopping, LockHeld,
      ProcessesRecorded, DeleteProgress, ForgottenAtEnd, NoOrphan,
      SendBeforeDefunct
  <2>3. Applying'
    BY <1>3, <2>1 DEF AllStopped, GoTo, Applying, UpdateProgress,
      ConfigAppliedOrReported, AllExited
  <2>4. QED
    BY <2>1, <2>2, <2>3
<1>4. CASE AwaitAll(p)
  <2>1. Ownership'
    BY <1>4 DEF AwaitAll, GoTo, Holders
  <2>2. Stopping'
    BY <1>4, <2>1 DEF AwaitAll, GoTo, Stopping, LockHeld, ProcessesRecorded,
      DeleteProgress, ForgottenAtEnd, NoOrphan, SendBeforeDefunct
  <2>3. Applying'
    BY <1>4, <2>1 DEF AwaitAll, GoTo, Applying, UpdateProgress,
      ConfigAppliedOrReported, AllExited
  <2>4. QED
    BY <2>1, <2>2, <2>3
<1>5. CASE KickClient(p)
  <2>1. Ownership'
    BY <1>5 DEF KickClient, Holders
  <2>2. Stopping'
    BY <1>5, <2>1 DEF KickClient, Stopping, LockHeld, ProcessesRecorded,
      DeleteProgress, ForgottenAtEnd, NoOrphan, SendBeforeDefunct
  <2>3. Applying'
    BY <1>5, <2>1 DEF KickClient, Applying, UpdateProgress,
      ConfigAppliedOrReported, AllExited
  <2>4. QED
    BY <2>1, <2>2, <2>3
<1>6. CASE ForgetSession(p)
  <2>1. Ownership'
    BY <1>6 DEF ForgetSession, Holders
  <2>2. Stopping'
    BY <1>6, <2>1 DEF ForgetSession, Stopping, LockHeld, ProcessesRecorded,
      DeleteProgress, ForgottenAtEnd, NoOrphan, SendBeforeDefunct
  <2>3. Applying'
    BY <1>6, <2>1 DEF ForgetSession, Applying, UpdateProgress,
      ConfigAppliedOrReported, AllExited
  <2>4. QED
    BY <2>1, <2>2, <2>3
<1>7. CASE DeleteThrows(p)
  <2>1. Ownership'
    BY <1>7 DEF DeleteThrows, Holders
  <2>2. Stopping'
    BY <1>7, <2>1 DEF DeleteThrows, Stopping, LockHeld, ProcessesRecorded,
      DeleteProgress, ForgottenAtEnd, NoOrphan, SendBeforeDefunct
  <2>3. Applying'
    BY <1>7, <2>1 DEF DeleteThrows, Applying, UpdateProgress,
      ConfigAppliedOrReported, AllExited
  <2>4. QED
    BY <2>1, <2>2, <2>3
<1>8. CASE FinishDelete(p)
  <2>1. Ownership'
    BY <1>8 DEF FinishDelete, Leave, Holders
  <2>2. Stopping'
    BY <1>8, <2>1 DEF FinishDelete, Leave, Stopping, LockHeld,
      ProcessesRecorded, DeleteProgress, ForgottenAtEnd, NoOrphan,
      SendBeforeDefunct
  <2>3. Applying'
    BY <1>8, <2>1 DEF FinishDelete, Leave, Applying, UpdateProgress,
      ConfigAppliedOrReported, AllExited
  <2>4. QED
    BY <2>1, <2>2, <2>3
<1>9. QED
  BY <1>1, <1>2, <1>3, <1>4, <1>5, <1>6, <1>7, <1>8 DEF DeleteStep

(* syncShutdown, and the end of a process.                                 *)
LEMMA ShutdownKeepsIInv ==
  ASSUME IInv, BeginShutdown \/ ShutdownStep \/ \E c \in Comps : ProcessExit(c)
  PROVE  IInv'
<1> USE DEF IInv, Ownership, TypeOK, StepsFitThread, ComputationAtHand,
            BusyOwned, MainAlone
<1>1. CASE BeginShutdown
  <2>1. Ownership'
    BY <1>1 DEF BeginShutdown, Holders
  <2>2. Stopping'
    BY <1>1, <2>1 DEF BeginShutdown, Stopping, LockHeld, ProcessesRecorded,
      DeleteProgress, ForgottenAtEnd, NoOrphan, SendBeforeDefunct
  <2>3. Applying'
    BY <1>1, <2>1 DEF BeginShutdown, Applying, UpdateProgress,
      ConfigAppliedOrReported, AllExited
  <2>4. QED
    BY <2>1, <2>2, <2>3
<1>2. CASE NoLongerBusy
  <2>1. Ownership'
    BY <1>2 DEF NoLongerBusy, GoTo, Holders
  <2>2. Stopping'
    BY <1>2, <2>1 DEF NoLongerBusy, GoTo, Stopping, LockHeld,
      ProcessesRecorded, DeleteProgress, ForgottenAtEnd, NoOrphan,
      SendBeforeDefunct
  <2>3. Applying'
    BY <1>2, <2>1 DEF NoLongerBusy, GoTo, Applying, UpdateProgress,
      ConfigAppliedOrReported, AllExited
  <2>4. QED
    BY <2>1, <2>2, <2>3
<1>3. CASE ShutdownTimeout
  <2>1. Ownership'
    BY <1>3 DEF ShutdownTimeout, GoTo, Holders
  <2>2. Stopping'
    BY <1>3, <2>1 DEF ShutdownTimeout, GoTo, Stopping, LockHeld,
      ProcessesRecorded, DeleteProgress, ForgottenAtEnd, NoOrphan,
      SendBeforeDefunct
  <2>3. Applying'
    BY <1>3, <2>1 DEF ShutdownTimeout, GoTo, Applying, UpdateProgress,
      ConfigAppliedOrReported, AllExited
  <2>4. QED
    BY <2>1, <2>2, <2>3
<1>4. CASE JoinLastOperation
  <2>1. Ownership'
    BY <1>4 DEF JoinLastOperation, Holders
  <2>2. Stopping'
    BY <1>4, <2>1 DEF JoinLastOperation, Stopping, LockHeld,
      ProcessesRecorded, DeleteProgress, ForgottenAtEnd, NoOrphan,
      SendBeforeDefunct
  <2>3. Applying'
    BY <1>4, <2>1 DEF JoinLastOperation, Applying, UpdateProgress,
      ConfigAppliedOrReported, AllExited
  <2>4. QED
    BY <2>1, <2>2, <2>3
<1>5. ASSUME NEW c \in Comps, ProcessExit(c) PROVE IInv'
  <2>1. Ownership'
    BY <1>5 DEF ProcessExit, Holders
  <2>2. Stopping'
    BY <1>5, <2>1 DEF ProcessExit, Stopping, LockHeld, ProcessesRecorded,
      DeleteProgress, ForgottenAtEnd, NoOrphan, SendBeforeDefunct
  <2>3. Applying'
    BY <1>5, <2>1 DEF ProcessExit, Applying, UpdateProgress,
      ConfigAppliedOrReported, AllExited
  <2>4. QED
    BY <2>1, <2>2, <2>3
<1>6. QED
  BY <1>1, <1>2, <1>3, <1>4, <1>5 DEF ShutdownStep

(* So every step does. *)
LEMMA NextIInv == IInv /\ [Next]_vars => IInv'
<1> SUFFICES ASSUME IInv, [Next]_vars PROVE IInv'
  OBVIOUS
<1>1. CASE Next
  BY <1>1, AcceptKeepsIInv, RequestKeepsIInv, UpdateKeepsIInv, DeleteKeepsIInv,
     ShutdownKeepsIInv DEF Next, Step
<1>2. CASE UNCHANGED vars
  <2> USE <1>2 DEF vars
  <2>1. Ownership'
    BY DEF IInv, Ownership, TypeOK, StepsFitThread, ComputationAtHand,
           BusyOwned, MainAlone
  <2>2. Stopping'
    BY DEF IInv, Stopping, LockHeld, ProcessesRecorded, DeleteProgress,
           ForgottenAtEnd, NoOrphan, SendBeforeDefunct
  <2>3. Applying'
    BY DEF IInv, Applying, UpdateProgress, ConfigAppliedOrReported, AllExited
  <2>4. QED
    BY <2>1, <2>2, <2>3 DEF IInv
<1>3. QED
  BY <1>1, <1>2

(* The inductive invariant holds throughout. *)
THEOREM Invariance == Spec => []IInv
  BY InitIInv, NextIInv, PTL DEF Spec

(* Every variable of Session keeps its type. *)
THEOREM TypeCorrect == Spec => []TypeOK
<1>1. IInv => TypeOK
  BY DEF IInv, Ownership
<1>2. QED
  BY <1>1, Invariance, PTL

(* Two operations, the final deleteProc of syncShutdown included, never run  *)
(* at the same time, however requests and the exit of the node interleave.   *)
THEOREM OneOperationAlways == Spec => []OneOperation
<1>1. IInv => OneOperation
  BY DEF IInv, Ownership, StepsFitThread, BusyOwned, MainAlone, OneOperation
<1>2. QED
  BY <1>1, Invariance, PTL

(* A deleted session has no computation left that was not asked to stop.    *)
THEOREM NoOrphanAlways == Spec => []NoOrphan
<1>1. IInv => NoOrphan
  BY DEF IInv, Stopping
<1>2. QED
  BY <1>1, Invariance, PTL

(* No control message is sent to a computation of a deleted session.        *)
THEOREM NoControlAlways == Spec => []NoControlWhenDefunct
<1>1. IInv => NoControlWhenDefunct
  BY DEF IInv, Stopping, SendBeforeDefunct, NoControlWhenDefunct
<1>2. QED
  BY <1>1, Invariance, PTL

(* A Free session has applied its last configuration, or has reported that   *)
(* it could not.                                                            *)
THEOREM ConfigAppliedAlways == Spec => []ConfigAppliedOrReported
<1>1. IInv => ConfigAppliedOrReported
  BY DEF IInv, Applying
<1>2. QED
  BY <1>1, Invariance, PTL

(* What an action does to mState, and what it spawns. *)
LEMMA StateSteps ==
  ASSUME IInv, Next
  PROVE  /\ mState = "Defunct" => mState' = "Defunct"
         /\ \A c \in Comps :
              process[c] = "NotSpawned" /\ process'[c] = "Spawned"
                => AllExited(mComputations \ accepted)
<1> USE DEF IInv, Ownership, TypeOK
<1>1. CASE \E r \in Reqs : Request(r) \/ RequestStep(r)
  BY <1>1 DEF Request, RequestStep, AsyncUpdateConfig, AsyncDelete, Signal,
              MayStart, JoinOperationThread, LaunchOperation,
              AssignOperationThread, SignalAll, SignalComputation, SendControl,
              SignalDone
<1>2. ASSUME NEW p \in Procs, UpdateStep(p)
      PROVE  /\ mState = "Defunct" => mState' = "Defunct"
             /\ \A c \in Comps :
                  process[c] = "NotSpawned" /\ process'[c] = "Spawned"
                    => AllExited(mComputations \ accepted)
  <2>1. ASSUME NEW c \in Comps, StartNewComputation(p, c)
        PROVE  AllExited(mComputations \ accepted) /\ mState' = mState
    BY <2>1 DEF StartNewComputation, Applying, UpdateProgress
  <2>2. QED
    BY <1>2, <2>1 DEF UpdateStep, GetConfigDelta, StopDefunct, StopComputation,
              Terminate, DefunctStopped, AwaitDefunct, AwaitDefunctTimeout,
              UpdateThrows, StartFails, RecordComputation, FinishUpdate, Leave,
              GoTo
<1>3. CASE \E p \in Procs : DeleteStep(p)
  BY <1>3 DEF DeleteStep, LockComputations, StopAll, StopComputation, Terminate,
              AllStopped, AwaitAll, KickClient, ForgetSession, DeleteThrows,
              FinishDelete, Leave, GoTo
<1>4. CASE BeginShutdown \/ ShutdownStep
  BY <1>4 DEF BeginShutdown, ShutdownStep, NoLongerBusy, ShutdownTimeout,
              JoinLastOperation, GoTo
<1>5. CASE \E c \in Comps : ProcessExit(c)
  BY <1>5 DEF ProcessExit
<1>6. QED
  BY <1>1, <1>2, <1>3, <1>4, <1>5 DEF Next, Step

(* Nothing that is still running when the session is deleted makes it        *)
(* usable again.                                                            *)
THEOREM DefunctIsFinal == Spec => DefunctForever
<1>1. IInv /\ [Next]_vars
        => [mState = "Defunct" => mState' = "Defunct"]_vars
  BY StateSteps
<1>2. QED
  BY <1>1, Invariance, PTL DEF Spec, DefunctForever

(* An update spawns a computation only after those it replaces have exited.  *)
THEOREM SpawnsAfterRelease == Spec => SpawnAfterRelease
<1>1. IInv /\ [Next]_vars
        => [\A c \in Comps :
              process[c] = "NotSpawned" /\ process'[c] = "Spawned"
                => AllExited(mComputations \ accepted)]_vars
  BY StateSteps
<1>2. QED
  BY <1>1, Invariance, PTL DEF Spec, SpawnAfterRelease
=============================================================================
