-------------------------- MODULE TestContextProofs --------------------------
(***************************************************************************)
(* Proofs, for any number of workers, logs and stop callbacks, that a      *)
(* lease keeps a test context open and that a result is recorded behind    *)
(* the barrier.                                                            *)
(***************************************************************************)
EXTENDS TestContext, FiniteSetTheorems, TLAPS

\* The runner thread holds one more lease while it runs a stop callback.
CallbackLease == IF pc = "cbLeased" THEN 1 ELSE 0

\* adopted_contexts is exactly the number of leases that are out.
LeaseCount == adopted = Cardinality(Holders) + CallbackLease

\* The context leaves Running in request_context_stop and never returns to it.
StoppedOutsideBody ==
    /\ pc = "body" => state = "Running"
    /\ pc \notin {"body", "stop", "stopStore"} => state # "Running"

\* Behind a closed context, and behind the barrier, no worker holds a lease.
NoHolderBehindBarrier ==
    state = "Closed" \/ pc \in {"close", "recorded"} => Holders = {}

\* Only a thread inside its lease has lines that have not reached the context.
BuffersFlushed == \A w \in Workers : wpc[w] # "leased" => buf[w] = 0

\* The inductive invariant.
IInv ==
    /\ TypeOK
    /\ LeaseCount
    /\ StoppedOutsideBody
    /\ NoHolderBehindBarrier
    /\ BuffersFlushed
    /\ pc = "recorded" => state = "Closed"

------------------------------------------------------------------------------
(* Counting leases.                                                         *)

\* The leases of any subset of the workers can be counted.
LEMMA HoldersFinite ==
    /\ IsFiniteSet(Holders)
    /\ Cardinality(Holders) \in Nat
<1>1. IsFiniteSet(Workers)
  BY ConstantsAssumption
<1>2. Holders \subseteq Workers
  BY DEF Holders
<1>3. IsFiniteSet(Holders)
  BY <1>1, <1>2, FS_Subset
<1> QED
  BY <1>3, FS_CardinalityType

\* A lease constructor (acquire_adopted_context) adds exactly one holder.
LEMMA HolderAdded ==
    ASSUME NEW w \in Workers, w \notin Holders, Holders' = Holders \cup {w}
    PROVE  Cardinality(Holders') = Cardinality(Holders) + 1
BY HoldersFinite, FS_AddElement

\* A lease destructor (release_adopted_context) removes exactly one holder, so the
\* count it decrements is not zero.
LEMMA HolderRemoved ==
    ASSUME NEW w \in Workers, w \in Holders, Holders' = Holders \ {w}
    PROVE  /\ Cardinality(Holders') = Cardinality(Holders) - 1
           /\ Cardinality(Holders) >= 1
<1>1. Cardinality(Holders \ {w}) = Cardinality(Holders) - 1
  BY HoldersFinite, FS_RemoveElement
<1>2. Cardinality(Holders) # 0
  BY HoldersFinite, FS_EmptySet
<1> QED
  BY <1>1, <1>2, HoldersFinite

\* No lease is out exactly when no worker holds one and no callback runs.
LEMMA NoLeaseNoHolder ==
    ASSUME LeaseCount, adopted = 0
    PROVE  Holders = {} /\ pc # "cbLeased"
BY HoldersFinite, FS_EmptySet DEF LeaseCount, CallbackLease

\* start_context establishes the invariant.
LEMMA InitIInv == Init => IInv
<1> SUFFICES ASSUME Init PROVE IInv
  OBVIOUS
<1>1. Holders = {}
  BY DEF Init, Holders
<1>2. LeaseCount
  BY <1>1, FS_EmptySet DEF Init, LeaseCount, CallbackLease
<1>3. TypeOK
  BY ConstantsAssumption DEF Init, TypeOK, ContextStates, OwnerPoints, WorkerPoints
<1> QED
  BY <1>1, <1>2, <1>3 DEF Init, IInv, StoppedOutsideBody, NoHolderBehindBarrier, BuffersFlushed

------------------------------------------------------------------------------
(* Every step preserves the invariant.                                      *)

\* The lease constructor: it runs during the body or under another lease, so the
\* context is open and the barrier is ahead.
LEMMA AcquirePreserves ==
    ASSUME IInv, NEW w \in Workers, AcquireLease(w)
    PROVE  IInv'
<1> USE DEF IInv
<1>1. TypeOK'
  BY DEF TypeOK, AcquireLease, WorkerPoints
<1>2. w \notin Holders /\ Holders' = Holders \cup {w}
  BY DEF TypeOK, AcquireLease, Holders
<1>3. LeaseCount'
  <2>1. Cardinality(Holders') = Cardinality(Holders) + 1
    BY <1>2, HolderAdded
  <2> QED
    BY <2>1, HoldersFinite DEF LeaseCount, CallbackLease, AcquireLease, TypeOK
<1>4. state # "Closed" /\ pc \notin {"close", "recorded"}
  <2>1. CASE pc = "body"
    BY <2>1 DEF StoppedOutsideBody
  <2>2. CASE \E v \in Workers \ {w} : wpc[v] = "leased"
    BY <2>2 DEF NoHolderBehindBarrier, Holders
  <2> QED
    BY <2>1, <2>2 DEF AcquireLease, MayLease
<1> QED
  BY <1>1, <1>3, <1>4 DEF AcquireLease, StoppedOutsideBody, NoHolderBehindBarrier,
                          BuffersFlushed, TypeOK

\* log() through a lease changes a buffer only.
LEMMA LogPreserves ==
    ASSUME IInv, NEW w \in Workers, WorkerLog(w)
    PROVE  IInv'
<1> USE DEF IInv
<1>1. TypeOK'
  BY DEF TypeOK, WorkerLog
<1>2. Holders' = Holders
  BY DEF WorkerLog, Holders
<1> QED
  BY <1>1, <1>2 DEF WorkerLog, LeaseCount, CallbackLease, StoppedOutsideBody,
                    NoHolderBehindBarrier, BuffersFlushed, TypeOK

\* The destructor's flush empties the buffer while the lease still counts.
LEMMA FlushPreserves ==
    ASSUME IInv, NEW w \in Workers, FlushLease(w)
    PROVE  IInv'
<1> USE DEF IInv
<1>1. TypeOK'
  BY DEF TypeOK, FlushLease, WorkerPoints
<1>2. Holders' = Holders
  BY DEF FlushLease, Holders, TypeOK
<1> QED
  BY <1>1, <1>2 DEF FlushLease, LeaseCount, CallbackLease, StoppedOutsideBody,
                    NoHolderBehindBarrier, BuffersFlushed, TypeOK

\* release_adopted_context gives back a lease that was counted.
LEMMA ReleasePreserves ==
    ASSUME IInv, NEW w \in Workers, ReleaseLease(w)
    PROVE  IInv'
<1> USE DEF IInv
<1>1. w \in Holders /\ Holders' = Holders \ {w}
  BY DEF ReleaseLease, Holders, TypeOK
<1>2. /\ Cardinality(Holders') = Cardinality(Holders) - 1
      /\ Cardinality(Holders) >= 1
  BY <1>1, HolderRemoved
<1>3. LeaseCount'
  BY <1>2, HoldersFinite DEF LeaseCount, CallbackLease, ReleaseLease, TypeOK
<1>4. TypeOK'
  BY <1>2, HoldersFinite DEF TypeOK, ReleaseLease, WorkerPoints, LeaseCount, CallbackLease
<1> QED
  BY <1>1, <1>3, <1>4 DEF ReleaseLease, StoppedOutsideBody, NoHolderBehindBarrier,
                          BuffersFlushed, TypeOK

\* close_context_if_released closes only a context without holders.
LEMMA ClosedIfReleasedSafe ==
    ASSUME IInv
    PROVE  /\ ClosedIfReleased \in ContextStates
           /\ ClosedIfReleased = "Closed" => Holders = {}
           /\ ClosedIfReleased = "Running" <=> state = "Running"
           /\ state = "Closed" => ClosedIfReleased = "Closed"
           /\ adopted = 0 /\ state # "Running" => ClosedIfReleased = "Closed"
BY NoLeaseNoHolder DEF IInv, TypeOK, ClosedIfReleased, ContextStates, NoHolderBehindBarrier

\* The last lease closes a stopped context.
LEMMA CloseReleasedPreserves ==
    ASSUME IInv, NEW w \in Workers, CloseReleased(w)
    PROVE  IInv'
<1> USE DEF IInv
<1>1. TypeOK'
  BY ClosedIfReleasedSafe DEF TypeOK, CloseReleased, WorkerPoints
<1>2. Holders' = Holders
  BY DEF CloseReleased, Holders, TypeOK
<1> QED
  BY <1>1, <1>2, ClosedIfReleasedSafe
  DEF CloseReleased, LeaseCount, CallbackLease, StoppedOutsideBody,
      NoHolderBehindBarrier, BuffersFlushed, TypeOK

\* notify_adopted_contexts_released wakes the owner and touches nothing else.
LEMMA NotifyPreserves ==
    ASSUME IInv, NEW w \in Workers, NotifyReleased(w)
    PROVE  IInv'
<1> USE DEF IInv
<1>1. TypeOK'
  BY DEF TypeOK, NotifyReleased, WorkerPoints
<1>2. Holders' = Holders
  BY DEF NotifyReleased, Holders, TypeOK
<1> QED
  BY <1>1, <1>2 DEF NotifyReleased, LeaseCount, CallbackLease, StoppedOutsideBody,
                    NoHolderBehindBarrier, BuffersFlushed, TypeOK

\* The owner's steps move no worker.  Those that neither enter nor leave a callback's
\* lease keep the count; what is left is where the owner goes and what it stores.
LEMMA OwnerKeepsCount ==
    ASSUME LeaseCount, UNCHANGED <<workerVars, adopted>>,
           pc # "cbLeased", pc' # "cbLeased"
    PROVE  Holders' = Holders /\ LeaseCount'
<1>1. Holders' = Holders
  BY DEF Holders, workerVars
<1> QED
  BY <1>1 DEF LeaseCount, CallbackLease

\* The end of the body, and the runner's decisions about a completed case.
LEMMA DisposePreserves ==
    ASSUME IInv,
           \/ \E o \in Outcomes : SyncBodyEnds(o) \/ AsyncBodyEnds(o)
           \/ Unresumable \/ CancelSuspended
           \/ FinalizeRun \/ FinalizeCanceledAdoptedRun \/ CancelCompleted
           \/ ClassifyAsyncException
           \/ \E fails \in BOOLEAN : RunCancelHooks(fails)
    PROVE  IInv'
<1> USE DEF IInv, GoTo, CallStop
<1>1. /\ UNCHANGED <<workerVars, adopted, state>>
      /\ pc \in {"body", "ready", "classify", "hooks"}
      /\ pc' \in {"stop", "classify", "closeIf"}
      /\ pc' # "stop" => pc # "body"
  BY DEF SyncBodyEnds, AsyncBodyEnds, Unresumable, CancelSuspended, FinalizeRun,
         FinalizeCanceledAdoptedRun, CancelCompleted, ClassifyAsyncException, RunCancelHooks
<1>2. TypeOK'
  <2>1. CASE \E o \in Outcomes : SyncBodyEnds(o) \/ AsyncBodyEnds(o)
    BY <2>1, ConstantsAssumption
    DEF SyncBodyEnds, AsyncBodyEnds, TypeOK, OwnerPoints, workerVars
  <2>2. CASE Unresumable \/ CancelSuspended
    BY <2>2 DEF Unresumable, CancelSuspended, TypeOK, OwnerPoints, workerVars
  <2>3. CASE FinalizeRun \/ FinalizeCanceledAdoptedRun \/ CancelCompleted
    BY <2>3 DEF FinalizeRun, FinalizeCanceledAdoptedRun, CancelCompleted, TypeOK,
                OwnerPoints, workerVars
  <2>4. CASE ClassifyAsyncException
    BY <2>4 DEF ClassifyAsyncException, TypeOK, OwnerPoints, workerVars
  <2>5. CASE \E fails \in BOOLEAN : RunCancelHooks(fails)
    BY <2>5 DEF RunCancelHooks, TypeOK, OwnerPoints, workerVars
  <2> QED
    BY <2>1, <2>2, <2>3, <2>4, <2>5
<1>3. Holders' = Holders /\ LeaseCount'
  BY <1>1, OwnerKeepsCount
<1> QED
  BY <1>1, <1>2, <1>3
  DEF StoppedOutsideBody, NoHolderBehindBarrier, BuffersFlushed, workerVars

\* request_context_stop without its callbacks.
LEMMA StopPreserves ==
    ASSUME IInv, StopLoad \/ StopStore \/ StopSignal \/ StopReturns
    PROVE  IInv'
<1> USE DEF IInv, GoTo
<1>1. /\ UNCHANGED <<workerVars, adopted>>
      /\ pc \in {"stop", "stopStore", "stopSignal", "callbacks"}
      /\ pc' \in {"stopStore", "stopSignal", "callbacks", "wait", "ready", "hooks"}
      /\ state' = state \/ state' = "Stopping"
      /\ pc' # "stopStore" => state' # "Running"
  BY DEF StopLoad, StopStore, StopSignal, StopReturns, TypeOK, StoppedOutsideBody
<1>2. TypeOK'
  <2>1. CASE StopLoad
    BY <2>1 DEF StopLoad, TypeOK, OwnerPoints, workerVars
  <2>2. CASE StopStore
    BY <2>2 DEF StopStore, TypeOK, OwnerPoints, ContextStates, workerVars
  <2>3. CASE StopSignal
    BY <2>3, ConstantsAssumption DEF StopSignal, TypeOK, OwnerPoints, workerVars
  <2>4. CASE StopReturns
    BY <2>4 DEF StopReturns, TypeOK, OwnerPoints, workerVars
  <2> QED
    BY <2>1, <2>2, <2>3, <2>4
<1>3. Holders' = Holders /\ LeaseCount'
  BY <1>1, OwnerKeepsCount
<1> QED
  BY <1>1, <1>2, <1>3
  DEF StoppedOutsideBody, NoHolderBehindBarrier, BuffersFlushed, workerVars

\* A stop callback's lease, taken and given back on the runner thread.
LEMMA CallbackPreserves ==
    ASSUME IInv, CallbackLeases \/ CallbackLogs \/ CallbackCloses
    PROVE  IInv'
<1> USE DEF IInv, GoTo
<1>1. Holders' = Holders /\ UNCHANGED workerVars
  BY DEF CallbackLeases, CallbackLogs, CallbackCloses, Holders, workerVars
<1>2. CASE CallbackLeases
  <2>1. TypeOK' /\ LeaseCount'
    BY <1>1, <1>2, HoldersFinite
    DEF CallbackLeases, TypeOK, OwnerPoints, LeaseCount, CallbackLease, workerVars
  <2> QED
    BY <1>1, <1>2, <2>1 DEF CallbackLeases, StoppedOutsideBody, NoHolderBehindBarrier,
                            BuffersFlushed, workerVars
<1>3. CASE CallbackLogs
  <2>1. TypeOK' /\ LeaseCount'
    BY <1>1, <1>3, HoldersFinite
    DEF CallbackLogs, TypeOK, OwnerPoints, LeaseCount, CallbackLease, workerVars
  <2> QED
    BY <1>1, <1>3, <2>1 DEF CallbackLogs, StoppedOutsideBody, NoHolderBehindBarrier,
                            BuffersFlushed, workerVars
<1>4. CASE CallbackCloses
  <2>1. TypeOK' /\ LeaseCount'
    BY <1>1, <1>4, HoldersFinite, ClosedIfReleasedSafe
    DEF CallbackCloses, TypeOK, OwnerPoints, LeaseCount, CallbackLease, workerVars
  <2> QED
    BY <1>1, <1>4, <2>1, ClosedIfReleasedSafe
    DEF CallbackCloses, StoppedOutsideBody, NoHolderBehindBarrier, BuffersFlushed, workerVars
<1> QED
  BY <1>2, <1>3, <1>4

\* The barrier: the owner passes it only when no lease is out, and records behind it.
LEMMA BarrierPreserves ==
    ASSUME IInv, CloseCanceled \/ WaitForAdoptedContexts \/ CloseAndRecord
    PROVE  IInv'
<1> USE DEF IInv, GoTo
<1>1. Holders' = Holders /\ LeaseCount' /\ UNCHANGED <<workerVars, adopted>>
  BY OwnerKeepsCount DEF CloseCanceled, WaitForAdoptedContexts, CloseAndRecord
<1>2. TypeOK'
  BY ClosedIfReleasedSafe
  DEF CloseCanceled, WaitForAdoptedContexts, CloseAndRecord, TypeOK, OwnerPoints,
      ContextStates, workerVars
<1>3. CASE CloseCanceled
  BY <1>1, <1>2, <1>3, ClosedIfReleasedSafe
  DEF CloseCanceled, StoppedOutsideBody, NoHolderBehindBarrier, BuffersFlushed, workerVars
<1>4. CASE WaitForAdoptedContexts
  <2>1. pc' = "close" => Holders = {}
    BY <1>4, NoLeaseNoHolder DEF WaitForAdoptedContexts
  <2> QED
    BY <1>1, <1>2, <1>4, <2>1
    DEF WaitForAdoptedContexts, StoppedOutsideBody, NoHolderBehindBarrier, BuffersFlushed,
        workerVars
<1>5. CASE CloseAndRecord
  <2>1. Holders = {} /\ adopted = 0 /\ state # "Running"
    BY <1>5, FS_EmptySet
    DEF CloseAndRecord, NoHolderBehindBarrier, StoppedOutsideBody, LeaseCount, CallbackLease
  <2>2. state' = "Closed"
    BY <1>5, <2>1, ClosedIfReleasedSafe DEF CloseAndRecord
  <2> QED
    BY <1>1, <1>2, <1>5, <2>1, <2>2
    DEF CloseAndRecord, StoppedOutsideBody, NoHolderBehindBarrier, BuffersFlushed, workerVars
<1> QED
  BY <1>3, <1>4, <1>5

\* A wakeup of adopted_cv, and a step that changes nothing.
LEMMA IdlePreserves ==
    ASSUME IInv, SpuriousWakeup \/ UNCHANGED vars
    PROVE  IInv'
<1>1. /\ UNCHANGED <<state, adopted, pc, wpc, buf>>
      /\ TypeOK'
  <2>1. CASE SpuriousWakeup
    BY <2>1 DEF IInv, SpuriousWakeup, TypeOK, workerVars
  <2>2. CASE UNCHANGED vars
    BY <2>2 DEF IInv, vars, TypeOK
  <2> QED
    BY <2>1, <2>2
<1>2. Holders' = Holders
  BY <1>1 DEF Holders
<1> QED
  BY <1>1, <1>2 DEF IInv, LeaseCount, CallbackLease, StoppedOutsideBody,
                    NoHolderBehindBarrier, BuffersFlushed

\* Every step of the specification preserves the invariant.
LEMMA NextIInv == IInv /\ [Next]_vars => IInv'
<1> SUFFICES ASSUME IInv, [Next]_vars PROVE IInv'
  OBVIOUS
<1>1. CASE OwnerStep
  BY <1>1, DisposePreserves, StopPreserves, CallbackPreserves, BarrierPreserves
  DEF OwnerStep
<1>2. CASE SpuriousWakeup \/ UNCHANGED vars
  BY <1>2, IdlePreserves
<1>3. CASE \E w \in Workers : WorkerStep(w)
  BY <1>3, AcquirePreserves, LogPreserves, FlushPreserves, ReleasePreserves,
     CloseReleasedPreserves, NotifyPreserves DEF WorkerStep, LeaseEnds
<1> QED
  BY <1>1, <1>2, <1>3 DEF Next, Step, Terminated

------------------------------------------------------------------------------
(* Theorems.                                                                *)

\* The inductive invariant holds in every reachable state.
THEOREM Invariance == Spec => []IInv
BY InitIInv, NextIInv, PTL DEF Spec

\* Every variable keeps its type; in particular adopted_contexts, which
\* release_adopted_context decrements, never goes below zero.
THEOREM TypeCorrect == Spec => []TypeOK
<1>1. IInv => TypeOK
  BY DEF IInv
<1> QED
  BY <1>1, Invariance, PTL

\* A worker that holds a lease never finds the context closed, for any number of
\* workers, stop callbacks and cancellations.
THEOREM LeaseKeepsOpen == Spec => []LeaseKeepsContextOpen
<1>1. IInv => LeaseKeepsContextOpen
  BY DEF IInv, NoHolderBehindBarrier, Holders, LeaseKeepsContextOpen
<1> QED
  BY <1>1, Invariance, PTL

\* A result is recorded only when every lease is back, every worker's lines have
\* reached the context and the context is closed.
THEOREM Barrier == Spec => []RecordedAfterBarrier
<1>1. IInv => RecordedAfterBarrier
  BY FS_EmptySet DEF IInv, NoHolderBehindBarrier, LeaseCount, CallbackLease, BuffersFlushed,
                     Holders, RecordedAfterBarrier
<1> QED
  BY <1>1, Invariance, PTL

\* One-shot accounting: no step of any thread changes the logs, the failures or the
\* state of a context whose result is recorded.
THEOREM OneShot == Spec => NothingAfterRecorded
<1>1. IInv /\ [Next]_vars => [pc = "recorded" => UNCHANGED <<logs, failures, state>>]_vars
  <2> SUFFICES ASSUME IInv, Next, pc = "recorded"
               PROVE  UNCHANGED <<logs, failures, state>>
    OBVIOUS
  <2>1. Holders = {} /\ state = "Closed"
    BY DEF IInv, NoHolderBehindBarrier
  <2>2. CASE OwnerStep
    BY <2>2 DEF OwnerStep, SyncBodyEnds, AsyncBodyEnds, Unresumable, CancelSuspended,
       StopLoad, StopStore, StopSignal, StopReturns, CallbackLeases, CallbackLogs,
       CallbackCloses, FinalizeRun, FinalizeCanceledAdoptedRun, CancelCompleted,
       ClassifyAsyncException, RunCancelHooks, CloseCanceled, WaitForAdoptedContexts,
       CloseAndRecord
  <2>3. CASE \E w \in Workers : WorkerStep(w)
    <3>1. PICK w \in Workers : WorkerStep(w)
      BY <2>3
    <3>2. wpc[w] # "leased"
      BY <2>1 DEF Holders
    <3>3. ClosedIfReleased = "Closed"
      BY <2>1, ClosedIfReleasedSafe
    <3> QED
      BY <2>1, <3>1, <3>2, <3>3 DEF WorkerStep, LeaseEnds, AcquireLease, WorkerLog,
         FlushLease, ReleaseLease, CloseReleased, NotifyReleased
  <2> QED
    BY <2>2, <2>3 DEF Next, Step, SpuriousWakeup, Terminated, vars
<1> QED
  BY <1>1, Invariance, PTL DEF Spec, NothingAfterRecorded

\* What keeps log() and record_failure away from a closed context.
NothingLate ==
    /\ ~aborted
    /\ outcome # "throws"
    /\ callbacks = 0
    /\ pc \notin {"cbLeased", "cbReleased"}

\* The runner never aborts the process for a program whose async bodies do not throw,
\* whose stop callbacks do not log and whose cancel hooks do not fail: log() through a
\* lease always finds the context open.
THEOREM NoAbort ==
    ASSUME Callbacks = 0, "throws" \notin Outcomes, HookFails = FALSE
    PROVE  Spec => []NeverAborts
<1>1. Init => NothingLate
  BY DEF Init, NothingLate
<1>2. IInv /\ NothingLate /\ [Next]_vars => NothingLate'
  <2> SUFFICES ASSUME IInv, NothingLate, [Next]_vars
               PROVE  NothingLate'
    OBVIOUS
  <2> USE DEF NothingLate
  <2>1. CASE \E o \in Outcomes : SyncBodyEnds(o) \/ AsyncBodyEnds(o)
    BY <2>1 DEF SyncBodyEnds, AsyncBodyEnds, CallStop
  <2>2. CASE Unresumable \/ CancelSuspended
    BY <2>2 DEF Unresumable, CancelSuspended, CallStop
  <2>3. CASE StopLoad \/ StopStore \/ StopSignal \/ StopReturns
    BY <2>3 DEF StopLoad, StopStore, StopSignal, StopReturns, GoTo, IInv, TypeOK
  <2>4. CASE CallbackLeases \/ CallbackLogs \/ CallbackCloses
    BY <2>4 DEF CallbackLeases, CallbackLogs, CallbackCloses
  <2>5. CASE FinalizeRun \/ FinalizeCanceledAdoptedRun \/ CancelCompleted
    BY <2>5 DEF FinalizeRun, FinalizeCanceledAdoptedRun, CancelCompleted, GoTo, CallStop
  <2>6. CASE ClassifyAsyncException \/ \E fails \in BOOLEAN : RunCancelHooks(fails)
    BY <2>6 DEF ClassifyAsyncException, RunCancelHooks, GoTo, CallStop
  <2>7. CASE CloseCanceled \/ WaitForAdoptedContexts \/ CloseAndRecord
    BY <2>7 DEF CloseCanceled, WaitForAdoptedContexts, CloseAndRecord, GoTo
  <2>8. CASE \E w \in Workers : WorkerLog(w)
    <3>1. \A w \in Workers : wpc[w] = "leased" => state # "Closed"
      BY DEF IInv, NoHolderBehindBarrier, Holders
    <3> QED
      BY <2>8, <3>1 DEF WorkerLog
  <2>9. CASE \E w \in Workers : AcquireLease(w) \/ LeaseEnds(w)
    BY <2>9 DEF AcquireLease, LeaseEnds, FlushLease, ReleaseLease, CloseReleased,
                NotifyReleased
  <2>10. CASE SpuriousWakeup
    BY <2>10 DEF SpuriousWakeup
  <2>11. CASE UNCHANGED vars
    BY <2>11 DEF vars
  <2> QED
    BY <2>1, <2>2, <2>3, <2>4, <2>5, <2>6, <2>7, <2>8, <2>9, <2>10, <2>11
    DEF Next, Step, OwnerStep, WorkerStep, Terminated
<1>3. NothingLate => NeverAborts
  BY DEF NothingLate, NeverAborts
<1> QED
  BY <1>1, <1>2, <1>3, Invariance, PTL DEF Spec
==============================================================================
