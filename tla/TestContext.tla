----------------------------- MODULE TestContext -----------------------------
(***************************************************************************)
(* The life of one TestContextInfo: the record a test case runs under.     *)
(*                                                                         *)
(* The owner thread (the runner) starts the context, runs the test body,   *)
(* requests stop, waits for the leases that worker threads hold on the     *)
(* context (CurrentContextLease), closes it and records the result.        *)
(* Workers take a lease, log through it and give it back at any moment.    *)
(*                                                                         *)
(* Every critical section of adopted_mtx, every load and every store of    *)
(* the atomic `state` is one step.  A thread's log lines are abstracted to *)
(* their number; the failures of a context to whether there is one.        *)
(***************************************************************************)
EXTENDS Naturals, FiniteSets

CONSTANTS
    Workers,    \* threads the test hands its CurrentContext to
    MaxLogs,    \* bound on the log() calls of one worker
    Callbacks,  \* stop callbacks on the stop_token that lease the context and log
    Outcomes,   \* how a test body may end: subset of BodyOutcomes
    Kinds,      \* which runner executes the case: subset of {"sync", "async"}
    FailFast,   \* --fail-fast
    HookFails   \* a cancel hook (async local fixture teardown) may fail

BodyOutcomes == {"returns", "asserts", "throws"}

ASSUME ConstantsAssumption ==
    /\ IsFiniteSet(Workers)
    /\ MaxLogs \in Nat
    /\ Callbacks \in Nat
    /\ Outcomes \subseteq BodyOutcomes
    /\ Kinds \subseteq {"sync", "async"}
    /\ FailFast \in BOOLEAN
    /\ HookFails \in BOOLEAN

VARIABLES
    state,      \* TestContextInfo::state
    adopted,    \* TestContextInfo::adopted_contexts
    stop,       \* stop_source: has stop been requested?
    logs,       \* number of lines in TestContextInfo::logs
    failures,   \* is TestContextInfo::failures non-empty?
    waiting,    \* is the owner blocked in adopted_cv?
    kind,       \* sync or async case
    outcome,    \* how the body ended ("none" before that)
    plan,       \* how the runner disposes of the case, chosen after the body
    pc, ret,    \* owner: where it is, and where request_context_stop returns to
    callbacks,  \* stop callbacks still to run
    wpc,        \* workers: where each one is
    buf,        \* lines in each worker's thread-local TestContextLocalBuffer
    aborted     \* fail_without_active_context has aborted the process

vars == <<state, adopted, stop, logs, failures, waiting, kind, outcome, plan,
          pc, ret, callbacks, wpc, buf, aborted>>

ContextStates == {"Running", "Stopping", "Closed"}
OwnerPoints == {"body", "stop", "stopStore", "stopSignal", "callbacks", "cbLeased",
                "cbReleased", "ready", "classify", "hooks", "closeIf", "wait",
                "close", "recorded", "dropped"}
WorkerPoints == {"idle", "leased", "flushed", "released", "closed", "done"}

\* Workers inside a CurrentContextLease: counted by adopted_contexts.
Holders == {w \in Workers : wpc[w] \in {"leased", "flushed"}}

Init ==
    /\ state = "Running"        \* start_context
    /\ adopted = 0
    /\ stop = FALSE
    /\ logs = 0
    /\ failures = FALSE
    /\ waiting = FALSE
    /\ kind \in Kinds
    /\ outcome = "none"
    /\ plan = "finish"
    /\ pc = "body"
    /\ ret = "wait"
    /\ callbacks = 0
    /\ wpc = [w \in Workers |-> "idle"]
    /\ buf = [w \in Workers |-> 0]
    /\ aborted = FALSE

------------------------------------------------------------------------------
(* Workers: CurrentContextLease and log().                                  *)

\* The handoff contract of the documentation: a worker leases the context while
\* the test body runs, or while another lease is held.
MayLease(w) == pc = "body" \/ \E v \in Workers \ {w} : wpc[v] = "leased"

\* Mutant: the count is taken for a lease only when one is already out.
AcquireLeaseUncounted(w) ==
    /\ wpc[w] = "idle" /\ MayLease(w)
    /\ adopted' = IF adopted = 0 THEN 0 ELSE adopted + 1
    /\ wpc' = [wpc EXCEPT ![w] = "leased"]
    /\ UNCHANGED <<state, stop, logs, failures, waiting, kind, outcome, plan, pc,
                   ret, callbacks, buf, aborted>>

\* The lease constructor: acquire_adopted_context under adopted_mtx, then
\* set_current_test, which only writes thread-local state.
AcquireLease(w) ==
    /\ wpc[w] = "idle" /\ MayLease(w)
    /\ adopted' = adopted + 1
    /\ wpc' = [wpc EXCEPT ![w] = "leased"]
    /\ UNCHANGED <<state, stop, logs, failures, waiting, kind, outcome, plan, pc,
                   ret, callbacks, buf, aborted>>

\* log() through a lease: aborts the process on a closed context.
WorkerLog(w) ==
    /\ wpc[w] = "leased" /\ buf[w] < MaxLogs
    /\ aborted' = (state = "Closed")
    /\ buf' = IF state = "Closed" THEN buf ELSE [buf EXCEPT ![w] = @ + 1]
    /\ UNCHANGED <<state, adopted, stop, logs, failures, waiting, kind, outcome,
                   plan, pc, ret, callbacks, wpc>>

\* The lease destructor, first part: set_current_test(previous) flushes the
\* thread's buffer into the context under ctx->mtx.
FlushLease(w) ==
    /\ wpc[w] = "leased"
    /\ logs' = logs + buf[w]
    /\ buf' = [buf EXCEPT ![w] = 0]
    /\ wpc' = [wpc EXCEPT ![w] = "flushed"]
    /\ UNCHANGED <<state, adopted, stop, failures, waiting, kind, outcome, plan, pc,
                   ret, callbacks, aborted>>

\* release_adopted_context: only the last lease goes on to close and notify.
ReleaseLease(w) ==
    /\ wpc[w] = "flushed"
    /\ adopted' = adopted - 1
    /\ wpc' = [wpc EXCEPT ![w] = IF adopted = 1 THEN "released" ELSE "done"]
    /\ UNCHANGED <<state, stop, logs, failures, waiting, kind, outcome, plan, pc,
                   ret, callbacks, buf, aborted>>

\* Mutant: the count is not read again under the lock.
ClosedIfStopping == IF state = "Running" THEN state ELSE "Closed"

\* What close_context_if_released leaves in `state`: it re-reads the count and the
\* state under adopted_mtx.
ClosedIfReleased ==
    IF adopted # 0 \/ state = "Running" THEN state ELSE "Closed"

CloseReleased(w) ==
    /\ wpc[w] = "released"
    /\ state' = ClosedIfReleased
    /\ wpc' = [wpc EXCEPT ![w] = "closed"]
    /\ UNCHANGED <<adopted, stop, logs, failures, waiting, kind, outcome, plan, pc,
                   ret, callbacks, buf, aborted>>

\* Mutant: only the scheduler's wakes are notified, not adopted_cv.
NotifyProgressOnly(w) ==
    /\ wpc[w] = "closed"
    /\ wpc' = [wpc EXCEPT ![w] = "done"]
    /\ UNCHANGED <<state, adopted, stop, logs, failures, waiting, kind, outcome, plan,
                   pc, ret, callbacks, buf, aborted>>

\* notify_adopted_contexts_released, outside adopted_mtx.
NotifyReleased(w) ==
    /\ wpc[w] = "closed"
    /\ waiting' = FALSE
    /\ wpc' = [wpc EXCEPT ![w] = "done"]
    /\ UNCHANGED <<state, adopted, stop, logs, failures, kind, outcome, plan, pc,
                   ret, callbacks, buf, aborted>>

------------------------------------------------------------------------------
(* Owner: the test body and how it ends.                                    *)

workerVars == <<wpc, buf>>

GoTo(p) == pc' = p
CallStop(p) == pc' = "stop" /\ ret' = p

\* A sync body ends inside invoke_case_once, whose handlers record the failure of
\* a thrown exception at once; ~CurrentTestScope then finishes the context.
SyncBodyEnds(o) ==
    /\ pc = "body" /\ kind = "sync"
    /\ outcome' = o
    /\ failures' = (o # "returns")
    /\ CallStop("wait")
    /\ UNCHANGED <<state, adopted, stop, logs, waiting, kind, plan, callbacks,
                   workerVars, aborted>>

\* An async body ends inside resume_one_ready: the exception stays in the task, and
\* complete() requests stop and marks the run ready_to_finalize.
AsyncBodyEnds(o) ==
    /\ pc = "body" /\ kind = "async"
    /\ outcome' = o
    /\ failures' = (o = "asserts")
    /\ CallStop("ready")
    /\ UNCHANGED <<state, adopted, stop, logs, waiting, kind, plan, callbacks,
                   workerVars, aborted>>

\* finish_unresumable: no lease, no timer and no ready work can resume the case.
\* The failure is recorded and the hooks run before complete() requests stop.
Unresumable ==
    /\ pc = "body" /\ kind = "async" /\ adopted = 0
    /\ outcome' = "unresumable"
    /\ failures' = TRUE
    /\ CallStop("ready")
    /\ UNCHANGED <<state, adopted, stop, logs, waiting, kind, plan, callbacks,
                   workerVars, aborted>>

\* cancel_pending_async_group meets a case that is still suspended.  With a lease
\* out its task is destroyed after the last release, else at once.
CancelSuspended ==
    /\ pc = "body" /\ kind = "async" /\ FailFast
    /\ outcome' = "canceled"
    /\ plan' = IF adopted # 0 THEN "drop" ELSE "discard"
    /\ CallStop("hooks")
    /\ UNCHANGED <<state, adopted, stop, logs, failures, waiting, kind, callbacks,
                   workerVars, aborted>>

------------------------------------------------------------------------------
(* Owner: request_context_stop, called as a subroutine that returns to ret. *)

StopLoad ==
    /\ pc = "stop"
    /\ GoTo(IF state = "Closed" THEN ret ELSE "stopStore")
    /\ UNCHANGED <<state, adopted, stop, logs, failures, waiting, kind, outcome,
                   plan, ret, callbacks, workerVars, aborted>>

\* The store does not look again at the state that was loaded.
StopStore ==
    /\ pc = "stopStore"
    /\ state' = "Stopping"
    /\ GoTo("stopSignal")
    /\ UNCHANGED <<adopted, stop, logs, failures, waiting, kind, outcome, plan, ret,
                   callbacks, workerVars, aborted>>

\* request_stop runs the registered callbacks on this thread, the first time only.
StopSignal ==
    /\ pc = "stopSignal"
    /\ stop' = TRUE
    /\ callbacks' = IF stop THEN 0 ELSE Callbacks
    /\ GoTo("callbacks")
    /\ UNCHANGED <<state, adopted, logs, failures, waiting, kind, outcome, plan, ret,
                   workerVars, aborted>>

\* A stop callback leases the context as the documentation tells it to.
CallbackLeases ==
    /\ pc = "callbacks" /\ callbacks > 0
    /\ callbacks' = callbacks - 1
    /\ adopted' = adopted + 1
    /\ GoTo("cbLeased")
    /\ UNCHANGED <<state, stop, logs, failures, waiting, kind, outcome, plan, ret,
                   workerVars, aborted>>

\* It logs, and its lease ends: the line is flushed and the count goes down.
CallbackLogs ==
    /\ pc = "cbLeased"
    /\ aborted' = (state = "Closed")
    /\ logs' = IF state = "Closed" THEN logs ELSE logs + 1
    /\ adopted' = adopted - 1
    /\ GoTo(IF adopted = 1 THEN "cbReleased" ELSE "callbacks")
    /\ UNCHANGED <<state, stop, failures, waiting, kind, outcome, plan, ret,
                   callbacks, workerVars>>

CallbackCloses ==
    /\ pc = "cbReleased"
    /\ state' = ClosedIfReleased
    /\ GoTo("callbacks")
    /\ UNCHANGED <<adopted, stop, logs, failures, waiting, kind, outcome, plan, ret,
                   callbacks, workerVars, aborted>>

StopReturns ==
    /\ pc = "callbacks" /\ callbacks = 0
    /\ GoTo(ret)
    /\ UNCHANGED <<state, adopted, stop, logs, failures, waiting, kind, outcome,
                   plan, ret, callbacks, workerVars, aborted>>

------------------------------------------------------------------------------
(* Owner: disposing of a completed async case.                              *)

\* finalize_completed_runs takes a completed case once no lease is out.
FinalizeRun ==
    /\ pc = "ready" /\ adopted = 0
    /\ plan' = "finish"
    /\ GoTo("classify")
    /\ UNCHANGED <<state, adopted, stop, logs, failures, waiting, kind, outcome, ret,
                   callbacks, workerVars, aborted>>

\* With fail-fast a case that will stop the run is taken with its leases out
\* (finalize_canceled_adopted_run) ...
FinalizeCanceledAdoptedRun ==
    /\ pc = "ready" /\ FailFast /\ adopted # 0 /\ outcome # "returns"
    /\ plan' = "record"
    /\ GoTo("classify")
    /\ UNCHANGED <<state, adopted, stop, logs, failures, waiting, kind, outcome, ret,
                   callbacks, workerVars, aborted>>

\* ... and a case that another one stops (cancel_pending_async_group) is recorded
\* after its leases are back, or discarded unrecorded if no lease is out.  The last loop
\* of finish_pending_async_group treats a case with a lease in the same way.
CancelCompleted ==
    /\ pc = "ready" /\ (FailFast \/ adopted # 0)
    /\ plan' = IF adopted # 0 THEN "record" ELSE "discard"
    /\ IF adopted # 0 THEN GoTo("classify") /\ ret' = ret ELSE CallStop("hooks")
    /\ UNCHANGED <<state, adopted, stop, logs, failures, waiting, kind, outcome,
                   callbacks, workerVars, aborted>>

\* classify_async_exception records the failure of a thrown exception through
\* record_failure, which aborts the process on a closed context.
ClassifyAsyncException ==
    /\ pc = "classify"
    /\ aborted' = (outcome = "throws" /\ state = "Closed")
    /\ failures' = (failures \/ outcome = "throws")
    /\ CallStop(IF plan = "finish" THEN "wait" ELSE "hooks")
    /\ UNCHANGED <<state, adopted, stop, logs, waiting, kind, outcome, plan,
                   callbacks, workerVars>>

\* run_context_cancel_hooks: the hooks of a suspended case are still registered; a
\* failing fixture teardown is recorded through record_failure.
RunCancelHooks(fails) ==
    /\ pc = "hooks"
    /\ fails => HookFails /\ outcome = "canceled"
    /\ aborted' = (fails /\ state = "Closed")
    /\ failures' = (failures \/ fails)
    /\ GoTo("closeIf")
    /\ UNCHANGED <<state, adopted, stop, logs, waiting, kind, outcome, plan, ret,
                   callbacks, workerVars>>

\* The close_context_if_released that ends cancel_active_test_context_without_wait.
CloseCanceled ==
    /\ pc = "closeIf"
    /\ state' = ClosedIfReleased
    /\ GoTo(IF plan = "discard" THEN "dropped" ELSE "wait")
    /\ UNCHANGED <<adopted, stop, logs, failures, waiting, kind, outcome, plan, ret,
                   callbacks, workerVars, aborted>>

------------------------------------------------------------------------------
(* Owner: the barrier and the result.                                       *)

\* Mutant: the barrier is gone.
SkipBarrier ==
    /\ pc = "wait" /\ ~waiting
    /\ GoTo("close")
    /\ UNCHANGED <<state, adopted, stop, logs, failures, waiting, kind, outcome, plan,
                   ret, callbacks, workerVars, aborted>>

\* Mutant: an off-by-one lets the barrier open while one lease is still out.
WaitForAllButOne ==
    /\ pc = "wait" /\ ~waiting
    /\ IF adopted <= 1 THEN GoTo("close") /\ waiting' = FALSE
                       ELSE GoTo("wait") /\ waiting' = TRUE
    /\ UNCHANGED <<state, adopted, stop, logs, failures, kind, outcome, plan, ret,
                   callbacks, workerVars, aborted>>

\* wait_for_adopted_contexts: the predicate is tested under adopted_mtx, which
\* adopted_cv releases when it blocks.
WaitForAdoptedContexts ==
    /\ pc = "wait" /\ ~waiting
    /\ IF adopted = 0 THEN GoTo("close") /\ waiting' = FALSE
                      ELSE GoTo("wait") /\ waiting' = TRUE
    /\ UNCHANGED <<state, adopted, stop, logs, failures, kind, outcome, plan, ret,
                   callbacks, workerVars, aborted>>

\* A condition variable may wake its waiter for no reason.
SpuriousWakeup ==
    /\ waiting
    /\ waiting' = FALSE
    /\ UNCHANGED <<state, adopted, stop, logs, failures, kind, outcome, plan, pc,
                   ret, callbacks, workerVars, aborted>>

\* finish_active_test_context stores Closed without a lock; a cancelled case is
\* closed by close_context_if_released.  The result is then recorded.
CloseAndRecord ==
    /\ pc = "close"
    /\ state' = IF plan = "finish" THEN "Closed" ELSE ClosedIfReleased
    /\ GoTo(IF plan = "drop" THEN "dropped" ELSE "recorded")
    /\ UNCHANGED <<adopted, stop, logs, failures, waiting, kind, outcome, plan, ret,
                   callbacks, workerVars, aborted>>

------------------------------------------------------------------------------
OwnerStep ==
    \/ \E o \in Outcomes : SyncBodyEnds(o) \/ AsyncBodyEnds(o)
    \/ Unresumable \/ CancelSuspended
    \/ StopLoad \/ StopStore \/ StopSignal \/ StopReturns
    \/ CallbackLeases \/ CallbackLogs \/ CallbackCloses
    \/ FinalizeRun \/ FinalizeCanceledAdoptedRun \/ CancelCompleted
    \/ ClassifyAsyncException
    \/ \E fails \in BOOLEAN : RunCancelHooks(fails)
    \/ CloseCanceled \/ WaitForAdoptedContexts \/ CloseAndRecord

\* The steps that end a lease; AcquireLease and WorkerLog are up to the program.
LeaseEnds(w) == FlushLease(w) \/ ReleaseLease(w) \/ CloseReleased(w) \/ NotifyReleased(w)

WorkerStep(w) == AcquireLease(w) \/ WorkerLog(w) \/ LeaseEnds(w)

Finished == pc \in {"recorded", "dropped"}

\* The program is over: nothing is left to do, or the process has aborted.
Terminated ==
    /\ aborted \/ (Finished /\ \A w \in Workers : wpc[w] \in {"idle", "done"})
    /\ UNCHANGED vars

Step == OwnerStep \/ SpuriousWakeup \/ \E w \in Workers : WorkerStep(w)

Next == (~aborted /\ Step) \/ Terminated

Spec == Init /\ [][Next]_vars

\* The runner thread is never stopped, and the documentation's contract is that
\* every lease is given back.
Fairness ==
    /\ WF_vars(~aborted /\ OwnerStep)
    /\ \A w \in Workers : WF_vars(~aborted /\ LeaseEnds(w))

FairSpec == Spec /\ Fairness

------------------------------------------------------------------------------
TypeOK ==
    /\ state \in ContextStates
    /\ adopted \in Nat
    /\ stop \in BOOLEAN
    /\ logs \in Nat
    /\ failures \in BOOLEAN
    /\ waiting \in BOOLEAN
    /\ kind \in {"sync", "async"}
    /\ outcome \in BodyOutcomes \cup {"none", "unresumable", "canceled"}
    /\ plan \in {"finish", "record", "drop", "discard"}
    /\ pc \in OwnerPoints
    /\ ret \in {"wait", "ready", "hooks"}
    /\ callbacks \in Nat
    /\ wpc \in [Workers -> WorkerPoints]
    /\ buf \in [Workers -> Nat]
    /\ aborted \in BOOLEAN

\* A worker that holds a lease never finds the context closed under it, whatever
\* the other workers, the callbacks and the runner do (close_context_if_released
\* re-reads the count; the runner waits before it closes).
LeaseKeepsContextOpen ==
    (\E w \in Workers : wpc[w] = "leased") => state # "Closed"

\* The barrier in front of the result: when a result is recorded every lease is
\* back, every line a worker logged has reached the context and the context
\* refuses late operations.
RecordedAfterBarrier ==
    pc = "recorded" =>
        /\ adopted = 0
        /\ \A w \in Workers : buf[w] = 0
        /\ state = "Closed"

\* An exception that escapes a test body is recorded as a failure of that test and
\* the run goes on (README: "the runner records a failure ... and continues").
ThrownIsRecorded ==
    /\ ~aborted
    /\ pc = "recorded" /\ outcome = "throws" => failures

\* A stop callback that leases the context, as docs/async.md asks of one that logs,
\* finds it open.
LeasedCallbackFindsContextOpen == pc = "cbLeased" => state # "Closed"

\* log() through a lease and the runner's own bookkeeping never abort the process.
NeverAborts == ~aborted

\* One-shot accounting: once the result is recorded, no step of any thread changes
\* what it was computed from, or reopens the context.
NothingAfterRecorded ==
    [][pc = "recorded" => UNCHANGED <<logs, failures, state>>]_vars

\* Every case that leaves its body is recorded or dropped: the barrier never misses
\* the last lease's notification.
EveryCaseFinishes == pc # "body" ~> Finished
==============================================================================
