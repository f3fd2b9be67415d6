----------------------------- MODULE AsyncBatch ------------------------------
(***************************************************************************)
(* run_tests_async_batch and BatchAsyncScheduler: one pass of the runner    *)
(* over a plan that has async cases.                                       *)
(*                                                                         *)
(* The cases are 1..N in plan order.  Group gives the fixture group of each *)
(* case (the cases without a shared fixture are a group of their own).  The *)
(* runner starts the cases of a group one after another, resumes coroutines *)
(* from the FIFO ready queue in between, finishes the group, and records    *)
(* every result once.  Worker threads take leases on the cases' contexts,    *)
(* wake suspended cases and give the leases back at any moment; timers      *)
(* expire at any moment.  The runner sleeps on the wake generation          *)
(* (AdoptedReleaseWake), which a post and a last release change after they  *)
(* have taken effect.                                                       *)
(*                                                                         *)
(* A case is resumed, started, scanned or recorded in one step; the leases  *)
(* and the timers change between any two of them.  What happens inside a    *)
(* context is the subject of TestContext, the ready queue's of              *)
(* SchedulerCore.                                                           *)
(***************************************************************************)
EXTENDS Naturals, Sequences, FiniteSets, CaseResult

CONSTANTS
    Plans,       \* the plans to run
    BodyEnds,    \* how bodies may end: a subset of Ends
    MaxResumes,  \* bound on the resumptions of one coroutine
    MaxLeases,   \* bound on the leases taken on one context
    SideWakes    \* stop callbacks and cancel hooks of a case may wake other cases

\* A plan: the kind and the fixture group of each case, in order, the groups that need a
\* shared fixture, and --fail-fast.
IsPlan(p) ==
    /\ p.kind \in Seq({"sync", "async", "skip"})
    /\ p.group \in [DOMAIN p.kind -> Nat \ {0}]
    /\ \A c, d \in DOMAIN p.kind : c <= d => p.group[c] <= p.group[d]
    /\ p.shared \subseteq Nat
    /\ p.failFast \in BOOLEAN

ASSUME BatchAssumption ==
    /\ \A p \in Plans : IsPlan(p)
    /\ BodyEnds \subseteq Ends
    /\ MaxResumes \in Nat /\ MaxLeases \in Nat
    /\ SideWakes \in BOOLEAN

VARIABLES
    plan,       \* the plan being run
    st,         \* each case: "none", "ready", "suspended",
                \*  "completed" or "canceled"
    end,        \* how its body ended
    lease,      \* is a lease on its context out?
    begun,      \* how often one was taken
    closed,     \* has a worker's last release closed its context?
    resumes,    \* how often it has been resumed
    ready,      \* AsyncSchedulerCore::ready_
    timers,     \* cases with a pending timer
    due,        \* those whose deadline has passed, in order
    owed,       \* the posts and releases whose notification is still to come
    woken,      \* has the wake generation changed since the runner went to sleep?
    finalized,  \* AsyncCaseRun::finalized (for the other cases: they have run)
    result,     \* the recorded outcome, or "none"
    counters,   \* TestCounters
    stopReq,    \* fail_fast_stop_requested
    deferred,   \* deferred_canceled_tasks
    next,       \* the next case of the plan
    open,       \* the group being run
    pc,         \* where the runner is; "aborted": the process has aborted
    ret,        \* where the scan in progress, if any, returns to
    pumpRet,    \* where pump_async returns to
    finRet,     \* where finish_pending_async_group returns to
    i, k,       \* loop indices of the scan and of the group loops
    remaining   \* the ready work run_ready may still resume

leaseVars == <<lease, begun, closed>>
bodyVars == <<st, end, leaseVars, resumes>>
wakeVars == <<owed, woken>>
queueVars == <<ready, timers, due, wakeVars>>
bookVars == <<finalized, result, counters, stopReq, deferred>>
planVars == <<plan, next, open>>
ctrlVars == <<pc, ret, pumpRet, finRet, i, k, remaining>>
vars == <<bodyVars, queueVars, bookVars, planVars, ctrlVars>>

N == Len(plan.kind)
Case == 1..N
Kind == plan.kind
Group == plan.group
Shared == plan.shared
FailFast == plan.failFast

NoEnd == [exc |-> "None", failures |-> FALSE, skip |-> FALSE, infra |-> FALSE,
          xfail |-> FALSE]

Init ==
    /\ plan \in Plans
    /\ st = [c \in Case |-> "none"]
    /\ end = [c \in Case |-> NoEnd]
    /\ lease = [c \in Case |-> FALSE]
    /\ begun = [c \in Case |-> 0]
    /\ closed = [c \in Case |-> FALSE]
    /\ resumes = [c \in Case |-> 0]
    /\ ready = << >> /\ timers = {} /\ due = << >>
    /\ owed = 0 /\ woken = FALSE
    /\ finalized = [c \in Case |-> FALSE]
    /\ result = [c \in Case |-> "none"]
    /\ counters = NoCounters
    /\ stopReq = FALSE
    /\ deferred = << >>
    /\ next = 1 /\ open = 0
    /\ pc = "dispatch" /\ ret = "dispatch" /\ pumpRet = "start" /\ finRet = "dispatch"
    /\ i = 1 /\ k = 1 /\ remaining = 0


\* should_stop
StopsWith(cnt) == FailFast /\ (stopReq \/ cnt.failures > 0 \/ cnt.blocked > 0)
ShouldStop == StopsWith(counters)

\* async_runs: the async cases that have been started, and those still to be recorded.
Runs == {c \in Case : Kind[c] = "async" /\ c < next}
Unfinalized == {c \in Runs : ~finalized[c]}
Suspended == {c \in Runs : st[c] = "suspended"}
StopRequested(c) == st[c] \in {"completed", "canceled"}

InGroup(c) == c \in Case /\ Group[c] = open

\* Mutant: cancelling a case leaves it in the ready queue.
WithoutErase(q, W) == q

Without(q, W) == SelectSeq(q, LAMBDA c : c \notin W)

\* The orders in which the waiters in W can be posted.
Orders(W) == {q \in [1..Cardinality(W) -> W] : \A a, b \in DOMAIN q : q[a] = q[b] => a = b}

\* Bodies, stop callbacks and cancel hooks may set events and promises that other
\* suspended cases wait for.
Wakeable(c) == IF SideWakes THEN SUBSET (Suspended \ {c}) ELSE {{}}

\* A worker takes a lease in its own thread (set_current_context): at any moment after
\* the body was entered and could pass its context on.  Once the case is recorded its
\* leases are of no concern to the runner.
TakesLease(c) ==
    /\ resumes[c] > 0 /\ result[c] = "none"
    /\ ~lease[c] /\ begun[c] < MaxLeases
    /\ lease' = [lease EXCEPT ![c] = TRUE]
    /\ begun' = [begun EXCEPT ![c] = @ + 1]

Goto(p) ==
    /\ pc' = p
    /\ UNCHANGED <<ret, pumpRet, finRet, i, k, remaining>>

\* finalize_completed_runs is a subroutine of the loops below.
CallScan(r) ==
    /\ pc' = "scan" /\ i' = 1 /\ ret' = r
    /\ UNCHANGED <<pumpRet, finRet, k, remaining>>

CallPump(r) ==
    /\ pc' = "scan" /\ i' = 1 /\ ret' = "pump" /\ pumpRet' = r
    /\ UNCHANGED <<finRet, k, remaining>>

CallFinish(r) ==
    /\ pc' = "scan" /\ i' = 1 /\ ret' = "first" /\ finRet' = r
    /\ UNCHANGED <<pumpRet, k, remaining>>

------------------------------------------------------------------------------
(* finalize_completed_runs                                                  *)

\* The waiters W are posted in the order w, on top of the states f, the queue q and the
\* timers T; their own timers are void.
Posted(f, q, T, W, w) ==
    /\ st' = [c \in Case |-> IF c \in W THEN "ready" ELSE f[c]]
    /\ ready' = q \o w
    /\ timers' = T \ W
    /\ due' = Without(due, W)

\* The runs a scan takes: completed, and either free of leases or, with --fail-fast,
\* bound to stop the run whatever their leases do.
ForceStop(c) == FailFast /\ lease[c] /\ WouldStop(end[c])
Takes(c) == c \in Unfinalized /\ st[c] = "completed" /\ (lease[c] => ForceStop(c))

\* The next run the scan takes.
TakesNext(c) == c \in i..N /\ Takes(c) /\ \A d \in i..(c - 1) : ~Takes(d)

\* classify_async_exception records the failure of a body that threw; in a context
\* that a worker's last release has closed this aborts the process.
Aborts(c) == closed[c] /\ end[c].exc = "Throws"

\* The runs whose exception the runner classifies next: the one the scan takes, and
\* those the loops over the runs left at the end of a group and to be cancelled are at.
Classifying ==
    {c \in Unfinalized : \/ pc = "scan" /\ TakesNext(c)
                         \/ pc = "left" /\ c = k
                         \/ pc = "cancel" /\ c = k /\ lease[c]}

AbortInClassify ==
    /\ \E c \in Classifying : st[c] = "completed" /\ Aborts(c)
    /\ Goto("aborted")
    /\ UNCHANGED <<bodyVars, queueVars, bookVars, planVars>>

Record(c, e, cnt) ==
    /\ counters' = Count(cnt, Classified(e))
    /\ result' = [result EXCEPT ![c] = Outcome(Classified(e))]

\* finalize_completed_runs returns.  A reason to stop that is found inside
\* finish_unresumable leads to the scan that follows it; any other leads out of the plan.
ScanReturns(stop) ==
    IF stop /\ ret \in {"drain", "idle", "stuck"} THEN CallScan("left")
    ELSE Goto(IF stop THEN "end" ELSE IF ret = "first" THEN "drain" ELSE ret)

\* finalize_run: ++total, classify, wait for the leases, close, record.
FinalizeRun ==
    /\ pc = "scan"
    /\ \E c \in Unfinalized :
        /\ TakesNext(c) /\ ~lease[c] /\ ~Aborts(c)
        /\ finalized' = [finalized EXCEPT ![c] = TRUE]
        /\ Record(c, end[c], Begin(counters))
        /\ IF StopsWith(counters') THEN ScanReturns(TRUE)
           ELSE i' = c + 1 /\ UNCHANGED <<pc, ret, pumpRet, finRet, k, remaining>>
    /\ UNCHANGED <<bodyVars, queueVars, stopReq, deferred, planVars>>

\* finalize_canceled_adopted_run up to its wait.  Its hooks may wake other cases.
ForceFinalize ==
    /\ pc = "scan"
    /\ \E c \in Unfinalized :
        /\ TakesNext(c) /\ lease[c] /\ ~Aborts(c)
        /\ finalized' = [finalized EXCEPT ![c] = TRUE]
        /\ i' = c
        /\ \E W \in Wakeable(c) : \E q \in Orders(W) : Posted(st, ready, timers, W, q)
    /\ stopReq' = TRUE
    /\ counters' = Begin(counters)
    /\ pc' = "forced"
    /\ UNCHANGED <<end, leaseVars, resumes, wakeVars, result, deferred, planVars, ret, pumpRet,
                   finRet, k, remaining>>

\* Mutant: the case is counted again when its leases are back.
RecordForcedTwice ==
    /\ pc = "forced" /\ ~lease[i]
    /\ Record(i, end[i], Begin(counters))
    /\ ScanReturns(TRUE)
    /\ UNCHANGED <<bodyVars, queueVars, finalized, stopReq, deferred, planVars>>

\* ... and the rest of it, once the leases are back.
RecordForced ==
    /\ pc = "forced" /\ ~lease[i]
    /\ Record(i, end[i], counters)
    /\ ScanReturns(TRUE)
    /\ UNCHANGED <<bodyVars, queueVars, finalized, stopReq, deferred, planVars>>

\* A lease that begins between the scan's two looks at a run that would stop it (the first
\* one finds nothing to force, the second one a lease) hides the run from this scan.
ScanPasses ==
    /\ pc = "scan" /\ FailFast
    /\ \E c \in Unfinalized :
        /\ TakesNext(c) /\ WouldStop(end[c])
        /\ TakesLease(c)
        /\ i' = c + 1
    /\ UNCHANGED <<st, end, closed, resumes, queueVars, bookVars, planVars, pc, ret, pumpRet,
                   finRet, k, remaining>>

\* Mutant: a scan that found a reason to stop does not say so.
ScanEndsRegardless ==
    /\ pc = "scan"
    /\ \A c \in i..N : ~Takes(c)
    /\ ScanReturns(FALSE)
    /\ UNCHANGED <<bodyVars, queueVars, bookVars, planVars>>

ScanEnds ==
    /\ pc = "scan"
    /\ \A c \in i..N : ~Takes(c)
    /\ ScanReturns(ShouldStop)
    /\ UNCHANGED <<bodyVars, queueVars, bookVars, planVars>>

------------------------------------------------------------------------------
(* BatchAsyncScheduler: resuming coroutines                                 *)


\* core_.post_due_timers(), which every loop below calls before it looks at ready_.
PostDueTimers ==
    /\ pc \in {"pump", "runready", "drain"} /\ due # << >>
    /\ LET W == {due[n] : n \in DOMAIN due} IN Posted(st, ready, timers, W, due)
    /\ UNCHANGED <<end, leaseVars, resumes, wakeVars, bookVars, planVars, ctrlVars>>

\* resume_one_ready: the head of the queue runs to its next suspension or to its end,
\* and may wake others.  complete() takes a body that ends off the scheduler and runs its
\* stop callbacks.
Resume ==
    LET c == Head(ready)
    IN /\ ready # << >> /\ due = << >>
       /\ resumes' = [resumes EXCEPT ![c] = @ + 1]
       /\ \E W \in Wakeable(c) : \E w \in Orders(W) :
            \/ /\ \E e \in BodyEnds : end' = [end EXCEPT ![c] = e]
               /\ Posted([st EXCEPT ![c] = "completed"], Tail(ready), timers, W, w)
            \/ /\ resumes[c] < MaxResumes
               /\ \E T \in {{}, {c}} :
                    Posted([st EXCEPT ![c] = "suspended"], Tail(ready), timers \cup T, W, w)
               /\ UNCHANGED end
            \/ /\ resumes[c] < MaxResumes
               /\ Posted(st, Tail(ready), timers, W, Append(w, c))
               /\ UNCHANGED end
       /\ UNCHANGED <<leaseVars, wakeVars, bookVars, planVars>>

------------------------------------------------------------------------------
(* pump_async                                                               *)

\* With --fail-fast one coroutine at a time, with a scan after each.
PumpOne ==
    /\ pc = "pump" /\ FailFast
    /\ Resume
    /\ CallScan("pump")

\* Otherwise run_ready: as many as are ready now.
PumpBatch ==
    /\ pc = "pump" /\ ~FailFast /\ due = << >>
    /\ remaining' = Len(ready)
    /\ pc' = "runready"
    /\ UNCHANGED <<ret, pumpRet, finRet, i, k, bodyVars, queueVars, bookVars, planVars>>

RunReady ==
    /\ pc = "runready" /\ remaining > 0
    /\ Resume
    /\ remaining' = remaining - 1
    /\ UNCHANGED <<pc, ret, pumpRet, finRet, i, k>>

PumpEnds ==
    /\ due = << >>
    /\ \/ pc = "pump" /\ FailFast /\ ready = << >>
       \/ pc = "runready" /\ (remaining = 0 \/ ready = << >>)
    /\ CallScan(pumpRet)
    /\ UNCHANGED <<bodyVars, queueVars, bookVars, planVars>>

------------------------------------------------------------------------------
(* finish_pending_async_group and BatchAsyncScheduler::finish_unresumable   *)

\* Mutant: only suspended runs are waited for.
UnfinishedSuspended == \E c \in Unfinalized : lease[c] /\ st[c] # "completed"

\* has_unfinished_adopted_work
UnfinishedAdopted == \E c \in Unfinalized : lease[c]

DrainOne ==
    /\ pc = "drain"
    /\ Resume
    /\ CallScan("drain")

DrainEmpty ==
    /\ pc = "drain" /\ ready = << >> /\ due = << >>
    /\ CallScan("idle")
    /\ UNCHANGED <<bodyVars, queueVars, bookVars, planVars>>

\* The drain gives up when neither a lease nor a timer is left.
GivesUp == pc = "idle" /\ ~UnfinishedAdopted /\ timers = {}

\* Mutant: the loop over the stuck runs starts one too low, ...
DrainEndsAtZero ==
    /\ GivesUp
    /\ pc' = "scan" /\ i' = 1 /\ ret' = "stuck" /\ k' = 0
    /\ UNCHANGED <<pumpRet, finRet, remaining, bodyVars, queueVars, bookVars, planVars>>

\* ... or one too high.
DrainEndsPastFirst ==
    /\ GivesUp
    /\ pc' = "scan" /\ i' = 1 /\ ret' = "stuck" /\ k' = 2
    /\ UNCHANGED <<pumpRet, finRet, remaining, bodyVars, queueVars, bookVars, planVars>>

\* The ready queue is not looked at again, and leases may begin after this.
DrainEnds ==
    /\ GivesUp
    /\ pc' = "scan" /\ i' = 1 /\ ret' = "stuck" /\ k' = 1
    /\ UNCHANGED <<pumpRet, finRet, remaining, bodyVars, queueVars, bookVars, planVars>>

DrainWaits ==
    /\ pc = "idle" /\ ~GivesUp
    /\ Goto("wait")
    /\ UNCHANGED <<bodyVars, queueVars, bookVars, planVars>>

\* wait_for_ready_or_adopted_release.  With the wake mutex held the runner notes the
\* generation and looks for a reason not to sleep, ...
NoNeedToSleep == ready # << >> \/ (~UnfinishedAdopted /\ timers = {}) \/ ShouldStop

WaitPasses ==
    /\ pc = "wait" /\ NoNeedToSleep
    /\ Goto("drain")
    /\ UNCHANGED <<bodyVars, queueVars, bookVars, planVars>>

\* Mutant: the runner sleeps without a second look.
SleepUnchecked ==
    /\ pc = "wait"
    /\ Goto("asleep")
    /\ UNCHANGED <<bodyVars, queueVars, bookVars, planVars>>

\* ... sleeps, ...
Sleep ==
    /\ pc = "wait" /\ ~NoNeedToSleep
    /\ Goto("asleep")
    /\ UNCHANGED <<bodyVars, queueVars, bookVars, planVars>>

\* ... and wakes once, when the generation has changed or a deadline has passed.
Wake ==
    /\ pc = "asleep" /\ (woken \/ due # << >>)
    /\ woken' = FALSE
    /\ Goto("drain")
    /\ UNCHANGED <<bodyVars, ready, timers, due, owed, bookVars, planVars>>

\* A case that the runner itself fails: the exception and the failure are set here, and
\* classify_async_exception, as for an assertion, records nothing more.
FailedEnd(xfail) == [NoEnd EXCEPT !.exc = "Assertion", !.failures = TRUE, !.xfail = xfail]

\* Run c is cancelled in the scheduler and its context stopped.  The hooks and the stop
\* callbacks may wake others.
Stopped(c, s) ==
    \E W \in Wakeable(c) : \E w \in Orders(W) :
        Posted([st EXCEPT ![c] = s], Without(ready, {c}), timers \ {c}, W, w)

\* The loop of finish_unresumable.  A run that is not done fails as one that cannot
\* resume, and is completed.
FailStuck ==
    /\ pc = "stuck" /\ k \in Unfinalized /\ st[k] # "completed"
    /\ \E x \in {e.xfail : e \in BodyEnds} : end' = [end EXCEPT ![k] = FailedEnd(x)]
    /\ Stopped(k, "completed")
    /\ k' = k + 1
    /\ pc' = "scan" /\ i' = 1 /\ ret' = "stuck"
    /\ UNCHANGED <<leaseVars, resumes, wakeVars, bookVars, planVars, pumpRet, finRet, remaining>>

SkipFinished ==
    /\ pc = "stuck" /\ k < next /\ (k \in Unfinalized => st[k] = "completed")
    /\ k' = k + 1
    /\ pc' = "scan" /\ i' = 1 /\ ret' = "stuck"
    /\ UNCHANGED <<pumpRet, finRet, remaining, bodyVars, queueVars, bookVars, planVars>>

StuckEnds ==
    /\ pc = "stuck" /\ k = next
    /\ pc' = "scan" /\ i' = 1 /\ ret' = "left" /\ k' = 1
    /\ UNCHANGED <<pumpRet, finRet, remaining, bodyVars, queueVars, bookVars, planVars>>

\* The last loop of finish_pending_async_group, over the runs that the scans could not
\* record because of their leases.  One that is not complete would be failed as
\* "canceled before completion".
LeftEnd(c) == IF st[c] = "completed" THEN end[c] ELSE FailedEnd(FALSE)

FinishLeft ==
    /\ pc = "left" /\ k \in Unfinalized /\ ~Aborts(k)
    /\ end' = [end EXCEPT ![k] = LeftEnd(k)]
    /\ Stopped(k, "completed")
    /\ finalized' = [finalized EXCEPT ![k] = TRUE]
    /\ k' = k + 1
    /\ UNCHANGED <<leaseVars, resumes, wakeVars, stopReq, planVars, ret, pumpRet, finRet, i,
                   remaining>>

\* With a lease out the run is deferred, to be recorded when the leases are back, ...
DeferLeft ==
    /\ FinishLeft
    /\ lease[k]
    /\ deferred' = Append(deferred, k)
    /\ UNCHANGED <<counters, result, pc>>

\* ... without one it is recorded here.
RecordLeft ==
    /\ FinishLeft
    /\ ~lease[k]
    /\ Record(k, LeftEnd(k), Begin(counters))
    /\ pc' = IF StopsWith(counters') THEN "end" ELSE "left"
    /\ UNCHANGED deferred

\* The loops over the runs left and over the runs to be cancelled skip the others.
SkipFinalized ==
    /\ pc \in {"left", "cancel"} /\ k < next /\ k \notin Unfinalized
    /\ k' = k + 1
    /\ UNCHANGED <<pc, ret, pumpRet, finRet, i, remaining, bodyVars, queueVars, bookVars,
                   planVars>>

\* destroy_canceled_tasks_after_adopted_release: wait for each run's leases, and record
\* the run if it was complete.
DestroyDeferred ==
    /\ pc \in {"left", "cancel"} /\ k = next /\ deferred # << >>
    /\ LET c == Head(deferred)
       IN /\ ~lease[c]
          /\ IF st[c] = "completed" THEN Record(c, end[c], Begin(counters))
             ELSE result' = [result EXCEPT ![c] = "dropped"] /\ UNCHANGED counters
    /\ deferred' = Tail(deferred)
    /\ UNCHANGED <<bodyVars, queueVars, finalized, stopReq, planVars, ctrlVars>>

GroupEnds ==
    /\ pc = "left" /\ k = next /\ deferred = << >>
    /\ open' = 0
    /\ Goto(IF ShouldStop THEN "end" ELSE finRet)
    /\ UNCHANGED <<bodyVars, queueVars, bookVars, plan, next>>

------------------------------------------------------------------------------
(* The plan: free cases and fixture groups                                  *)

\* A group without a shared fixture, or one whose fixture acquire_case_fixture finds.
BeginGroup ==
    /\ pc = "dispatch" /\ next \in Case
    /\ open' = Group[next]
    /\ CallPump("start")
    /\ UNCHANGED <<bodyVars, queueVars, bookVars, plan, next>>

\* acquire_case_fixture fails: the group's cases are recorded as blocked.
FixtureUnavailable ==
    /\ pc = "dispatch" /\ next \in Case /\ Group[next] \in Shared
    /\ open' = Group[next]
    /\ Goto("unavailable")
    /\ UNCHANGED <<bodyVars, queueVars, bookVars, plan, next>>

RecordUnavailable ==
    /\ pc = "unavailable" /\ InGroup(next)
    /\ finalized' = [finalized EXCEPT ![next] = TRUE]
    /\ result' = [result EXCEPT ![next] = "Blocked"]
    /\ counters' = CountFixtureBlocked(counters)
    /\ next' = next + 1
    /\ Goto(IF StopsWith(counters') THEN "end" ELSE "unavailable")
    /\ UNCHANGED <<bodyVars, queueVars, stopReq, deferred, plan, open>>

UnavailableEnds ==
    /\ pc = "unavailable" /\ ~InGroup(next)
    /\ open' = 0
    /\ Goto("dispatch")
    /\ UNCHANGED <<bodyVars, queueVars, bookVars, plan, next>>

\* handle_case, between its two pumps: a statically skipped case, ...
StartSkipped ==
    /\ pc = "start" /\ Kind[next] = "skip"
    /\ finalized' = [finalized EXCEPT ![next] = TRUE]
    /\ result' = [result EXCEPT ![next] = "Skip"]
    /\ counters' = CountStaticSkip(counters)
    /\ next' = next + 1
    /\ CallPump("advance")
    /\ UNCHANGED <<bodyVars, queueVars, stopReq, deferred, plan, open>>

\* ... a synchronous case, which runs to its end and may wake suspended ones, or an
\* async one whose function throws before there is a task (outside of a task a blocked
\* dependency is an exception like any other), ...
StartSync ==
    /\ pc = "start" /\ Kind[next] # "skip"
    /\ \E e \in BodyEnds :
        /\ e.exc # "Blocked" /\ (Kind[next] = "async" => e.exc # "None")
        /\ end' = [end EXCEPT ![next] = e]
        /\ counters' = Count(Begin(counters), Classified(e))
        /\ result' = [result EXCEPT ![next] = Outcome(Classified(e))]
    /\ \E W \in Wakeable(next) : \E w \in Orders(W) :
        Posted([st EXCEPT ![next] = "completed"], ready, timers, W, w)
    /\ finalized' = [finalized EXCEPT ![next] = TRUE]
    /\ resumes' = [resumes EXCEPT ![next] = @ + 1]
    /\ next' = next + 1
    /\ CallPump("advance")
    /\ UNCHANGED <<leaseVars, wakeVars, stopReq, deferred, plan, open>>

\* ... or an async case with a task, which is posted (add_top_level).
StartAsync ==
    /\ pc = "start" /\ Kind[next] = "async"
    /\ st' = [st EXCEPT ![next] = "ready"]
    /\ ready' = Append(ready, next)
    /\ next' = next + 1
    /\ CallPump("advance")
    /\ UNCHANGED <<end, leaseVars, resumes, timers, due, wakeVars, bookVars, plan, open>>

\* Mutant: the next group starts without finishing this one.
AdvanceUnfinished ==
    /\ pc = "advance"
    /\ IF InGroup(next) THEN CallPump("start") ELSE Goto("dispatch")
    /\ UNCHANGED <<bodyVars, queueVars, bookVars, planVars>>

Advance ==
    /\ pc = "advance"
    /\ IF InGroup(next) THEN CallPump("start") ELSE CallFinish("dispatch")
    /\ UNCHANGED <<bodyVars, queueVars, bookVars, planVars>>

\* After the plan, or out of it on a stop request.
PlanEnds ==
    /\ \/ pc = "dispatch" /\ next > N
       \/ pc = "end"
    /\ IF ShouldStop
         THEN /\ pc' = "cancel" /\ k' = 1
              /\ UNCHANGED <<ret, pumpRet, finRet, i, remaining>>
         ELSE CallFinish("done")
    /\ UNCHANGED <<bodyVars, queueVars, bookVars, planVars>>

------------------------------------------------------------------------------
(* cancel_pending_async_group                                               *)

\* A run with a lease out is deferred.
CancelRun ==
    /\ pc = "cancel" /\ k \in Unfinalized
    /\ lease[k] /\ st[k] = "completed" => ~Aborts(k)
    /\ Stopped(k, IF st[k] = "completed" THEN "completed" ELSE "canceled")
    /\ finalized' = [finalized EXCEPT ![k] = TRUE]
    /\ deferred' = IF lease[k] THEN Append(deferred, k) ELSE deferred
    /\ result' = IF lease[k] THEN result ELSE [result EXCEPT ![k] = "dropped"]
    /\ k' = k + 1
    /\ UNCHANGED <<pc, ret, pumpRet, finRet, i, remaining, end, leaseVars, resumes, wakeVars,
                   counters, stopReq, planVars>>

CancelEnds ==
    /\ pc = "cancel" /\ k = next /\ deferred = << >>
    /\ Goto("done")
    /\ UNCHANGED <<bodyVars, queueVars, bookVars, planVars>>

------------------------------------------------------------------------------
(* Workers and the clock                                                    *)

BeginLease ==
    /\ pc # "aborted"
    /\ \E c \in Case : TakesLease(c)
    /\ UNCHANGED <<st, end, closed, resumes, queueVars, bookVars, planVars, ctrlVars>>

\* A worker that holds a lease wakes a suspended case: the case is pushed, then the
\* runner notified.
WorkerPosts ==
    /\ pc # "aborted"
    /\ \E c \in Case : lease[c]
    /\ \E c \in Suspended : Posted(st, ready, timers, {c}, <<c>>)
    /\ owed' = owed + 1
    /\ UNCHANGED <<end, leaseVars, resumes, woken, bookVars, planVars, ctrlVars>>

\* The last lease on a case ends; if stop has been requested this closes the context.
\* Then the runner is notified.
ReleaseLease(c) ==
    /\ pc # "aborted" /\ lease[c]
    /\ lease' = [lease EXCEPT ![c] = FALSE]
    /\ closed' = [closed EXCEPT ![c] = @ \/ StopRequested(c)]
    /\ owed' = owed + 1
    /\ UNCHANGED <<st, end, begun, resumes, ready, timers, due, woken, bookVars, planVars,
                   ctrlVars>>

\* AdoptedReleaseWake: the generation changes, which matters to a runner that sleeps.
Notify ==
    /\ pc # "aborted" /\ owed > 0
    /\ owed' = owed - 1
    /\ woken' = (pc = "asleep")
    /\ UNCHANGED <<bodyVars, ready, timers, due, bookVars, planVars, ctrlVars>>

TimerExpires ==
    /\ pc # "aborted"
    /\ \E c \in timers : c \notin {due[n] : n \in DOMAIN due} /\ due' = Append(due, c)
    /\ UNCHANGED <<bodyVars, ready, timers, wakeVars, bookVars, planVars, ctrlVars>>

Done == pc \in {"done", "aborted"} /\ UNCHANGED vars

Runner ==
    \/ FinalizeRun \/ AbortInClassify \/ ForceFinalize \/ RecordForced \/ ScanEnds
    \/ PostDueTimers \/ PumpOne \/ PumpBatch \/ RunReady \/ PumpEnds
    \/ DrainOne \/ DrainEmpty \/ DrainEnds \/ DrainWaits \/ WaitPasses \/ Sleep \/ Wake
    \/ FailStuck \/ SkipFinished \/ StuckEnds \/ DeferLeft \/ RecordLeft \/ GroupEnds
    \/ BeginGroup \/ FixtureUnavailable \/ RecordUnavailable \/ UnavailableEnds
    \/ StartSkipped \/ StartSync \/ StartAsync \/ Advance \/ PlanEnds
    \/ CancelRun \/ SkipFinalized \/ DestroyDeferred \/ CancelEnds

Worker == BeginLease \/ WorkerPosts \/ Notify \/ \E c \in Case : ReleaseLease(c)

Next == Runner \/ ScanPasses \/ Worker \/ TimerExpires \/ Done

Spec == Init /\ [][Next]_vars

\* The runner's thread runs, a thread that has posted or released goes on to notify, and
\* clocks advance.  A worker is only known to give its lease back after the case was asked
\* to stop.
FairSpec ==
    /\ Spec
    /\ WF_vars(Runner) /\ WF_vars(Notify) /\ WF_vars(TimerExpires)
    /\ WF_vars(\E c \in Case : StopRequested(c) /\ ReleaseLease(c))

------------------------------------------------------------------------------
(* Properties                                                               *)

Recorded == {c \in Case : result[c] \in Outcomes}

\* The variables have their types.
TypeOK ==
    /\ st \in [Case -> {"none", "ready", "suspended", "completed", "canceled"}]
    /\ end \in [Case -> Ends]
    /\ lease \in [Case -> BOOLEAN] /\ begun \in [Case -> 0..MaxLeases]
    /\ closed \in [Case -> BOOLEAN]
    /\ resumes \in [Case -> 0..(MaxResumes + 1)]
    /\ ready \in Seq(Case) /\ timers \subseteq Case /\ due \in Seq(Case)
    /\ owed \in Nat /\ woken \in BOOLEAN
    /\ finalized \in [Case -> BOOLEAN]
    /\ result \in [Case -> Outcomes \cup {"none", "dropped"}]
    /\ counters \in Counters
    /\ stopReq \in BOOLEAN /\ deferred \in Seq(Case)
    /\ next \in 1..(N + 1) /\ open \in Nat
    /\ i \in 1..(N + 1) /\ k \in 1..(N + 1) /\ remaining \in Nat

\* What the summary prints adds up, and counts every recorded case exactly once, while
\* no forced result is waiting for its leases (counters.total is incremented before).
CountersMatchResults ==
    pc # "forced" =>
        /\ ColumnsAddUp(counters)
        /\ counters.total = Cardinality(Recorded)
        /\ counters.blocked = Cardinality({c \in Case : result[c] = "Blocked"})
        /\ counters.skipped = Cardinality({c \in Case : result[c] \in {"Skip", "XFail"}})

\* The queue holds exactly the ready cases, once each, and only suspended cases have
\* timers: no case is lost between the runner, the workers and the clock.
QueueIsConsistent ==
    /\ {ready[n] : n \in DOMAIN ready} = {c \in Case : st[c] = "ready"}
    /\ \A a, b \in DOMAIN ready : ready[a] = ready[b] => a = b
    /\ timers \subseteq Suspended

\* Only cases of the open fixture group are pending: async cases of two groups are
\* never interleaved, and no case outlives the group whose fixture it uses.
GroupIsolation == \A c \in Unfinalized : Group[c] = open

\* The last loop over a group's runs only meets runs that have completed, whenever
\* leases begin and end and whoever is woken: no case is reported as "canceled before
\* completion".
OnlyCompletedAreLeft == pc = "left" => \A c \in Unfinalized : st[c] = "completed"

\* Without --fail-fast every case of the plan is recorded, and the exit code is a
\* failure exactly if some case failed, passed unexpectedly or was blocked.
AllAccounted ==
    pc = "done" =>
        /\ ~FailFast => Recorded = Case
        /\ ExitOk(counters) <=> \A c \in Case : result[c] \notin {"Fail", "XPass", "Blocked"}

\* Once --fail-fast has reason to stop, no body is started or resumed any more.
FailFastStops == [][ShouldStop => UNCHANGED <<resumes, next>>]_vars

\* A recorded or dropped result is final, and its body is never entered again.
ResultIsFinal ==
    [][\A c \in Case : result[c] # "none" => result'[c] = result[c] /\ resumes'[c] = resumes[c]]_vars

\* The batch ends, provided that while the runner drains no worker keeps the lease of a
\* case that was not asked to stop for ever.  No notification is lost between the runner's
\* last look and its sleep, and cancelled, forced and left-over runs have all been asked to
\* stop before the runner waits for the leases of any.
BatchEnds ==
    []<>(\/ pc \in {"forced", "left", "cancel"}
         \/ \A c \in Case : lease[c] => StopRequested(c))
        => <>(pc \in {"done", "aborted"})

\* Cases are only failed as ones that "cannot resume" when none is ready: the runner
\* "drains remaining ready work" before it decides (docs/async.md).
OnlyStuckRunsFail == GivesUp => ready = << >>

\* A run that leaves cases out says so in its exit code: only a "non-expected failure or
\* blocked dependency" cancels pending work (docs/async.md).
IncompleteRunFails == pc = "done" /\ Recorded # Case => ~ExitOk(counters)

\* --fail-fast cancels "still-pending async work" (docs/async.md): the result of a case
\* that has completed is not dropped.
CompletedIsRecorded == \A c \in Case : st[c] = "completed" => result[c] # "dropped"
==============================================================================
