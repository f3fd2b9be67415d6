# Verification of gentest

TLA+ models of the gentest runtime, model-checked with TLC and, for two modules,
proved with TLAPS. Paths below are relative to the root of the repository.

## 1. The system and its parts

gentest is a C++ test framework: a code generator (`tools/src`) finds annotated
test functions and registers them; a runtime library (`src`, `include/gentest`)
selects, runs and reports them. What is hard to get right is in the runtime:

| Part | Code | Hard because |
|---|---|---|
| Test context | `include/gentest/detail/runtime_context.h`, `src/runner_context_scope.h`, `src/context_api.cpp` | worker threads adopt a test's context (a *lease*) to log; the owner must wait for them, close the context and never lose or invent a result |
| Async batch | `src/runner_async_executor.cpp`, `src/runner_async_scheduler.cpp`, `src/runner_async_state.cpp` | many coroutine cases interleave in one thread; completion, leases, timers, fixture groups and fail-fast meet |
| Case results | `src/runner_case_result.cpp`, `src/runner_case_invoker.cpp` | skip, xfail, blocked and failed combine into one outcome and several counters |
| Scheduler core | `src/async_scheduler_core.h`, `src/async_timer_queue.h`, coroutine frames in `include/gentest/async.h` | frames, helper coroutines, waiter tokens and timers reference each other by address and are cancelled as trees |
| Timed waits, promises | `include/gentest/async.h`, `include/gentest/detail/async_promise.h` | completion, timer and deadline checks race on several threads for one decision |
| Async events | `include/gentest/async.h` (`event<T>`) | like promises, but keyed and settable again |
| Blocking scheduler | `src/async.cpp` | a second scheduler around the same core, for async fixture phases |
| Shared fixtures | `src/runner_fixture_runtime.cpp` | one registry per process, guarded by a run gate; partial setup failures |
| Sync execution, plan | `src/runner_test_executor.cpp`, `src/runner_test_plan.cpp`, `src/runner_impl.cpp` | grouping by suite and fixture, shuffling |
| Selection, command line | `src/runner_selector.cpp`, `src/runner_cli.cpp` | wildcards, filters, death-test gating |
| Orchestration | `src/runner_orchestrator.cpp` | order of the phases, exit code |
| Measurement | `src/runner_measured_executor.cpp`, `src/bench_stats.cpp` | calibration, phases, percentiles |
| Status display, reports | `src/runner_async_status_renderer.cpp`, `src/runner_reporting*.cpp`, `src/runner_measured_report.cpp` | mostly text |
| Mocks, log sinks, assertions | `include/gentest/mock.h`, `src/log_sink.cpp`, `include/gentest/assertions.h` | expectations consumed in order by several threads |
| Code generator | `tools/src` | attribute validation, axis expansion, line scanning, parallel parsing, replacing outputs |

The parts meet as follows. The batch executor starts each async case in the
scheduler; the scheduler resumes coroutine frames through the core; a coroutine
suspends on a promise, an event, a helper coroutine or a timer, each of which
holds a *waiter token* that puts the frame back on the ready queue. A case that
is complete has its owner cancelled in the core, its context stopped, and waits
until its leases have ended before its result is recorded.

`PROJECT.json` lists every part with its status, the hazards at the lines where
they bite and, for each model definition, the source lines it stands for.

## 2. Modules

### TestContext — the life of one context (proved in TestContextProofs)

One case, sync or async, its owner thread and a set of worker threads.
`state`, `adopted`, `stop`, `logs`, `failures` are the fields of
`TestContextInfo`; `pc` and `wpc` are the places of the owner and of each worker
between two critical sections. Each step is one critical section or one atomic
access: `request_context_stop` is `StopLoad`, `StopStore` and `StopSignal`,
because it loads the state and stores it in two steps; the end of a lease is
`FlushLease`, `ReleaseLease`, `CloseReleased` and `NotifyReleased`. The owner's
ways out of a body are the sync path (`SyncBodyEnds`), completion in the
scheduler (`AsyncBodyEnds`), a case that cannot resume (`Unresumable`) and
cancellation by fail-fast (`CancelSuspended`, `CancelCompleted`). `aborted` is
`std::abort` in `require_owner_context` or `fail_without_active_context`.

Left out: leases taken outside of the documented hand-off (a worker is started
by the body or by a thread that has a lease); failures that a suspended case
recorded before its cancellation; skip and blocked bodies, which the context
treats as one that returns. `CancelCompleted` also stands for the last loop of
`finish_pending_async_group`, which treats a completed case with a lease like the
fail-fast cancellation does. A stop
callback's lease ends in one step, without the notification, which nobody
waits for at that point. A `Stopping` stored over `Closed` is modelled; it is
harmless, since the owner closes the context again.

### AsyncBatch and CaseResult — a batch of cases

`AsyncBatch` is the loop over the cases of a plan: fixture groups, `run_ready`
between two starts, `finalize_completed_runs` (`pc = "scan"`), the drain at a
group's end, cases that cannot resume, the runs left over by the scans
(`pc = "left"`), fail-fast cancellation and forced results. `pc`, `k` and the
return points are the runner's place in these nested loops. A case is one frame
here (helpers are in `SchedulerCore`) and its leases are a boolean (their count is
in `TestContext`). `CaseResult` is `finish_invoke_result`: the outcome of a case
in the order of the code's early returns, and the counters.

Workers take leases in threads of their own, from the first resumption of a case
until it is recorded (`BeginLease`), wake suspended cases and give the leases
back between any two steps of the runner. So a lease may begin after the drain
has found none, or between the two reads of `finalize_completed_runs`
(`ScanPasses`); the run is then completed but not recorded by the scans, and the
last loop of `finish_pending_async_group` (`DeferLeft`, `RecordLeft`) takes care of
it. The runner's sleep is the protocol of `wait_for_ready_or_adopted_release`: it
notes the generation and looks once more with the wake mutex held (`WaitPasses`,
`Sleep`), and a post or a release takes effect first and changes the generation
afterwards (`owed` counts the notifications to come, `Notify` delivers one). A
notification matters only to a runner that is asleep, because one that comes
earlier finds its effect already visible to the look.

Left out: the steps inside the classification and recording of one run, which are
in `TestContext` (`FinalizeRun` finds no lease, classifies and records in one
step); timers whose token is stale, which the queue purges; wakeups by threads
that have no lease; the notifications of a worker that records a failure and the
refresh deadline of the live display, which only wake the runner more often.

### SchedulerCore — frames, helpers and cancellation

`core` holds what the core's mutex protects: `owner` (`frames_` and `owners_`),
`children`, `parents`, `blocked`, `tokens`, `ready`, and the frames' atomic
`canceled`. A frame stands for its address: it lives while the core, the ready
queue, the runner, a worker or its `async_test` object refers to it, and a later
helper may get the same address. Cases create helpers, await them with or
without a timeout, yield, sleep, pass a promise on as a parameter of a helper or
to a worker, and await it. `Destroy` is the end of a frame; `locked` are the
frames whose last reference was dropped under the mutex, and `stuck` is a thread
that locks the mutex a second time.

`CancelAddress` cancels the tokens at once, where the code cancels them after the
mutex is unlocked: the frame is marked `canceled` under the mutex, and a token that
is posted in between finds the mark (`Wakes`) and wakes nobody.

Left out: what a destructor does runs to its end before any other thread's step;
a token and its frame are taken in one step (the four steps are in `TimedWait`);
the future is held by the case itself, not by a helper; awaiting one helper twice, which
throws. A case may be ended at any time, because fail-fast and the drain may do
so between any two resumptions.

### TimedWait and OneShotWait — one wait against its timer (proved in TimedWaitProofs)

A coroutine that awaits a future, with or without a timeout, and again after a
timeout, while other threads complete the promise. Posting a token is split into
taking it (`active_.exchange`), reading the clock, the compare-and-swap on
`selected`, cancelling the other token, and queueing the frame, by whichever
thread posts. `OneShotWait` is what a wait promises: it is decided once, as ready only
when the value is there and as timed out only after the deadline, and returns
what was decided. `TimedWait` implements it with the mapping
`avail`: the promise is terminal, `outcome`: `selected`, `returned`: the value each
wait has returned. There is one consumer, as the documentation requires. `wait_started_`
is "some wait is registered": `Register` prunes any of the earlier waits (their
awaitables may be gone or kept in a local) and violates the contract if one is left,
so what keeps the next wait from being rejected is that `SettleTimeout` withdraws
the old one.

## 3. Runs

| Run | Module, configuration | What it shows |
|---|---|---|
| `context_safety` | MCTestContext | a lease keeps the context open; a result is recorded behind the barrier and nothing changes after it: three workers, two stop callbacks, throwing bodies and failing hooks |
| `context_liveness` | MCTestContextLive | nothing aborts and every case finishes, for two workers, without throwing bodies, stop callbacks or failing hooks |
| `context_async_throw` | MCTestContextThrows | finding 1 |
| `context_logging_callback` | MCTestContextCallback | finding 2 |
| `batch_safety` | MCAsyncBatch | counters agree with results, no case is queued twice, taken into the next group or unaccounted for; only completed cases are left to the last loop of a group; fail-fast stops resumptions; an incomplete run fails |
| `batch_liveness` | MCAsyncBatchLive | the batch ends, with no notification lost to the sleeping runner, and a recorded result never changes |
| `batch_woken_run_fails`, `batch_xfail_stops`, `batch_completed_dropped` | MCAsyncBatchReady, ...Xfail, ...Dropped | findings 3, 4, 5 |
| `timed_wait` | MCTimedWait | one wakeup per wait, no contract violation, late completions time out, a timeout keeps the value, refinement of OneShotWait, every wait returns |
| `core_safety` | MCSchedulerCore | links agree, no stale address, no frame queued twice, helpers run only for a waiting parent, parents are woken, ended cases are gone |
| `core_abandon_hangs` | MCSchedulerCoreAbandon | finding 6 |

**Bounds.** `Workers`: three let one lease end while another is taken and a third
logs. `Callbacks`: two let the first one's lease close the context before the
second. `MaxLogs`: one buffered line is enough to be lost. `MaxResumes`: a case
suspends once, on a post or a timer, or yields, and is resumed to its end. `MaxLeases`: one lease per
case, which begins and ends anywhere; with two the safety run passes as well (5,055,391
states), and so does the liveness run, but they take too long to be kept. `Plans`: an
async case alone and then one with a shared fixture; a statically skipped case between two async
ones; two async cases and then a group with a shared fixture under fail-fast. `BodyEnds`: in the
safety run one end for each outcome (an unexpected pass and a skip for an unavailable fixture
included), but no blocked body that expects its failure: finding 4 shows that
`IncompleteRunFails` does not hold with one. `Rounds`: three waits, so that a wait after a
timeout is itself followed by one. `Setters`: two, so that one completion is
rejected. `Helpers`: two addresses give a helper of a helper, two siblings, and
an address that is used again. `Sleepers`: helpers, whose sleep may outlast the
parent's timeout. The workers and the helpers are symmetric where the run says so.

**Fairness.** `TestContext`: the owner's thread runs, and a lease that was taken
ends (a worker may idle for ever before it takes one). `AsyncBatch`: the runner,
the deadlines of timers, a notification that is due, and the end of the lease of a case that was
asked to stop, which is what the documentation asks of workers; no case is assumed to be woken
by a worker. `BatchEnds` has as its premise that, while the runner drains, no lease of a case
that was not asked to stop is held for ever (the drain waits for it by design); it has no such
premise for the waits of forced, left-over and cancelled runs. `TimedWait`: the coroutine's thread, a thread that has begun to
post, some completion, and time. `SchedulerCore` (for the counterexample): the runner
resumes what is ready and completes a case that has finished, a running coroutine returns or reaches a `co_await`,
destructors run, and a worker that holds a token gets on; the latter and the running
coroutine have strong fairness, because a destructor on another frame disables them for a moment.
None of these assumes a particular order between threads. With frames that are not
destroyed under the mutex `WaiterResumes` holds under this fairness, so the
counterexample is due to the hang alone.

`batch_liveness` uses two small plans and `core_abandon_hangs` one helper, since
checking liveness over the safety instances takes too long.

## 4. Proofs

All theorems are for any number of workers, callbacks, log lines, threads and waits.

**TestContextProofs.** `TypeCorrect`, `LeaseKeepsOpen`, `Barrier`, `OneShot` and
`NoAbort`, from the assumption that `Workers` is finite and the bounds are
naturals. None of the invariants is inductive by itself: that a lease keeps the
context open depends on the counter, which is a number and not a set. `IInv` adds
`LeaseCount` (the counter is the number of holders and of the callback's own
lease), `StoppedOutsideBody` (the state is `Running` in the body and not after
the stop), `NoHolderBehindBarrier` (no holder behind a closed context or the
barrier; closing is sound because the release that closes has seen the counter
at zero under the lock) and `BuffersFlushed` (only a thread inside its
lease has unflushed lines). Lemmas on cardinality give the effect of taking and
ending a lease. `OneShot` follows from `IInv` for each step: nobody is left who
could write. `NoAbort` has its own strengthening `NothingLate`, for
configurations without throwing async bodies, stop callbacks and failing hooks;
findings 1 and 2 show that the premises are needed.

**TimedWaitProofs.** `TypeCorrect`, `WokenOnce`, `ContractKept`, `ValueKept`,
`LateIsTimeout` and `Refinement`. `IInv` adds `AtWait` (what is true at each
place of the coroutine), `Ownership` (tokens and registrations belong to the
current wait, timers to timed waits that have begun; with it `ContractKept` follows at `Register`,
which finds nobody registered), `Posters` (what a thread in the middle of a post knows) and
`Decisions` (a wait is decided truthfully, and the frame of a decided wait is
queued or in the hands of the thread that decided it). The
last one is the heart: it holds because only the compare-and-swap on `selected`
leads to a cancel and an enqueue. The refinement maps each step that wins the
compare-and-swap to `Decide`, the return of the decided value to `Return`, the completion to
`BecomeAvailable`, and all others to stutters.

Model-checked only: all of `AsyncBatch`, `CaseResult` and `SchedulerCore` (which
cancels recursively), and every liveness property.

## 5. Findings

Each is a run that TLC refutes; `PROJECT.json` has the quotations.

1. `context_async_throw`: an async body that throws while a worker holds a lease
   aborts the process. The last release closes the stopped context, and the
   exception is recorded only after that.
2. `context_logging_callback`: a stop callback that leases the context to log, as
   the documentation advises, may find it closed. Seen in the model only.
3. `batch_woken_run_fails`: the drain tests the ready queue before the leases; a
   worker that posts and releases in between leaves a ready case when the runner
   decides to fail the cases that are not done as unable to resume. The blocking scheduler has the same two tests, and there
   the race was reproduced with a program built from `src/async.cpp`.
4. `batch_xfail_stops`: with fail-fast, an expected failure of a blocked case whose lease
   is still out stops the run although it counts as no failure: cases do not run and the exit code is 0.
5. `batch_completed_dropped`: fail-fast drops a completed case whose lease has just
   ended, and records one whose lease is still out.
6. `core_abandon_hangs`: a finished helper's frame is destroyed under the core's mutex
   when its case ends; a promise among its parameters is abandoned there and posts
   its waiter, which locks the mutex again. Reproduced with a program built
   from `src/async_scheduler_core.h`: it hangs in `cancel_owner`.

Findings 1, 4 and 5 were established from the model and the code and have not been run.

## 6. Plan

In this order; each step adds modules, runs and mapped code.

1. **Events and the blocking scheduler.** `AsyncEvent` (set, set again, cancelled
   waits, tokens as in `TimedWait`) and `BlockingScheduler` (the loop of
   `src/async.cpp` with its generation counter; every wake is seen).
2. **Shared fixtures and orchestration.** `SharedFixtures` (gate, registration,
   setup, teardown, lookup, two threads that start runs) as an implementation of
   an abstract gate and of "torn down once, in reverse order, if it exists";
   composed with `Orchestrator` (phases, fail-fast, exit code) over `CaseResult`.
3. **Plan and selection** as operators: the plan is a permutation of the selection,
   contiguous by suite and fixture; `wildcard_match` against a recursive reference.
4. **Measurement**: call phases, calibration, warm-up, failure and fail-fast.
5. **Mocks and log sinks**: expectations consumed in order, verification once;
   handles that outlive their sink.
6. **Code generator**: attribute validation, axis expansion, the line scanner,
   `parallel_for` with merging, replacement of an output, the manifest.
7. **Status display**: row states and the log tail.

Theorems to follow: `AsyncBatch`'s `CountersMatchResults`, `QueueIsConsistent` and `GroupIsolation`; `LinksAgree` on
a version of the core whose cancellation is not recursive; exclusion by the fixture gate and pairing of
setup and teardown; the refinements of step 2.

## 7. Not modelled, and why

Text (formatting of values, reports, rendered code), floating-point statistics,
Clang's AST, file systems beyond the replacement of one output, and the build
integrations (`cmake`, `bazel`, `meson`, `xmake`) have no state machine that a
model would add to. Memory orders are taken as sequentially consistent: the code
uses acquire and release on the counters and holds mutexes for the rest.

## 8. Running

`tlc -config MCTestContext.cfg MCTestContext` checks a run (section 3 names the module
and the configuration of each); `tlapm TestContextProofs.tla` and `tlapm
TimedWaitProofs.tla` check the proofs.
