----------------------------- MODULE TimedWait -------------------------------
(***************************************************************************)
(* A coroutine that awaits one future, with or without a timeout, possibly  *)
(* again after a timeout, while other threads complete the promise:         *)
(* AsyncPromiseSharedState, WaiterToken and timeout_awaitable together.     *)
(*                                                                         *)
(* Waits 1..Rounds are the coroutine's successive co_awaits.  A wait w has  *)
(* a ready token, a timeout token if it is timed, and the atomic `selected` *)
(* both tokens' before_post arbitrate on.  Posting a token is four steps,   *)
(* by whichever thread posts it: take the token (active_.exchange), read    *)
(* the clock, compare-and-swap `selected`, cancel the other token and put   *)
(* the frame on the ready queue.                                            *)
(***************************************************************************)
EXTENDS Naturals

CONSTANTS
    Setters,  \* threads that complete (or abandon) the promise
    Rounds,   \* bound on the number of waits
    Runner    \* the runner's thread

ASSUME WaitAssumption == Rounds \in Nat /\ Runner \notin Setters

Waits == 1..Rounds
Threads == Setters \cup {Runner}
Terminals == {"Value", "Exception", "Blocked"}

VARIABLES
    terminal,   \* terminal_
    waiters,    \* waiters_: the waits registered with the promise (wait_started_ while
                \* it is not empty)
    consumed,   \* consumed_
    timed,      \* the waits with a timeout
    late,       \* the waits whose deadline has passed
    selected,   \* timed_wait_state::selected of each wait
    tokens,     \* the active tokens, as <<kind, wait>>
    timers,     \* the waits whose timeout token is in the timer queue
    queued,     \* how often the coroutine's frame is in the ready queue
    wait,       \* the wait the coroutine is at
    result,     \* what each wait returned
    pc,         \* where the coroutine (and the scheduler under it) is
    posting,    \* what each thread is posting: a step and a token
    overdue,    \* the waits that were suspended past their deadline when the
                \* promise was completed (only the properties look at it)
    violated    \* async_contract_violation was called

promiseVars == <<terminal, waiters, consumed>>
waitVars == <<timed, late, selected, tokens, timers>>
vars == <<promiseVars, waitVars, queued, wait, result, pc, posting, overdue, violated>>

\* Thread t is about to post, or goes on posting, the token of kind k of wait w, which
\* decides the wait as its field `as` says.
Idle == [step |-> "idle", token |-> <<"ready", 0>>, as |-> "ready"]
Taking(k, w) == [step |-> "take", token |-> <<k, w>>, as |-> k]
Goes(t, s) == posting' = [posting EXCEPT ![t].step = s]
Stops(t) == posting' = [posting EXCEPT ![t] = Idle]

Init ==
    /\ terminal = "Pending" /\ waiters = {} /\ consumed = FALSE
    /\ timed = {} /\ late = {} /\ tokens = {} /\ timers = {}
    /\ selected = [w \in Waits |-> "none"]
    /\ queued = 0
    /\ wait = 0
    /\ result = [w \in Waits |-> "none"]
    /\ pc = "running"
    /\ posting = [t \in Threads |-> Idle]
    /\ overdue = {}
    /\ violated = FALSE

\* Mutant: a plain store.
Store(w, o) == selected' = [selected EXCEPT ![w] = o]

\* compare_exchange_strong on `selected` of wait w.
Select(w, o) == selected' = [selected EXCEPT ![w] = IF @ = "none" THEN o ELSE @]

------------------------------------------------------------------------------
(* The coroutine: co_await future.wait() or co_await wait_for(future.wait()) *)

\* await_ready: the inner awaitable first.
BeginWait ==
    /\ pc = "running" /\ wait < Rounds
    /\ \A w \in Waits : result[w] # "ready"
    /\ wait' = wait + 1
    /\ \E T \in {{}, {wait + 1}} : timed' = timed \cup T
    /\ IF terminal # "Pending"
         THEN Select(wait + 1, "ready") /\ pc' = "resume"
         ELSE pc' = "deadline" /\ UNCHANGED selected
    /\ UNCHANGED <<promiseVars, late, tokens, timers, queued, result, posting, overdue,
                   violated>>

\* ... then the deadline: in await_ready, where a late wait does not suspend, ...
ReadyDeadline ==
    /\ pc = "deadline"
    /\ IF wait \in timed /\ wait \in late
         THEN Select(wait, "timeout") /\ pc' = "resume"
         ELSE pc' = "suspend" /\ UNCHANGED selected
    /\ UNCHANGED <<promiseVars, timed, late, tokens, timers, queued, wait, result, posting,
                   overdue, violated>>

\* ... and again in await_suspend, where it posts itself.
SuspendDeadline ==
    /\ pc = "suspend"
    /\ IF wait \in timed /\ wait \in late
         THEN Select(wait, "timeout") /\ queued' = queued + 1 /\ pc' = "suspended"
         ELSE pc' = "inner" /\ UNCHANGED <<selected, queued>>
    /\ UNCHANGED <<promiseVars, timed, late, tokens, timers, wait, result, posting, overdue,
                   violated>>

\* A timed wait asks the inner awaitable once more; then the tokens are made and the
\* timer is scheduled.
MakeTokens ==
    /\ pc = "inner"
    /\ IF wait \in timed /\ terminal # "Pending"
         THEN /\ Select(wait, "ready") /\ queued' = queued + 1 /\ pc' = "suspended"
              /\ UNCHANGED <<tokens, timers>>
         ELSE /\ tokens' = tokens \cup {<<"ready", wait>>}
                                  \cup {<<"timeout", w>> : w \in timed \cap {wait}}
              /\ timers' = timers \cup (timed \cap {wait})
              /\ pc' = "register"
              /\ UNCHANGED <<selected, queued>>
    /\ UNCHANGED <<promiseVars, timed, late, wait, result, posting, overdue, violated>>

\* Mutant: the promise is not looked at again.
RegisterBlindly ==
    /\ pc = "register" /\ posting[Runner] = Idle
    /\ pc' = "suspended"
    /\ waiters' = {wait}
    /\ UNCHANGED <<terminal, consumed, waitVars, queued, wait, result, posting, overdue,
                   violated>>

\* wait_or_post: post the token if the promise is complete by now, or register it.  Earlier
\* waits whose awaitable is gone are pruned; one whose awaitable the coroutine has kept in
\* a local stays, and then the future already has a waiter (AlreadyWaiting).
Register ==
    /\ pc = "register" /\ posting[Runner] = Idle
    /\ pc' = "suspended"
    /\ IF terminal # "Pending"
         THEN /\ posting' = [posting EXCEPT ![Runner] = Taking("ready", wait)]
              /\ UNCHANGED <<waiters, violated>>
         ELSE /\ \E expired \in SUBSET waiters :
                    IF waiters \ expired = {}
                    THEN waiters' = {wait} /\ UNCHANGED violated
                    ELSE waiters' = waiters \ expired /\ violated' = TRUE
              /\ UNCHANGED posting
    /\ UNCHANGED <<terminal, consumed, waitVars, queued, wait, result, overdue>>

\* Mutant: an empty queue is popped.
ResumeUnqueued ==
    /\ pc = "suspended" /\ posting[Runner] = Idle
    /\ queued' = queued - 1
    /\ pc' = "resume"
    /\ UNCHANGED <<promiseVars, waitVars, wait, result, posting, overdue, violated>>

\* The scheduler resumes the frame.
ResumeFrame ==
    /\ pc = "suspended" /\ posting[Runner] = Idle /\ queued > 0
    /\ queued' = queued - 1
    /\ pc' = "resume"
    /\ UNCHANGED <<promiseVars, waitVars, wait, result, posting, overdue, violated>>

\* await_resume: both tokens are cancelled, ...
AwaitResume ==
    /\ pc = "resume"
    /\ tokens' = {k \in tokens : k[2] # wait}
    /\ pc' = "settle"
    /\ UNCHANGED <<promiseVars, timed, late, selected, timers, queued, wait, result,
                   posting, overdue, violated>>

\* Mutant: the value is taken although the wait timed out.
SettleTimeoutTakes ==
    /\ pc = "settle" /\ wait \in timed /\ selected[wait] = "timeout"
    /\ waiters' = IF terminal = "Pending" THEN waiters \ {wait} ELSE waiters
    /\ consumed' = (consumed \/ terminal = "Value")
    /\ result' = [result EXCEPT ![wait] = "timeout"]
    /\ pc' = "running"
    /\ UNCHANGED <<terminal, waitVars, queued, wait, posting, overdue, violated>>

\* Mutant: the wait stays registered.
SettleTimeoutStays ==
    /\ pc = "settle" /\ wait \in timed /\ selected[wait] = "timeout"
    /\ result' = [result EXCEPT ![wait] = "timeout"]
    /\ pc' = "running"
    /\ UNCHANGED <<promiseVars, waitVars, queued, wait, posting, overdue, violated>>

\* ... then a wait that timed out withdraws from the promise (cancel_wait), ...
SettleTimeout ==
    /\ pc = "settle" /\ wait \in timed /\ selected[wait] = "timeout"
    /\ waiters' = IF terminal = "Pending" THEN waiters \ {wait} ELSE waiters
    /\ result' = [result EXCEPT ![wait] = "timeout"]
    /\ pc' = "running"
    /\ UNCHANGED <<terminal, consumed, waitVars, queued, wait, posting, overdue, violated>>

\* ... and any other takes the value or rethrows (take_value).
SettleReady ==
    /\ pc = "settle" /\ ~(wait \in timed /\ selected[wait] = "timeout")
    /\ violated' = (violated \/ terminal = "Pending" \/ (terminal = "Value" /\ consumed))
    /\ consumed' = (consumed \/ terminal = "Value")
    /\ result' = [result EXCEPT ![wait] = "ready"]
    /\ pc' = "running"
    /\ UNCHANGED <<terminal, waiters, waitVars, queued, wait, posting, overdue>>

------------------------------------------------------------------------------
(* Completing the promise, and the timer queue                              *)

\* try_set_value, try_set_exception, try_set_blocked, abandon: the first one wins and
\* takes the waiters with it.
Complete(s) ==
    /\ posting[s] = Idle /\ terminal = "Pending"
    /\ terminal' \in Terminals
    /\ overdue' = overdue \cup (waiters \cap timed \cap late)
    /\ posting' = [posting EXCEPT ![s] = IF waiters = {} THEN Idle
                                         ELSE Taking("ready", CHOOSE w \in waiters : TRUE)]
    /\ waiters' = {}
    /\ UNCHANGED <<consumed, waitVars, queued, wait, result, pc, violated>>

\* post_due_timers, when the coroutine is suspended and the scheduler runs.
PopTimer ==
    /\ pc = "suspended" /\ posting[Runner] = Idle
    /\ \E w \in timers \cap late :
        /\ timers' = timers \ {w}
        /\ posting' = [posting EXCEPT ![Runner] = IF <<"timeout", w>> \in tokens
                                                  THEN Taking("timeout", w) ELSE Idle]
    /\ UNCHANGED <<promiseVars, timed, late, selected, tokens, queued, wait, result, pc,
                   overdue, violated>>

DeadlinePasses ==
    /\ \E w \in Waits \ late : w <= wait + 1 /\ late' = late \cup {w}
    /\ UNCHANGED <<promiseVars, timed, selected, tokens, timers, queued, wait, result, pc,
                   posting, overdue, violated>>

------------------------------------------------------------------------------
(* WaiterToken::post by thread t                                            *)

TokenWait(t) == posting[t].token[2]

\* active_.exchange(false).  A waiter whose wait is over is cancelled instead
\* (post_async_promise_waiters).  The token of a plain wait has no before_post.
TakeToken(t) ==
    /\ posting[t].step = "take"
    /\ tokens' = tokens \ {posting[t].token}
    /\ IF posting[t].token \notin tokens \/ result[TokenWait(t)] # "none" THEN Stops(t)
       ELSE IF TokenWait(t) \notin timed THEN Goes(t, "select")
       ELSE IF posting[t].as = "timeout" THEN Goes(t, "select")
       ELSE Goes(t, "clock")
    /\ UNCHANGED <<promiseVars, timed, late, selected, timers, queued, wait, result, pc,
                   overdue, violated>>

\* Mutant: the deadline is not looked at.
ReadNoClock(t) ==
    /\ posting[t].step = "clock"
    /\ Goes(t, "select")
    /\ UNCHANGED <<promiseVars, waitVars, queued, wait, result, pc, overdue, violated>>

\* The ready token's before_post decides for the timeout when the deadline has passed.
ReadClock(t) ==
    /\ posting[t].step = "clock"
    /\ posting' = [posting EXCEPT
                     ![t] = [step |-> "select", token |-> posting[t].token,
                             as |-> IF TokenWait(t) \in late THEN "timeout" ELSE "ready"]]
    /\ UNCHANGED <<promiseVars, waitVars, queued, wait, result, pc, overdue, violated>>

\* Mutant: the loser posts the frame, too.
ArbitrateUnchecked(t) ==
    /\ posting[t].step = "select"
    /\ Select(TokenWait(t), posting[t].as)
    /\ Goes(t, "cancel")
    /\ UNCHANGED <<promiseVars, timed, late, tokens, timers, queued, wait, result, pc,
                   overdue, violated>>

\* try_ready or try_timeout; the loser goes no further.
Arbitrate(t) ==
    /\ posting[t].step = "select"
    /\ Select(TokenWait(t), posting[t].as)
    /\ IF selected[TokenWait(t)] = "none" THEN Goes(t, "cancel") ELSE Stops(t)
    /\ UNCHANGED <<promiseVars, timed, late, tokens, timers, queued, wait, result, pc,
                   overdue, violated>>

CancelOther(t) ==
    /\ posting[t].step = "cancel"
    /\ tokens' = {k \in tokens : k[2] # TokenWait(t)}
    /\ Goes(t, "enqueue")
    /\ UNCHANGED <<promiseVars, timed, late, selected, timers, queued, wait, result, pc,
                   overdue, violated>>

\* control->post(frame)
Enqueue(t) ==
    /\ posting[t].step = "enqueue"
    /\ queued' = queued + 1
    /\ Stops(t)
    /\ UNCHANGED <<promiseVars, waitVars, wait, result, pc, overdue, violated>>

Post(t) == TakeToken(t) \/ ReadClock(t) \/ Arbitrate(t) \/ CancelOther(t) \/ Enqueue(t)

Coroutine ==
    \/ BeginWait \/ ReadyDeadline \/ SuspendDeadline \/ MakeTokens \/ Register
    \/ ResumeFrame \/ AwaitResume \/ SettleTimeout \/ SettleReady \/ PopTimer

Finished == pc = "running" /\ (wait = Rounds \/ \E w \in Waits : result[w] = "ready")
Done == Finished /\ UNCHANGED vars

Next ==
    \/ Coroutine
    \/ \E t \in Threads : Post(t)
    \/ \E s \in Setters : Complete(s)
    \/ DeadlinePasses
    \/ Done

Spec == Init /\ [][Next]_vars

\* Every thread runs, and time passes.  The promise is completed by its last setter at
\* the latest (its destructor abandons it).
FairSpec ==
    /\ Spec
    /\ WF_vars(Coroutine)
    /\ \A t \in Threads : WF_vars(Post(t))
    /\ WF_vars(\E s \in Setters : Complete(s))
    /\ WF_vars(DeadlinePasses)

------------------------------------------------------------------------------
(* Properties                                                               *)

Postings ==
    [step : {"idle", "take", "clock", "select", "cancel", "enqueue"},
     token : {"ready", "timeout"} \X (Waits \cup {0}),
     as : {"ready", "timeout"}]

\* The variables have their types.
TypeOK ==
    /\ terminal \in Terminals \cup {"Pending"}
    /\ waiters \subseteq Waits /\ timed \subseteq Waits /\ late \subseteq Waits
    /\ timers \subseteq Waits /\ overdue \subseteq Waits
    /\ tokens \subseteq {"ready", "timeout"} \X Waits
    /\ selected \in [Waits -> {"none", "ready", "timeout"}]
    /\ result \in [Waits -> {"none", "ready", "timeout"}]
    /\ queued \in Nat /\ wait \in 0..Rounds
    /\ consumed \in BOOLEAN /\ violated \in BOOLEAN
    /\ pc \in {"running", "deadline", "suspend", "inner", "register", "suspended",
               "resume", "settle"}
    /\ posting \in [Threads -> Postings]

\* The threads that have won a wait and have still to enqueue the frame.
Winners == {t \in Threads : posting[t].step \in {"cancel", "enqueue"}}

\* A suspended coroutine is woken once per wait: the frame is queued at most once, by at
\* most one thread, and neither a late setter nor a stale timer wakes a later wait or a
\* coroutine that is running.
NoStaleWakeup ==
    /\ queued <= 1
    /\ queued = 1 => pc = "suspended" /\ Winners = {}
    /\ \A t \in Winners : pc = "suspended" /\ TokenWait(t) = wait /\ Winners = {t}

\* The waits of one consumer never violate the future's contract: they are not resumed
\* before completion, do not consume a value twice, and a wait that follows a timeout does
\* not find the older one registered, even if its awaitable still exists.
NoContractViolation == ~violated

\* A suspended timed wait whose deadline has passed when the promise is completed returns
\* a timeout.
LateCompletionTimesOut == \A w \in overdue : result[w] # "ready"

\* A wait that timed out leaves the value to the next wait.
TimeoutKeepsValue == consumed => \E w \in Waits : result[w] = "ready"

\* Every wait returns.
WaitReturns == \A w \in Waits : wait = w ~> result[w] # "none"

Abstract == INSTANCE OneShotWait WITH
    avail <- terminal # "Pending",
    outcome <- selected,
    returned <- result

\* The tokens, the timer and the promise implement a wait that is decided once and returns
\* what was decided.
ImplementsOneShotWait == Abstract!Spec

==============================================================================
