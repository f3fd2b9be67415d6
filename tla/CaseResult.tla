----------------------------- MODULE CaseResult ------------------------------
(***************************************************************************)
(* How the runner classifies the end of one case, and what it counts.      *)
(*                                                                         *)
(* A case ends with an exception kind (InvokeException), and with what its *)
(* context recorded: whether there are failures, whether skip() was called *)
(* (and by a shared fixture: infra), whether xfail() was called.  Failure, *)
(* StdException and Unknown differ only in the text they record and are    *)
(* one kind here, "Throws".                                                *)
(***************************************************************************)
EXTENDS Naturals

Exceptions == {"None", "Skip", "Blocked", "Assertion", "Throws"}
Outcomes == {"Pass", "Fail", "Skip", "Blocked", "XFail", "XPass"}

\* The ends a body can have.  skip() requests the skip before it throws; only the
\* skip of an unavailable shared fixture is an infra skip.
Ends ==
    {e \in [exc : Exceptions, failures : BOOLEAN, skip : BOOLEAN, infra : BOOLEAN,
            xfail : BOOLEAN] :
        /\ e.exc = "Skip" => e.skip
        /\ e.infra => e.skip}

\* classify_async_exception (and the handlers of invoke_case_once) record a failure
\* for an exception that is neither a skip, nor blocked, nor an assertion.
Classified(e) == [e EXCEPT !.failures = @ \/ e.exc = "Throws"]

ThrewNonSkip(e) == e.exc \notin {"None", "Skip", "Blocked"}
ShouldSkip(e) == e.exc = "Skip" /\ e.skip

\* The outcome finish_invoke_result reports, in the order of its early returns.
Outcome(e) ==
    IF e.exc = "Blocked" /\ ~e.failures THEN "Blocked"
    ELSE IF ShouldSkip(e) /\ ~e.failures
        THEN IF e.infra THEN "Blocked" ELSE "Skip"
    ELSE IF e.xfail /\ ~ShouldSkip(e)
        THEN IF e.failures \/ ThrewNonSkip(e) THEN "XFail" ELSE "XPass"
    ELSE IF e.failures \/ ThrewNonSkip(e) THEN "Fail"
    ELSE "Pass"

\* Mutant: an expected failure stops the run, too.
WouldStopOnXfail(e) == e.exc = "Blocked" \/ ThrewNonSkip(e) \/ e.failures

\* async_run_would_stop_fail_fast, asked of a completed case before its exception is
\* classified.
WouldStop(e) ==
    \/ e.exc = "Blocked"
    \/ ThrewNonSkip(e) /\ ~e.xfail
    \/ e.failures /\ ~e.xfail

------------------------------------------------------------------------------
Counters == [total : Nat, passed : Nat, failed : Nat, skipped : Nat, blocked : Nat,
             xfail : Nat, xpass : Nat, failures : Nat]

NoCounters == [total |-> 0, passed |-> 0, failed |-> 0, skipped |-> 0, blocked |-> 0,
               xfail |-> 0, xpass |-> 0, failures |-> 0]

One(b) == IF b THEN 1 ELSE 0

\* ++counters.total, which the callers do.
Begin(c) == [c EXCEPT !.total = @ + 1]

\* What finish_invoke_result adds.  A blocked dependency counts as a failure, a
\* case blocked by its shared fixture does not.
Count(c, e) ==
    LET o == Outcome(e)
    IN [c EXCEPT !.passed = @ + One(o = "Pass"),
                 !.failed = @ + One(o \in {"Fail", "XPass"}),
                 !.skipped = @ + One(o \in {"Skip", "XFail"}),
                 !.blocked = @ + One(o = "Blocked"),
                 !.xfail = @ + One(o = "XFail"),
                 !.xpass = @ + One(o = "XPass"),
                 !.failures = @ + One(\/ o \in {"Fail", "XPass"}
                                      \/ o = "Blocked" /\ e.exc = "Blocked")]

\* make_static_skip_result and record_synthetic_skip count the case themselves.
CountStaticSkip(c) == [c EXCEPT !.total = @ + 1, !.skipped = @ + 1]
CountFixtureBlocked(c) == [c EXCEPT !.total = @ + 1, !.blocked = @ + 1]

\* Mutant: blocked cases are forgotten.
ExitOkWhenBlocked(c) == c.failures = 0

\* run_execution's exit code, as far as the tests decide it.
ExitOk(c) == c.failures = 0 /\ c.blocked = 0

\* The summary line's columns add up to its total.
ColumnsAddUp(c) ==
    /\ c.total = c.passed + c.failed + c.skipped + c.blocked
    /\ c.xfail <= c.skipped
    /\ c.xpass <= c.failed
==============================================================================
