---------------------------- MODULE MCAsyncBatch -----------------------------
(* Small plans for AsyncBatch. *)
EXTENDS AsyncBatch

E(exc, failures, xfail) ==
    [exc |-> exc, failures |-> failures, skip |-> exc = "Skip", infra |-> FALSE,
     xfail |-> xfail]

PassFail == {E("None", FALSE, FALSE), E("Assertion", TRUE, FALSE)}
\* One end for each outcome: passing, throwing, skipping, blocked (by a dependency and by a
\* shared fixture), failing and passing in spite of an expected failure.
EveryOutcome ==
    {E("None", FALSE, FALSE), E("Throws", FALSE, FALSE), E("Skip", FALSE, FALSE),
     E("Blocked", FALSE, FALSE), [E("Skip", FALSE, FALSE) EXCEPT !.infra = TRUE],
     E("None", TRUE, TRUE), E("None", FALSE, TRUE)}
\* A passing body and one that expects its failure, records it and is blocked.
BlockedXfail == {E("None", FALSE, FALSE), E("Blocked", TRUE, TRUE)}

Plan(kind, group, shared, failFast) ==
    [kind |-> kind, group |-> group, shared |-> shared, failFast |-> failFast]

\* An async case alone, then one with a shared fixture.
TwoGroups == Plan(<<"async", "async">>, <<1, 2>>, {2}, FALSE)
\* Two async cases, then a sync one with a shared fixture, with --fail-fast.
FailFastGroups == Plan(<<"async", "async", "sync">>, <<1, 1, 2>>, {2}, TRUE)
\* A statically skipped case between two async ones.
SkipBetween == Plan(<<"async", "skip", "async">>, <<1, 1, 1>>, {}, FALSE)
TwoAsync(failFast) == Plan(<<"async", "async">>, <<1, 1>>, {}, failFast)

SafetyPlans == {TwoGroups, FailFastGroups, SkipBetween}
LivePlans == {SkipBetween, TwoAsync(TRUE)}
OnePlan == {TwoAsync(FALSE)}
OneFailFastPlan == {TwoAsync(TRUE)}
==============================================================================
