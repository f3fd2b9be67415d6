---------------------------- MODULE OneShotWait ------------------------------
(***************************************************************************)
(* What a timed wait promises: every wait is decided once, as ready only    *)
(* when the awaited thing is there and as timed out only when its deadline  *)
(* has passed, and returns what was decided.                                *)
(***************************************************************************)
CONSTANT Waits

VARIABLES
    avail,     \* the awaited thing is there
    late,      \* the waits whose deadline has passed
    outcome,   \* what each wait was decided as
    returned   \* what each wait has returned

vars == <<avail, late, outcome, returned>>

Init ==
    /\ avail = FALSE
    /\ late = {}
    /\ outcome = [w \in Waits |-> "none"]
    /\ returned = [w \in Waits |-> "none"]

BecomeAvailable ==
    /\ avail' = TRUE
    /\ UNCHANGED <<late, outcome, returned>>

DeadlinePasses(w) ==
    /\ late' = late \cup {w}
    /\ UNCHANGED <<avail, outcome, returned>>

Decide(w, o) ==
    /\ outcome[w] = "none"
    /\ o = "ready" => avail
    /\ o = "timeout" => w \in late
    /\ outcome' = [outcome EXCEPT ![w] = o]
    /\ UNCHANGED <<avail, late, returned>>

Return(w) ==
    /\ outcome[w] # "none" /\ returned[w] = "none"
    /\ returned' = [returned EXCEPT ![w] = outcome[w]]
    /\ UNCHANGED <<avail, late, outcome>>

Next ==
    \/ BecomeAvailable
    \/ \E w \in Waits : DeadlinePasses(w) \/ Return(w)
    \/ \E w \in Waits, o \in {"ready", "timeout"} : Decide(w, o)

Spec == Init /\ [][Next]_vars
==============================================================================
