CONSTANTS
    Setters = {s1, s2}
    Rounds = 3
    Runner = runner
SPECIFICATION FairSpec
INVARIANT TypeOK
INVARIANT NoStaleWakeup
INVARIANT NoContractViolation
INVARIANT LateCompletionTimesOut
INVARIANT TimeoutKeepsValue
PROPERTY ImplementsOneShotWait
PROPERTY WaitReturns
