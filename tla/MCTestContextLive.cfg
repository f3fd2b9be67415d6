SPECIFICATION FairSpec
CONSTANTS
    Workers = {w1, w2}
    MaxLogs = 1
    Callbacks = 0
    Outcomes = {"returns", "asserts"}
    Kinds = {"sync", "async"}
    FailFast = TRUE
    HookFails = FALSE
INVARIANTS
    NeverAborts
PROPERTIES
    EveryCaseFinishes
