SPECIFICATION Spec
CONSTANTS
    Workers = {w1}
    MaxLogs = 1
    Callbacks = 1
    Outcomes = {"returns"}
    Kinds = {"sync", "async"}
    FailFast = FALSE
    HookFails = FALSE
INVARIANTS
    LeasedCallbackFindsContextOpen
