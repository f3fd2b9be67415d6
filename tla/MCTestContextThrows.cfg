SPECIFICATION Spec
CONSTANTS
    Workers = {w1}
    MaxLogs = 1
    Callbacks = 0
    Outcomes = {"returns", "asserts", "throws"}
    Kinds = {"async"}
    FailFast = FALSE
    HookFails = FALSE
INVARIANTS
    ThrownIsRecorded
