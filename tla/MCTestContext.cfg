SPECIFICATION Spec
CONSTANTS
    Workers = {w1, w2, w3}
    MaxLogs = 1
    Callbacks = 2
    Outcomes = {"returns", "asserts", "throws"}
    Kinds = {"sync", "async"}
    FailFast = TRUE
    HookFails = TRUE
SYMMETRY WorkerSymmetry
INVARIANTS
    TypeOK
    LeaseKeepsContextOpen
    RecordedAfterBarrier
PROPERTIES
    NothingAfterRecorded
