CONSTANTS
    Plans <- OneFailFastPlan
    BodyEnds <- PassFail
    MaxLeases = 1
    MaxResumes = 1
    SideWakes = FALSE
SPECIFICATION Spec
INVARIANT CompletedIsRecorded
