CONSTANTS
    Plans <- OnePlan
    BodyEnds <- PassFail
    MaxLeases = 1
    MaxResumes = 1
    SideWakes = FALSE
SPECIFICATION Spec
INVARIANT OnlyStuckRunsFail
