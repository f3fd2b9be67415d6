CONSTANTS
    Plans <- OneFailFastPlan
    BodyEnds <- BlockedXfail
    MaxLeases = 1
    MaxResumes = 1
    SideWakes = FALSE
SPECIFICATION Spec
INVARIANT IncompleteRunFails
