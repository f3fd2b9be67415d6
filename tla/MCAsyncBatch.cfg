CONSTANTS
    Plans <- SafetyPlans
    BodyEnds <- EveryOutcome
    MaxLeases = 1
    MaxResumes = 1
    SideWakes = TRUE
SPECIFICATION Spec
INVARIANT TypeOK
INVARIANT CountersMatchResults
INVARIANT QueueIsConsistent
INVARIANT GroupIsolation
INVARIANT OnlyCompletedAreLeft
INVARIANT AllAccounted
INVARIANT IncompleteRunFails
PROPERTY FailFastStops
