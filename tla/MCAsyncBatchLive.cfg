CONSTANTS
    Plans <- LivePlans
    BodyEnds <- PassFail
    MaxLeases = 1
    MaxResumes = 1
    SideWakes = TRUE
SPECIFICATION FairSpec
PROPERTY BatchEnds
PROPERTY ResultIsFinal
