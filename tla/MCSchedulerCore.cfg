SPECIFICATION Spec
CONSTANTS
    c1 = c1
    c2 = c2
    h1 = h1
    h2 = h2
    Cases = {c1, c2}
    Helpers = {h1, h2}
    Producer = c1
    Consumer = c2
    Sleepers = {h1, h2}
SYMMETRY HelperSymmetry
INVARIANTS
    TypeOK
    LinksAgree
    NoStaleAddress
    QueuedOnce
    RunsForItsParent
    ParentIsWoken
    EndedCaseIsGone
