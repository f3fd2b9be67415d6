SPECIFICATION FairSpec
CONSTANTS
    c1 = c1
    c2 = c2
    h1 = h1
    Cases = {c1, c2}
    Helpers = {h1}
    Producer = c1
    Consumer = c2
    Sleepers = {h1}
PROPERTY WaiterResumes
