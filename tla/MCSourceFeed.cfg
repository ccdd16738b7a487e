SPECIFICATION Spec
CONSTANTS
    Clients = {c1, c2}
    OutCap = 1
    SubCap = 1
    MaxVersion = 3
    MaxGen = 3
INVARIANTS
    FeedIsWhole
    NothingSkipped
PROPERTIES
    ClientsCatchUp
    NothingLeaks
CHECK_DEADLOCK FALSE
