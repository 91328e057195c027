SPECIFICATION Spec
CONSTANTS
    People = {p1}
    p1 = p1
    MaxSubs = 2
    MaxBlocks = 1
    Calls = {c1, c2}
    c1 = c1
    c2 = c2
    MaxEvents = 2
CHECK_DEADLOCK FALSE
INVARIANTS
    MirrorIsCurrent
PROPERTIES
    PaidItemsStay MirrorCatchesUp SoloSettles
