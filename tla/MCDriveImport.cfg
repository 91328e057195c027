SPECIFICATION Spec
CONSTANTS
    Imports = {i1, i2}
    Procs = {p1, p2, p3}
    Backends = {"S3", "BUNNY"}
    CopySlots = 1
    MaxCrashes = 1
    LostAnswers = FALSE
    i1 = i1
    i2 = i2
    p1 = p1
    p2 = p2
    p3 = p3
SYMMETRY ImportSymmetry
CHECK_DEADLOCK FALSE
INVARIANTS
    AttachedMediaStays
PROPERTIES
    KeepsThePromise
