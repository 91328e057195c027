SPECIFICATION UploadsSpec
CONSTANTS
    Uploads = {u1}
    Requests = {r1, r2}
    MayCrash = TRUE
    Imports = {i1}
    Procs = {p1, p2, p3}
    Backends = {"S3", "BUNNY"}
    CopySlots = 1
    MaxCrashes = 2
    Files = {f1, f2}
    None = None
    u1 = u1
    r1 = r1
    r2 = r2
    i1 = i1
    p1 = p1
    p2 = p2
    p3 = p3
    f1 = f1
    f2 = f2
CHECK_DEADLOCK FALSE
INVARIANTS
    RowsArePaidOnce
    OneRowPerUpload
    SweeperSparesUsedObjects
PROPERTIES
    UnownedObjectsGoAway
    ImportsSettle
