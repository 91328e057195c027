SPECIFICATION Spec
CONSTANTS
    Uploads = {u1}
    Requests = {r1, r2}
    MayCrash = TRUE
    u1 = u1
    r1 = r1
    r2 = r2
PROPERTY AttachedObjectsStay
