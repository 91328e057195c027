SPECIFICATION Spec
CONSTANTS
    Videos = {v1, v2}
    Versions = {x1, x2, x3}
    NoVideo = NoVideo
    Requests = {r1, r2}
    MaxNumber = 4
    MayCrash = FALSE
    v1 = v1
    v2 = v2
    x1 = x1
    x2 = x2
    x3 = x3
    r1 = r1
    r2 = r2
INVARIANT LastVersionStays
