SPECIFICATION TeamSpec
CONSTANTS
    TrialDays = 1
    UnpaidGrace = 1
    CleanupGrace = 1
    NoticeDays = 1
    Period = 2
    MaxSubs = 2
    LastDay = 4
    Invites = {i1, i2}
    Requests = {r1, r2}
    None = none
    Uploads = {u1, u2, u3}
    Kinds = {"version", "asset", "subtitle", "bunny"}
    Sizes = {1}
    Limit = 3
    Comments = {1, 2}
    Fetches = {f1}
    PageSize = 1
    MaxClock = 2
    MaxClicks = 2
    MaxGone = 1
CHECK_DEADLOCK FALSE
INVARIANTS
    QueriesAgree
    NoDoubleBooking
    ShownOnce
    TagVouches
PROPERTIES
    RetentionRuns
    KeptAsPromised
    CancelledStaysOut
