SPECIFICATION ProjectSpec
CONSTANTS
    Requests = {q1, q2}
    Versions = {x1}
    Approvers = {a1, a2}
    Calls = {n1, n2, n3}
    MayCrash = TRUE
    q1 = q1
    q2 = q2
    x1 = x1
    a1 = a1
    a2 = a2
    n1 = n1
    n2 = n2
    n3 = n3
    Folders = {n1, n2, n3}
    Videos = {v1}
    Users = {u1}
    Owner = owner
    Guest = guest
    None = none
    Root = root
    There = there
    Workspace = ws
    MaxDepth = 3
    MaxGrants = 1
SYMMETRY ProjectSymmetry
CHECK_DEADLOCK FALSE
INVARIANTS
    OutcomeMatchesAnswers
    OutcomeAnnouncedOnce
    WalkMatchesQuery
    PublicIsOpen
PROPERTIES
    LinksDieWithAccess
    OnlyManagersWiden
