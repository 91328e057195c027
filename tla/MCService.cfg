SPECIFICATION ServiceSpec
CONSTANTS
    Window = 4
    MaxRequests = 2
    CleanupAge = 4
    MaxWait = 1
    LastTime = 9
    Calls = {c1, c2}
    MaxTokens = 3
    MaxUsers = 2
    Smtp = TRUE
    Renditions = {1, 2}
    Listed <- ListedBackwards
    MaxBuilds = 2
    MaxAsked = 2
    LastPosition = 2
    MinDelta = 2
    MaxSends = 3
    Comments = {1, 2, 3, 4}
    Parts = 2
    Latest = 2
    Ranges = {2, 4}
    Length = 3
    Rates <- SomeRates
    Blocks <- SomeBlocks
CHECK_DEADLOCK FALSE
INVARIANTS
    LastLinkWorks
    TwiceTheLimit
    MenuTellsWhatPlays
    SavesInTurn
    MarkersTell
    EveryFrameHasItsLabel
