SPECIFICATION Spec
CONSTANTS
    TrialDays = 1
    UnpaidGrace = 1
    CleanupGrace = 1
    NoticeDays = 1
    Period = 2
    MaxSubs = 2
    LastDay = 5
PROPERTIES
    RetentionAlwaysRuns
CHECK_DEADLOCK FALSE
