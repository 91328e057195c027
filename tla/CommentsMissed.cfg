SPECIFICATION FairSpec
CONSTANTS
  Comments = {1, 2}
  Fetches = {f1}
  PageSize = 2
  MaxClock = 2
  MaxClicks = 1
  MaxGone = 2
PROPERTY MissedChangesRecover
CHECK_DEADLOCK FALSE
