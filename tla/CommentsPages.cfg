SPECIFICATION Spec
CONSTANTS
  Comments = {1, 2}
  Fetches = {f1}
  PageSize = 1
  MaxClock = 2
  MaxClicks = 0
  MaxGone = 2
PROPERTY PagesHoldAll
CHECK_DEADLOCK FALSE
