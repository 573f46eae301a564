SPECIFICATION FairSpec
CONSTANTS
  Windows = {w1}
  RunIds = {1, 2, 3, 4}
  Slots = {2, 20}
  CatchUp = "latest"
  Overlap = "skip"
  MaxRetries = 0
  MaxFailures = 2
  Expires = 9
  Budget = 1
  MaxCalls = 1
  Monitor = FALSE
  MaxTime = 9
  MaxEdits = 2
  MaxCrashes = 1
  LastCrash = 3
  None = None
  NoRun = NoRun
PROPERTIES BlockIsLifted
CHECK_DEADLOCK FALSE
