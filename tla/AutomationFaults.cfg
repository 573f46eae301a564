SPECIFICATION FairSpec
CONSTANTS
  Windows = {w1}
  RunIds = {1, 2, 3, 4, 5, 6}
  Slots = {2, 4, 20}
  CatchUp = "latest"
  Overlap = "skip"
  MaxRetries = 0
  MaxFailures = 2
  Expires = 1
  Budget = 1
  MaxCalls = 1
  Monitor = FALSE
  MaxTime = 7
  MaxEdits = 1
  MaxCrashes = 2
  LastCrash = 3
  None = None
  NoRun = NoRun
INVARIANTS AnswerOnce
PROPERTIES RunsEnd WorkIsServed
CHECK_DEADLOCK FALSE
