SPECIFICATION Spec
CONSTANTS
  Windows = {w1, w2}
  RunIds = {1, 2, 3, 4}
  Slots = {2, 4, 20}
  CatchUp = "latest"
  Overlap = "skip"
  MaxRetries = 1
  MaxFailures = 2
  Expires = 9
  Budget = 1
  MaxCalls = 1
  Monitor = TRUE
  MaxTime = 5
  MaxEdits = 1
  MaxCrashes = 1
  LastCrash = 5
  None = None
  NoRun = NoRun
SYMMETRY MCWindows
INVARIANTS OneRunAtATime SlotRunsOnce
PROPERTIES KeepsLedger
CHECK_DEADLOCK FALSE
