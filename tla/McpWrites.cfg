SPECIFICATION Spec
CONSTANTS
  Names = {notes}
  Calls = {c1, c2}
  Ids = {i1}
  NoCall = NoCall
  NoId = NoId
  Ttl = 1
  MaxRequests = 1
  MaxQueue = 2
  MaxTime = 1
  MaxEdits = 1
  MaxFaults = 0
  MaxRestarts = 0
SYMMETRY Symmetry
INVARIANTS PermissionIsWanted
PROPERTIES WriteIsAuthorised WriteSeesApprovedState KeepsPromise
CHECK_DEADLOCK FALSE
