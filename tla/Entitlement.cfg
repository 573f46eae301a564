SPECIFICATION MCSpec
CONSTANTS
  a = a  b = b  a1 = a1  a2 = a2
  Users = {a, b}
  Licenses = {a1, a2}
  Owner <- MCOwner
  None = None
  Whatever = Whatever
  MaxEdits = 2
  MaxFaults = 1
INVARIANTS TypeOK StopHolds
PROPERTIES KeepsNewer Settles
CHECK_DEADLOCK FALSE
