SPECIFICATION Spec
CONSTANTS
  k1 = k1  k2 = k2  s1 = s1  s2 = s2  soon = soon  late = late
  Keys = {k1, k2}
  Sources = {s1, s2}
  Providers = {s1, s2}
  SourceOf <- MCSourceOf
  Payloads = {soon, late}
  At <- MCAt
  Ids = {1, 2, 3, 4}
  Faults = {"load", "provider", "schedule", "save", "verify", "cancel", "history", "expiry", "crash"}
  MaxTime = 1
  MaxEdits = 2
  MaxFaults = 1
  NoPlan = NoPlan  NoPayload = NoPayload  NoKey = NoKey  NoId = NoId
SYMMETRY MCSwap
INVARIANTS TypeOK NoLostUpdate
PROPERTIES ReplaceBeforeCancel FailedSourceUntouched RecordedAfterSaved
