SPECIFICATION FairSpec
CONSTANTS
  k1 = k1  k2 = k2  s1 = s1  s2 = s2  soon = soon  late = late
  Keys = {k1, k2}
  Sources = {s1, s2}
  Providers = {s1, s2}
  SourceOf <- MCSourceOf
  Payloads = {soon, late}
  At <- MCAt
  Ids = {1, 2, 3, 4}
  Faults = {"load", "provider", "schedule", "history", "save", "verify", "cancel"}
  MaxTime = 2
  MaxEdits = 1
  MaxFaults = 1
  NoPlan = NoPlan  NoPayload = NoPayload  NoKey = NoKey  NoId = NoId
INVARIANTS Accounted
PROPERTIES Converges
