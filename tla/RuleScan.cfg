SPECIFICATION MCSpec
CONSTANTS
  daily = daily
  once = once
  None = None
  w2 = w2
  Windows = {w1, w2}
  Callers = {w1, w2}
  WindowOf <- MCWindowOf
  Scanner <- MCScanner
  Rules = {daily, once}
  Occurs <- MCOccurs
  Events <- MCEvents
  Targets = {desktop}
  Years = {0, 1}
  YearOf <- MCYearOf
  MaxFaults = 1
  MaxTime = 1
INVARIANTS TypeOK ShownIsKnown IndexCounts NothingSkipped
PROPERTIES SendIsFresh OccurrencesAreAnnounced
CHECK_DEADLOCK FALSE
