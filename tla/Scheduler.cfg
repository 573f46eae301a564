SPECIFICATION FairSpec
CONSTANTS
  Names = {rules, jobs, plans}
  Generations = 2
  Concurrency = 2
INVARIANTS TypeOK OneRunPerId TimerIsSet StopHolds
PROPERTIES SignalsAreServed
