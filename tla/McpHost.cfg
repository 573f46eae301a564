SPECIFICATION FairSpec
CONSTANTS
  Names = {tasks, notes}
  Calls = {}
  Ids = {}
  NoCall = NoCall
  NoId = NoId
  Ttl = 1
  MaxRequests = 1
  MaxQueue = 2
  MaxTime = 0
  MaxEdits = 0
  MaxFaults = 1
  MaxRestarts = 1
INVARIANTS TypeOK HostAccounted StatusTruthful
PROPERTIES HostFollowsMembership
CHECK_DEADLOCK FALSE
