SPECIFICATION FairSpec
CONSTANTS
  j1 = j1
  j2 = j2
  Ids = {j1}
  Initial = {j1}
  Bisync = {j1}
  Watched = {j1}
  Scheduled = {j1}
  Sparse = {}
  Deletable = {}
  Editable = {j1}
  Stoppable = {}
  MaxRetries = 1
  PollLimit = 2
  MaxTriggers = 1
  MaxBoots = 1
  MaxLosses = 1
INVARIANTS
  ScheduleKept
PROPERTIES
  Settles
CHECK_DEADLOCK FALSE
