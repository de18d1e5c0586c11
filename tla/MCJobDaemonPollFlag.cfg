SPECIFICATION Spec
CONSTANTS
  j1 = j1
  j2 = j2
  Ids = {j1}
  Initial = {j1}
  Bisync = {}
  Watched = {}
  Scheduled = {}
  Sparse = {}
  Deletable = {}
  Editable = {}
  Stoppable = {j1}
  MaxRetries = 1
  PollLimit = 2
  MaxTriggers = 1
  MaxBoots = 0
  MaxLosses = 0
INVARIANTS
  PollFlagHonest
CHECK_DEADLOCK FALSE
