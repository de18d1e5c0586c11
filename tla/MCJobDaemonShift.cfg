SPECIFICATION Spec
CONSTANTS
  j1 = j1
  j2 = j2
  Ids = {j1, j2}
  Initial = {j1, j2}
  Bisync = {}
  Watched = {}
  Scheduled = {}
  Sparse = {}
  Deletable = {j1, j2}
  Editable = {}
  Stoppable = {}
  MaxRetries = 1
  PollLimit = 2
  MaxTriggers = 1
  MaxBoots = 0
  MaxLosses = 0
INVARIANTS
  DroppedOnlyIfDeleted
CHECK_DEADLOCK FALSE
