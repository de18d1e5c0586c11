SPECIFICATION Spec
CONSTANTS
  j1 = j1
  j2 = j2
  Ids = {j1}
  Initial = {j1}
  Bisync = {}
  Watched = {j1}
  Scheduled = {}
  Sparse = {}
  Deletable = {}
  Editable = {}
  Stoppable = {}
  MaxRetries = 1
  PollLimit = 2
  MaxTriggers = 2
  MaxBoots = 0
  MaxLosses = 0
INVARIANTS
  ChangeRemembered
CHECK_DEADLOCK FALSE
