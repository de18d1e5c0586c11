SPECIFICATION Spec
CONSTANTS
  j1 = j1
  j2 = j2
  Ids = {j1}
  Initial = {j1}
  Bisync = {j1}
  Watched = {}
  Scheduled = {j1}
  Sparse = {j1}
  Deletable = {}
  Editable = {}
  Stoppable = {j1}
  MaxRetries = 1
  PollLimit = 2
  MaxTriggers = 2
  MaxBoots = 0
  MaxLosses = 1
INVARIANTS
  CountExact
  AutoRunsBounded
  ResyncOnce
  NoRunForgotten
  OneLiveRun
  VerdictIsTrue
PROPERTIES
  LivesAsPromised
CHECK_DEADLOCK FALSE
