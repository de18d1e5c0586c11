SPECIFICATION DesktopSpec
CONSTANTS
  Explored = {"schedule"}
  Remotes = {"r"}
  Disk0 <- SmallDisk
  DirNames = {"h", "d", "n"}
  HiddenNames = {}
  BadNames = {"bad"}
  Home <- HomePath
  NewName = "n"
  MaxMoves = 2
  SrcFiles <- SrcSide
  DstFiles <- DstSide
  BrokenFiles = {}
  DryLogs <- SmallDryLogs
  DryTypes = {"sync", "move"}
  PageSize = 2
  MaxClicks = 3
  Names = {"a", "b", "l"}
  Link <- LinkPath
  Trees0 <- SmallTrees
  TreeDepth = 3
  MaxDepth = 2
  MaxChanges = 2
  Jobs0 <- WatchJobs
  SettingDebounce = 2
  SettingMaxWait = 5
  MaxClock = 10
  Starts <- CronStarts
  Crons <- WeeklyOnly
  HoursPerDay = 2
  MinutesPerHour = 2
  SearchDays = 9
  CapDays = 1
  MaxMinutes = 16
  JobIds = {1, 2}
  InitialLists <- SmallLists
  MaxGestures = 3
  MaxAutoRuns = 1
  Retentions = {0, 1}
  MaxDay = 2
  MaxLines = 2
  LastLines = 1
  RemoteNames = {"r", "s"}
  Providers = {"p", "q"}
  First = "p"
  OAuth = {"p", "q"}
  Conf0 <- OneConf
  MaxSteps = 1
  MaxActs = 5
  MaxLists = 2
  Weekdays = {0, 1}
  MaxTouches = 5
  MaxWindows = 2
  MaxTold = 3
  MaxSent = 2
  Room = 1
  Chunk = 5
  OddSizes = {1, 3}
PROPERTIES
  RunsOnlyWhenDue
CHECK_DEADLOCK FALSE
