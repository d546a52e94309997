SPECIFICATION SceneSpec
CONSTANTS
  Service = {1, 2}
  Container = {2}
  Pid = {a, b}
  Port = {80}
  Project = {1}
  NoProject = none
  NoEntry = noEntry
  NoPort = noPort
  PrimaryPort <- MCPrimaryPort
  HomeProject <- MCHomeProject
  NotPending = notPending
  Idle = idle
  MaxStopped = 1
  PortlessRetention = 0
  RestartWindow = 1
  RestartThreshold = 1
  MaxRestartCount = 1
  DebounceWindow = 0
  ClockSteps = {1}
  MaxTime = 3
  QueueDepth = 2
  RingCapacity = 3
  WatchFiles = TRUE
  MaxFileEvents = 2
  MaxCrashes = 1
INVARIANTS PersistTypeOK RowsAreCurrent RestartKeepsTimeline
PROPERTIES ProjectMemory ImplementsHistory WriterCatchesUp
CHECK_DEADLOCK FALSE
