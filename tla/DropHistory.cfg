\* Two listeners, each in a project of its own, and a queue of one.
SPECIFICATION SceneSpec
CONSTANTS
  Service = {1, 2}
  Container = {}
  Pid = {a, b}
  Port = {80}
  Project = {1, 2}
  NoProject = none
  NoEntry = noEntry
  NoPort = noPort
  PrimaryPort <- MCPrimaryPort
  HomeProject <- MCHomeProject
  NotPending = notPending
  Idle = idle
  MaxStopped = 1
  PortlessRetention = 0
  RestartWindow = 1
  RestartThreshold = 1
  MaxRestartCount = 1
  DebounceWindow = 0
  ClockSteps = {1}
  MaxTime = 3
  QueueDepth = 1
  RingCapacity = 2
  WatchFiles = FALSE
  MaxFileEvents = 1
  MaxCrashes = 0
INVARIANT DropCostsOneTick
CHECK_DEADLOCK FALSE
