\* One listener on a machine with a container runtime.
SPECIFICATION SceneSpec
CONSTANTS
  Service = {1}
  Container = {}
  Pid = {a, b}
  Port = {80}
  Project = {1}
  NoProject = none
  NoEntry = noEntry
  NoPort = noPort
  PrimaryPort <- MCPrimaryPort
  HomeProject <- MCHomeProject
  NotPending = notPending
  Idle = idle
  MaxStopped = 1
  PortlessRetention = 0
  RestartWindow = 1
  RestartThreshold = 1
  MaxRestartCount = 1
  DebounceWindow = 0
  ClockSteps = {1}
  MaxTime = 3
  QueueDepth = 1
  RingCapacity = 2
  WatchFiles = FALSE
  MaxFileEvents = 1
  MaxCrashes = 0
INVARIANT ObservedProjectsAreKnown
CHECK_DEADLOCK FALSE
