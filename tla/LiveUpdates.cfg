SPECIFICATION FairLiveSpec
CONSTANTS
  Service = {1, 2}
  Container = {2}
  Pid = {a, b}
  Port = {80}
  Project = {}
  NoProject = none
  NoEntry = noEntry
  NoPort = noPort
  PrimaryPort <- MCPrimaryPort
  HomeProject <- MCHomeProject
  MaxStopped = 1
  PortlessRetention = 0
  RestartWindow = 1
  RestartThreshold = 1
  MaxRestartCount = 1
  ClockSteps = {1}
  MaxTime = 3
  QueueCapacity = 1
  WireCapacity = 1
  MaxFaults = 1
INVARIANTS LiveTypeOK LastWordIsRight
PROPERTIES Converges
