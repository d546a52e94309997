\* A service one of whose workers is replaced or joins.
SPECIFICATION LiveSpec
CONSTANTS
  Service = {1}
  Container = {}
  Pid = {a, b}
  Port = {}
  Project = {}
  NoProject = none
  NoEntry = noEntry
  NoPort = noPort
  PrimaryPort <- MCPrimaryPort
  HomeProject <- MCHomeProject
  MaxStopped = 1
  PortlessRetention = 0
  RestartWindow = 1
  RestartThreshold = 1
  MaxRestartCount = 1
  ClockSteps = {1}
  MaxTime = 2
  QueueCapacity = 2
  WireCapacity = 2
  MaxFaults = 0
INVARIANT DashboardIsCurrent
