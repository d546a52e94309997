\* The source's threshold, one host worker, ticks one time unit apart.
SPECIFICATION Spec
CONSTANTS
  Service = {1}
  Container = {}
  Pid = {a, b}
  Port = {80}
  Project = {}
  NoProject = none
  NoEntry = noEntry
  NoPort = noPort
  PrimaryPort <- MCPrimaryPort
  HomeProject <- MCHomeProject
  MaxStopped = 1
  PortlessRetention = 9
  RestartThreshold = 3
  MaxRestartCount = 5
  ClockSteps = {1}
  RestartWindow = 2
  MaxTime = 8
INVARIANT LoopSignalClears
CHECK_DEADLOCK FALSE
