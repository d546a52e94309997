SPECIFICATION DeriverSpec
CONSTANTS
  Service = {1, 2}
  Container = {2}
  Pid = {a, b}
  Port = {}
  Project = {}
  NoProject = none
  NoEntry = noEntry
  NoPort = noPort
  PrimaryPort <- MCPrimaryPort
  HomeProject <- MCHomeProject
  NotPending = notPending
  MaxStopped = 1
  PortlessRetention = 3
  RestartWindow = 1
  RestartThreshold = 1
  MaxRestartCount = 1
  DebounceWindow = 2
  ClockSteps <- MCClockSteps
  MaxTime = 5
SYMMETRY PidSymmetry
INVARIANTS DeriverTypeOK PendingIsShort
PROPERTIES LogReplays RestartsAreTold
CHECK_DEADLOCK FALSE
