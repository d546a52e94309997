SPECIFICATION Spec
CONSTANTS
  Service = {1, 2, 3}
  Container = {3}
  Pid = {a, b}
  Port = {80}
  Project = {}
  NoProject = none
  NoEntry = noEntry
  NoPort = noPort
  PrimaryPort <- MCPrimaryPort
  HomeProject <- MCHomeProject
  MaxStopped = 1
  PortlessRetention = 0
  RestartWindow = 0
  RestartThreshold = 2
  MaxRestartCount = 2
  ClockSteps <- MCClockSteps
  MaxTime = 1
INVARIANTS TypeOK StoppedIsEmpty RetentionBounded
PROPERTIES DeltaReplays OutagesAreKept
CHECK_DEADLOCK FALSE
SYMMETRY PidSymmetry
