\* A project that starts while the overview is open.
SPECIFICATION Spec
CONSTANTS
  Service = {"a", "b", "svc_demo_web", "svc_demo_api"}
  Project = {"p", "q", "prj_demo"}
  NoProject = "no project"
  HomeOf <- MCHomeOf
  Caller = "a"
  EVENT_BUFFER = 2
  BackoffSteps = 2
  MaxTicks = 3
  MaxFaults = 0
  TimelineLimit = 2
  MaxCalls = 2
  MaxVisits = 1
PROPERTY ProjectsCatchUp
CHECK_DEADLOCK FALSE
