\* Five scenes of the dashboard; MCDashboard says which.
SPECIFICATION Spec
CONSTANTS
  Service = {"a", "b", "svc_demo_web", "svc_demo_api"}
  Project = {"p", "q", "prj_demo"}
  NoProject = "no project"
  HomeOf <- MCHomeOf
  Caller = "a"
  EVENT_BUFFER = 2
  BackoffSteps = 2
  MaxTicks = 3
  MaxFaults = 1
  TimelineLimit = 2
  MaxCalls = 2
  MaxVisits = 2
INVARIANTS DashTypeOK TablesReplay FeedInOrder
INVARIANTS InspectorIsExplained TimelineHasNoHole DemoIsClosed
PROPERTIES BadgeIsHonest ViewCatchesUp PagesSettleToo
CHECK_DEADLOCK FALSE
