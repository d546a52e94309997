\* Boards and graphs, charts, cards, labels, panels and warnings; MCComponents says which.
SPECIFICATION Spec
CONSTANTS
  Service <- MCService
  MaxConnections = 3
  Value = {0, 3, 50}
  MaxSamples = 4
  WrapperWidth = {0, 5, 8}
  NoPointer = noPointer
  Member = {0, 1, 2, 3}
  Family = {1, 2}
  FamilyOf <- MCFamilyOf
  Memory <- MCMemory
  Down = down
  Unmeasured = unmeasured
  Wait <- MCWait
  MaxAge = 140000
  Amount <- MCAmount
  Event = {e1, e2, e3}
  NoEvent = noEvent
  MaxPanels = 4
  Subject = {"listener", "worker"}
  Sighting <- MCSighting
  restart_threshold = 2
  restart_window = 2
  cpu_samples = 2
  growth_samples = 2
  event_window = 4
  EVENT_RING_CAPACITY = 3
  TickLength = {2}
  Backlog = 2
  MaxClock = 6
  MaxStarts = 1
INVARIANTS LayoutTypeOK LongestPath ArrowsPointRight PictureFits BoxesAreApart
INVARIANTS HoverIsASample CurveStaysInside BarAddsUp PanelIsOfItsEvent WarningsAreTrue
PROPERTIES HoverFollowsPointer CardsKeepTheirPlaces LabelsKeepOrder
CHECK_DEADLOCK FALSE
