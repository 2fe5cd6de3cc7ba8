SPECIFICATION SiteSpec
CONSTANTS
  Devices = {d1, d2}
  NoDevice = NoDevice
  MaxTelemetry = 1
  MaxFlights = 2
  MaxIndicators = 2
  Records = {r1, r2}
  NoRecord = NoRecord
  MaxLists = 2
  MaxViews = 2
  MaxEvents = 3
  MaxDetails = 2
  MaxClicks = 3
  Searches = {{d1}, {d1, d2}}
  FilterNames = {n1, n2}
  Unnamed = Unnamed
  MaxFilters = 3
  MaxEdits = 3
INVARIANTS
  TypeOK
  DashboardIsSteady
  PaneFollowsRow
  DevicesPageAgrees
  FilterRowsKept
PROPERTIES
  PollingMovesOn
  PollingNeverStops
  SelectionSurvives
  ListsAreLatest
  EditorKeepsFilter
  TabComesToRest
