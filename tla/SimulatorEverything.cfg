SPECIFICATION FleetSpec
CONSTANTS
  Devices = {d1}
  MaxRows = 2
  MaxCalls = 1
  MaxFaults = 1
INVARIANTS
  TypeOK
  OneInstanceEach
  StatesAreTrue
PROPERTIES
  ReportsInOrder
  FleetFollowsTable
CHECK_DEADLOCK FALSE
