SPECIFICATION Spec
CONSTANTS
  Servers = {p1, p2}
  Clients = {c1}
  LastVersion = 3
  Columns = {3}
  Needs <- NeedsPrevious
  Modes = {TRUE, FALSE}
  Runs = {1, 2}
  MaxStarts = 2
  MaxEvents = 2
CHECK_DEADLOCK FALSE
INVARIANTS
  TypeOK
  RecordedIsApplied
  ServingIsMigrated
  HealthyKnowsItsClients
PROPERTIES
  StopsInTheEnd
