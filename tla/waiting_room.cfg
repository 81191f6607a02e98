CONSTANTS
  p1 = p1
  p2 = p2
  p3 = p3
  None = None
  People = {p1, p2, p3}
  Calls = {c1, c2}
  Notices = {}
  Scenarios <- RoomScenarios
  Ops <- MCOps
  Apart = TRUE
  MaxCalls = 3
  MaxWait = 1
  MaxEmits = 0
  MaxFailures = 1
SPECIFICATION Spec
INVARIANTS TypeOK TicketsUnique CalledIsPresent
PROPERTIES  OrderKept MovePasses
CHECK_DEADLOCK FALSE
