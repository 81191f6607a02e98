CONSTANTS
  p1 = p1
  p2 = p2
  p3 = p3
  None = None
  People = {p1, p2}
  Calls = {c1, c2}
  Notices = {n1, n2}
  Scenarios <- Couple
  Ops <- MCOps
  Apart = TRUE
  MaxCalls = 3
  MaxWait = 0
  MaxEmits = 2
  MaxFailures = 0
SPECIFICATION Spec
PROPERTY ToldOnce
CHECK_DEADLOCK FALSE
