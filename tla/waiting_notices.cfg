CONSTANTS
  p1 = p1
  p2 = p2
  p3 = p3
  None = None
  People = {p1, p2}
  Calls = {c1, c2}
  Notices = {n1}
  Scenarios <- Couple
  Ops <- QuietOps
  Apart = TRUE
  MaxCalls = 3
  MaxWait = 0
  MaxEmits = 1
  MaxFailures = 0
SPECIFICATION FairSpec
PROPERTY NextIsTold
CHECK_DEADLOCK FALSE
