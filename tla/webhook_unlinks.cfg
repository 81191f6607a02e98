CONSTANTS
  r1 = r1
  r2 = r2
  r3 = r3
  None = None
  Requests = {r1}
  Hooks = {w1, w2}
  Edits = {}
  Scenarios <- PaymentScenarios
  Services <- MCServices
  Duration <- MCDuration
  Capacity <- MCCapacity
  Starts = {0, 1, 2}
  EditOps = {"cancel"}
  Ages = {}
  MaxFailures = 0
SPECIFICATION Spec
PROPERTY LinkStays
CHECK_DEADLOCK FALSE
