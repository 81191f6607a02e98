CONSTANTS
  r1 = r1
  r2 = r2
  r3 = r3
  None = None
  Requests = {r1, r2}
  Hooks = {w1, w2}
  Edits = {}
  Scenarios <- RaceScenarios
  Services <- MCServices
  Duration <- MCDuration
  Capacity <- MCCapacity
  Starts = {0, 1, 2}
  EditOps = {"cancel"}
  Ages = {}
  MaxFailures = 0
SPECIFICATION Spec
INVARIANT OneServiceAtATime
CHECK_DEADLOCK FALSE
