CONSTANTS
  r1 = r1
  r2 = r2
  r3 = r3
  None = None
  Requests = {r1, r2}
  Hooks = {w1}
  Edits = {e1}
  Scenarios <- FairScenarios
  Services <- MCServices
  Duration <- MCDuration
  Capacity <- MCCapacity
  Starts = {2}
  EditOps = {"start", "complete", "reschedule"}
  Ages = {"expired"}
  MaxFailures = 0
SPECIFICATION FairSpec
PROPERTIES PaidIsHonoured BookingsAreAnswered
CHECK_DEADLOCK FALSE
