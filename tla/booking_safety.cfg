CONSTANTS
  r1 = r1
  r2 = r2
  r3 = r3
  None = None
  Requests = {r1, r2, r3}
  Hooks = {w1, w2}
  Edits = {e1}
  Scenarios <- FirmScenarios
  Services <- MCServices
  Duration <- MCDuration
  Capacity <- MCCapacity
  Starts = {0, 1, 2}
  EditOps = {"cancel", "clientCancel", "noShow"}
  Ages = {"expired", "stale"}
  MaxFailures = 1
SPECIFICATION Spec
INVARIANTS TypeOK FirmWithinCapacity FirmOneService PaymentBooksOnce BumpedIsTold
PROPERTIES BumpedForATurn  BooksAsAgenda
SYMMETRY Alike
CHECK_DEADLOCK FALSE
