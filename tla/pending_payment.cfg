CONSTANTS
  Refs = {m1}
  Cash = {}
  Writers = {w1}
  Jobs = {j1}
  TrialDays = 0
  PeriodDays = 2
  GraceDays = 1
  LastDay = 4
  MaxCuts = 0
  NoWork = NoWork
SPECIFICATION SubFairSpec
PROPERTY ApprovedIsCredited
CHECK_DEADLOCK FALSE
