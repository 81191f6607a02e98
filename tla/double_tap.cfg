CONSTANTS
  PayRows = {i1, i2}
  Clerks = {t1, t2}
  PayHooks = {}
  Price = 3
  VatPercent = 21
  FirstRows = {}
  OneClerk = FALSE
  MaxCharges = 2
  MaxBreaks = 0
  NoCall = NoCall
SPECIFICATION ChargeSpec
INVARIANT DoubleTapIsHarmless
CHECK_DEADLOCK FALSE
