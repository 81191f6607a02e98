CONSTANTS
  a = a
  b = b
  s1 = s1
  s2 = s2
  p1 = p1
  p2 = p2
  f = f
  PayRows = {i1, i2, i3, i4}
  Clerks = {t1}
  PayHooks = {h1}
  Price = 3
  VatPercent = 21
  FirstRows <- MCFirstRows
  OneClerk = TRUE
  MaxCharges = 3
  MaxBreaks = 1
  NoCall = NoCall
  Refs = {m1}
  Cash = {k1}
  Writers = {c1, c2}
  Jobs = {j1}
  TrialDays = 0
  PeriodDays = 2
  GraceDays = 1
  LastDay = 4
  MaxCuts = 1
  NoWork = NoWork
  Emails = {a, b}
  Slugs = {s1, s2}
  People = {p1, p2}
  Phones = {f}
  Invites = {v1}
  Codes = {k2}
  Handlers = {c1, c2}
  Worlds <- MCWorlds
  MaxCalls = 3
  MaxDrops = 1
  Nil = Nil
  Notes = {n1}
  Waits = {q1}
  Browsers = {d1}
  Owners = {o1, o2}
  Entries = {e1, e2}
  Files = {f1}
  Panel = {c1, c2}
  Workers = {c1, c2}
  MaxAttempts = 2
  MaxStalls = 1
  MaxAsks = 3
  MaxFaults = 2
  Nothing = Nothing
SPECIFICATION BackSpec
INVARIANTS BackOfficeTypeOK ManualWithinPrice MpPaidIsApproved PaidPeriodsApart PaidHasAccess BlockedAfterGrace  AcceptedIsMember 
PROPERTIES AccreditedKept
SYMMETRY Alike
CHECK_DEADLOCK FALSE
