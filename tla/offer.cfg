CONSTANTS
  m1 = m1
  m2 = m2
  s1 = s1
  s2 = s2
  r1 = r1
  r2 = r2
  x1 = x1
  i1 = i1
  i2 = i2
  i3 = i3
  Members = {m1, m2}
  Services = {s1, s2}
  Rules = {r1, r2}
  Turns = {x1, x2}
  Duration <- MCDuration
  Capacity <- MCCapacity
  AddonSets <- MCAddonSets
  WalkInOnly = {}
  Lapsed = {}
  Lead = 0
  Ahead = 2
  DayEnd = 3
  Shapes <- MCShapes
  OffTimes <- MCOffTimes
  FirstRules <- MCFirstRules
  FirstTurns <- MCFirstTurns
  FirstServices <- MCFirstServices
  LastTick = 1
  MaxCalls = 2
  MaxTears = 1
  Nil = Nil
  Sellers = {v1, v2}
  Items = {i1, i2, i3}
  ItemPrice <- MCItemPrice
  Discounts <- MCDiscounts
  MaxCombos = 3
SPECIFICATION MCSpec
SYMMETRY Alike
INVARIANTS OfferTypeOK OfferedIsOpen OfferedIsAccepted ChipTellsSlots  SelectionsNest AddonsPriced
CHECK_DEADLOCK FALSE
