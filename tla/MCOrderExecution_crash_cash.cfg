CONSTANTS
  c1 = c1 c2 = c2 c3 = c3 o1 = o1 o2 = o2 s1 = s1 s2 = s2
  Calls = {c1, c2}
  Orders = {o1, o2}
  Symbols = {s1}
  Tickets <- UnitTickets
  Prices = {1, 2}
  InitialCash = 3
  InitialQty <- OneHeld
  MaxFaults = 0
  MaxCrashes = 1
  NoCall = NoCall NoOrder = NoOrder NoRow = NoRow
SPECIFICATION Spec
SYMMETRY Symmetric
INVARIANT CrashRestoresCash
CHECK_DEADLOCK FALSE
