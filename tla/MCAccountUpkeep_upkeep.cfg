CONSTANTS
  c1 = c1 c2 = c2 o1 = o1 o2 = o2 s1 = s1 s2 = s2
  Calls = {c1, c2}
  Orders = {o1, o2}
  Symbols = {s1}
  Tickets <- UnitTickets
  Prices = {1, 2}
  InitialCash = 3
  MaxFaults = 0
  MaxCrashes = 0
  InitialQty <- TwoHeld
  NoCall = NoCall NoOrder = NoOrder NoRow = NoRow
SPECIFICATION IsolatedSpec
SYMMETRY Symmetric
INVARIANTS ResetKeepsBooks MarksAgree
CHECK_DEADLOCK FALSE
