CONSTANTS
  c1 = c1 c2 = c2 c3 = c3 o1 = o1 o2 = o2 s1 = s1 s2 = s2
  Calls = {c1, c2, c3}
  Orders = {o1, o2}
  Symbols = {s1, s2}
  Tickets <- TwoSymbolTickets
  Prices = {1, 2}
  InitialCash = 2
  InitialQty <- OneHeld
  MaxFaults = 0
  MaxCrashes = 0
  NoCall = NoCall NoOrder = NoOrder NoRow = NoRow
SPECIFICATION IsolatedSpec
PROPERTY FillsAtomically
CHECK_DEADLOCK FALSE
