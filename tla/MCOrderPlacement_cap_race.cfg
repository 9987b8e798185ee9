CONSTANTS
  r1 = r1 r2 = r2 x1 = x1 o1 = o1 o2 = o2 s1 = s1 s2 = s2
  Calls = {r1, r2}
  Requests = {r1, r2}
  Orders = {o1, o2}
  Symbols = {s1, s2}
  Tickets <- MarketBuys
  Prices = {1, 2}
  InitialCash = 3
  InitialQty <- NoneHeld
  Keys = {}
  MaxPositions = 1
  MaxFaults = 0
  MaxCrashes = 0
  NoCall = NoCall NoOrder = NoOrder NoRow = NoRow NoKey = NoKey NoReply = NoReply
SPECIFICATION PlacementSpec
SYMMETRY Symmetric
INVARIANT PositionCap
CHECK_DEADLOCK FALSE
