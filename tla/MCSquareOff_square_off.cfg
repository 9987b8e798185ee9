CONSTANTS
  j1 = j1 j2 = j2 u1 = u1 u2 = u2 s1 = s1 s2 = s2
  o1 = o1 o2 = o2 o3 = o3 o4 = o4
  Calls = {j1, j2, u1, u2}
  Closers = {j1, j2}
  Orders = {o1, o2, o3, o4}
  CloseOrders = {o1, o2}
  Symbols = {s1, s2}
  Tickets <- AllTickets
  UserTickets <- TradeTickets
  Prices = {1}
  InitialCash = 3
  InitialQty <- Held
  MaxFaults = 1
  MaxCrashes = 1
  NoCall = NoCall NoOrder = NoOrder NoRow = NoRow
SPECIFICATION BoundedSpec
INVARIANTS EveryPositionTried RefusedOnlyIfSold
PROPERTIES ClosingSellFlattens SquareOffEnds
CHECK_DEADLOCK FALSE
