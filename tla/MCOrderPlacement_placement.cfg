CONSTANTS
  r1 = r1 r2 = r2 x1 = x1 o1 = o1 o2 = o2 s1 = s1 s2 = s2
  Calls = {r1, r2, x1}
  Requests = {r1, r2}
  Orders = {o1, o2}
  Symbols = {s1, s2}
  Tickets <- MixedTickets
  Prices = {1}
  InitialCash = 2
  InitialQty <- NoneHeld
  Keys = {k1}
  MaxPositions = 1
  MaxFaults = 1
  MaxCrashes = 1
  NoCall = NoCall NoOrder = NoOrder NoRow = NoRow NoKey = NoKey NoReply = NoReply
SPECIFICATION PlacementSpec
SYMMETRY Symmetric
INVARIANTS OneFillPerKey RepliesAreTrue GatedBuys RejectedNeverTrades
PROPERTY RetrySeesFill
CHECK_DEADLOCK FALSE
