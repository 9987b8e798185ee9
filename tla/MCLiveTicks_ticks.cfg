CONSTANTS
  Clients = {c1, c2}
  Symbols = {s1}
  Exchanges = {e1, e2}
  NoExchange = NoExchange
  MaxEvents = 4
  MaxLosses = 1
  MaxRestarts = 1
SPECIFICATION FairSpec
INVARIANTS CountsExact RoomFollowsWatch LiveFollowsCounts
PROPERTY TicksComeLive
CHECK_DEADLOCK FALSE
