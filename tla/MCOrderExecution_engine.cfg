CONSTANTS
  c1 = c1 c2 = c2 c3 = c3 o1 = o1 o2 = o2 s1 = s1 s2 = s2
  Calls = {c1, c2, c3}
  Orders = {o1, o2}
  Symbols = {s1, s2}
  Tickets <- MixedTickets
  Prices = {1, 2}
  InitialCash = 2
  InitialQty <- TwoOfFirst
  MaxFaults = 1
  MaxCrashes = 1
  NoCall = NoCall NoOrder = NoOrder NoRow = NoRow
SPECIFICATION Spec
SYMMETRY Symmetric
INVARIANTS TypeOK BooksBalance NeverShort ExecutedHasTrade TradeMeansPaid SecondTradeExplained HoldingsMatchTrades
PROPERTIES OverdraftOnlyByReversal FilledForGood
CHECK_DEADLOCK FALSE
