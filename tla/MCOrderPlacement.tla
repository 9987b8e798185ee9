-------------------------- MODULE MCOrderPlacement --------------------------
(* Small instances of OrderPlacement for TLC.                              *)
EXTENDS OrderPlacement, TLC

CONSTANTS r1, r2, x1, o1, o2, s1, s2

TicketOf(side, type, s, q, l) ==
  [side |-> side, type |-> type, symbol |-> s, qty |-> q, limit |-> l]

\* BUYs of either symbol at market, the SELL of one, and limited at price 1.
MixedTickets ==
  {TicketOf("BUY", "MARKET", s, 1, 0) : s \in Symbols}
    \cup {TicketOf("SELL", "MARKET", s1, 1, 0), TicketOf("BUY", "LIMIT", s1, 1, 1)}

\* BUYs of either symbol, at market.
MarketBuys == {TicketOf("BUY", "MARKET", s, 1, 0) : s \in Symbols}

NoneHeld == [s \in Symbols |-> 0]
Symmetric == Permutations(Requests) \cup Permutations(Orders)
=============================================================================
