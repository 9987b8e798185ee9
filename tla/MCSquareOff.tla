---------------------------- MODULE MCSquareOff ----------------------------
(* Small instances of SquareOff for TLC.                                   *)
EXTENDS SquareOff

CONSTANTS j1, j2, u1, u2, o1, o2, o3, o4, s1, s2

TicketOf(side, s, q) ==
  [side |-> side, type |-> "MARKET", symbol |-> s, qty |-> q, limit |-> 0]

\* The user trades the first of the two symbols held, one or two units.
TradeTickets == {TicketOf(side, s1, q) : side \in {"BUY", "SELL"}, q \in {1, 2}}
AllTickets == TradeTickets \cup {TicketOf("SELL", s, q) : s \in Symbols, q \in 1..6}
Held == [s \in Symbols |-> IF s = s1 THEN 3 ELSE 1]

\* Bound: a second order of the user's is for one unit and overlaps one for two on
\* the same side (which it may write over), and nothing fails then.
Bounded ==
  /\ orders[o4] # NoOrder =>
       /\ \E side \in {"BUY", "SELL"} :
            /\ orders[o3] # NoOrder /\ orders[o3].ticket = TicketOf(side, s1, 2)
            /\ orders[o4].ticket = TicketOf(side, s1, 1)
       /\ faults = 0 /\ crashes = 0
  /\ call[u2].pc # "idle" => call[u2].order = o4 /\ call[u1].order = o3 /\ s1 \in overlapped
BoundedSpec == SquareOffInit /\ [][SquareOffNext /\ Bounded']_svars /\ Fairness
=============================================================================
